------------------------------- MODULE Banner -------------------------------
(***************************************************************************)
(* The text of a CNXN packet: how AdbDevice::processConnect takes it apart *)
(* (src/src/AdbDevice.cpp) with utils::tokenize and Features, and how one  *)
(* is put together.  A text is a sequence of words and of the separators   *)
(* ":", ";", "=" and ",".                                                  *)
(***************************************************************************)
EXTENDS Sequences, Naturals, FiniteSetsExt, SequencesExt

(* Every separator ends a token, an empty one too; what follows the last   *)
(* separator is a token if there is anything.                              *)
tokenizeNonEmpty(view, separator) ==
    LET from[pos \in 1..Len(view) + 1] ==
            LET found == {i \in pos..Len(view) : view[i] = separator}
                end   == IF found = {} THEN Len(view) + 1 ELSE Min(found)
                token == SubSeq(view, pos, end - 1)
            IN  (IF token = <<>> THEN <<>> ELSE <<token>>)
                \o IF found = {} THEN <<>> ELSE from[end + 1]
    IN  from[1]
tokenize(view, separator) ==
    LET from[pos \in 1..Len(view) + 1] ==
            LET found == {i \in pos..Len(view) : view[i] = separator}
            IN  IF found # {} THEN <<SubSeq(view, pos, Min(found) - 1)>> \o from[Min(found) + 1]
                ELSE IF pos <= Len(view) THEN <<SubSeq(view, pos, Len(view))>> ELSE <<>>
    IN  from[1]

setToString(set) ==
    IF set = <<>> THEN <<>>
    ELSE FoldLeft(LAMBDA str, feature : str \o <<",">> \o feature, Head(set), Tail(set))

stringToSet(view) == tokenize(view, ",")

(* The first two tokens are the system type and the serial number, the     *)
(* third one lists properties.                                             *)
SystemType(view) == tokenize(view, ":")[1]

Properties(view) ==
    LET tokens == tokenize(view, ":")
    IN  IF Len(tokens) > 2 THEN tokenize(tokens[3], ";") ELSE <<>>

KeyOf == [mProduct |-> "ro.product.name", mModel |-> "ro.product.model",
          mDevice |-> "ro.product.device", mFeatureSet |-> "features"]

(* The fields that a banner assigns, and what.  The last property with a   *)
(* key counts; keys that nobody knows are passed over.  The handler reads  *)
(* a second token of every property; for a key without a value there is    *)
(* none, and it reads past the end of a vector: beyond, whatever is there. *)
Assigned(view, beyond) ==
    LET properties == Properties(view)
        key_value  == [i \in DOMAIN properties |-> tokenize(properties[i], "=")]
        Naming(field) == {i \in DOMAIN properties : key_value[i][1] = <<KeyOf[field]>>}
        value(field)  == LET pair == key_value[Max(Naming(field))]
                         IN  IF Len(pair) >= 2 THEN pair[2] ELSE beyond
    IN  [field \in {"mSerial"} \cup {f \in DOMAIN KeyOf : Naming(f) # {}} |->
             CASE field = "mSerial"     -> tokenize(view, ":")[2]
               [] field = "mFeatureSet" -> stringToSet(value(field))
               [] OTHER                 -> value(field)]

NoDetails == [field \in {"mSerial"} \cup DOMAIN KeyOf |-> <<>>]

(* The banner of a device (external): the identity string of sendConnect,  *)
(* with the properties that adbd puts before the features.  The key        *)
(* "features" is there always, with nothing behind it for an empty set.    *)
IdentityString(type, product, features) ==
    <<type, ":", ":">>
    \o (IF product = <<>> THEN <<>> ELSE <<"ro.product.name", "=">> \o product \o <<";">>)
    \o (<<"features", "=">> \o setToString(features))
=============================================================================
