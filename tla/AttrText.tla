------------------------------ MODULE AttrText ------------------------------
(***************************************************************************)
(* Attributes as text.  The token keeps a label and an id as bytes, a date *)
(* as CK_DATE and a type as a number; hsmtool shows them as strings, takes *)
(* strings for --id and --label, and takes a shown map as --template.  The *)
(* module follows one object's text from where it is shown to where it is  *)
(* used: to find the object, to check that a name is free, to make another *)
(* object like it.                                                         *)
(*                                                                         *)
(* Bytes and characters are their codes.  What may fail is the set of its  *)
(* results: of one element, or empty for an error.                         *)
(***************************************************************************)
EXTENDS Integers, FiniteSets, SequencesExt

CONSTANTS
    Others,     \* the attributes of objects that other programs make
    KeyTypes,   \* the numbers of key types to the names hsmtool has for them
    Unknown,    \* numbers it has no name for
    Typed,      \* texts a user types for --label
    NONE,       \* nothing
    MaxObjects  \* bound on the number of objects made: ids stay one byte long

ASSUME AttrTextAssumption ==
    /\ MaxObjects \in 0..127
    /\ Typed \subseteq Seq(Nat)
    /\ Unknown \cap DOMAIN KeyTypes = {}
    /\ IsInjective(KeyTypes) /\ KeyTypes # <<>>

VARIABLES
    objects,  \* the objects on the token
    shown,    \* an object and the map object-show printed of it
    found     \* what the last search by a shown text was, and what it found

vars == <<objects, shown, found>>

Attrs == {"label", "id", "startDate", "keyType"}

(* CK_DATE: four, two and two characters, whatever they are.               *)
IsDate(d) ==
    /\ {d.year, d.month, d.day} \subseteq Seq(Nat)
    /\ Len(d.year) = 4 /\ Len(d.month) = 2 /\ Len(d.day) = 2

WellFormed(o) ==
    /\ o.label \in Seq(0..255) /\ o.id \in Seq(0..255)
    /\ IsDate(o.startDate)
    /\ o.keyType \in Unknown \cup DOMAIN KeyTypes

ASSUME OthersAssumption == \A o \in Others : WellFormed(o)

TypeOK ==
    /\ \A o \in objects : WellFormed(o)
    /\ Cardinality({o.serial : o \in objects}) = Cardinality(objects)
    /\ shown = NONE \/ DOMAIN shown.map = Attrs

Init == objects = {} /\ shown = NONE /\ found = NONE
-----------------------------------------------------------------------------
(* The codecs of util::escape and AttrData.                                *)
Backslash == 92
Colon     == 58
Letter(c) == CASE c = 9 -> 116 [] c = 13 -> 114 [] c = 10 -> 110 [] OTHER -> c
Named     == {9, 13, 10, 39, 34, Backslash}

HexDigits == (48..57) \cup (65..70) \cup (97..102)

Hex(n) == IF n < 10 THEN 48 + n ELSE 55 + n

(* Slip: small letters are taken for capital ones.                         *)
UnhexCapital(c) == IF c \in 48..57 THEN c - 48 ELSE c - 55

Unhex(c) == CASE c \in 48..57 -> c - 48 [] c \in 65..70 -> c - 55
              [] c \in 97..102 -> c - 87

Pair(byte) == <<Hex(byte \div 16), Hex(byte % 16)>>

(* Slip: a backslash stands for itself.                                    *)
EscapedPlain(byte) ==
    IF byte \in 32..126 THEN <<byte>> ELSE <<Backslash, 120>> \o Pair(byte)

Escaped(byte) ==
    IF byte \in Named THEN <<Backslash, Letter(byte)>>
    ELSE IF byte \in 32..126 THEN <<byte>>
    ELSE <<Backslash, 120>> \o Pair(byte)

Escape(bytes) == FlattenSeq([i \in DOMAIN bytes |-> Escaped(bytes[i])])

AsHex(bytes) ==
    FlattenSeq([i \in DOMAIN bytes |->
        IF i > 1 THEN <<Colon>> \o Pair(bytes[i]) ELSE Pair(bytes[i])])

(* What unescape reads at position i: the byte, and how many characters it *)
(* takes.                                                                  *)
Unescaped(text, i) ==
    LET next == IF i < Len(text) THEN text[i + 1] ELSE -1
        is(b, n) == {[byte |-> b, size |-> n]}
    IN  CASE text[i] > 127 -> {}
          [] text[i] \in 0..127 \ {Backslash} -> is(text[i], 1)
          [] text[i] = Backslash /\ next = 120 ->
                IF i + 3 <= Len(text) /\ {text[i + 2], text[i + 3]} \subseteq HexDigits
                THEN is(16 * Unhex(text[i + 2]) + Unhex(text[i + 3]), 4) ELSE {}
          [] OTHER -> UNION {is(b, 2) : b \in {c \in Named : Letter(c) = next}}

Unescape(text) ==
    LET from[i \in 1..Len(text) + 1] ==
            IF i = Len(text) + 1 THEN {<<>>}
            ELSE UNION {{<<u.byte>> \o rest : rest \in from[i + u.size]} :
                            u \in Unescaped(text, i)}
    IN  from[1]

(* The regular expression ^HH(:HH)*$.                                      *)
LooksLikeHex(text) ==
    /\ Len(text) % 3 = 2
    /\ \A i \in DOMAIN text : IF i % 3 = 0 THEN text[i] = Colon ELSE text[i] \in HexDigits

HexBytes(text) ==
    [i \in 1..(Len(text) + 1) \div 3 |-> 16 * Unhex(text[3*i - 2]) + Unhex(text[3*i - 1])]

(* TryFrom<&AttrData> for Vec<u8>                                          *)
ToBytes(data) ==
    IF data.kind # "Str" THEN {}
    ELSE IF LooksLikeHex(data.text) THEN {HexBytes(data.text)} ELSE Unescape(data.text)

Str(text) == [kind |-> "Str", text |-> text]
-----------------------------------------------------------------------------
(* The parts of a CK_DATE may be padded with blanks or be empty.           *)
Blank == {0, 9, 10, 12, 13, 32}

Parse(part) ==
    LET sum[n \in 0..Len(part)] ==
            IF n = 0 THEN 0
            ELSE IF part[n] \in Blank THEN sum[n - 1] ELSE 10 * sum[n - 1] + part[n] - 48
    IN  sum[Len(part)]

Panics(date) ==
    \E part \in {date.year, date.month, date.day} :
        \E i \in DOMAIN part : part[i] \notin Blank \cup 48..57

Digit(n)      == 48 + (n % 10)
TwoDigits(n)  == <<Digit(n \div 10), Digit(n)>>
FourDigits(n) == TwoDigits(n \div 100) \o TwoDigits(n)

Dash == 45

DateText(date) ==
    FourDigits(Parse(date.year)) \o <<Dash>> \o TwoDigits(Parse(date.month))
        \o <<Dash>> \o TwoDigits(Parse(date.day))

(* Slip: the dashes are taken for part of the date.                        *)
ToDateCompact(data) ==
    IF data.kind = "Str" /\ Len(data.text) \in {8, 10}
    THEN {[year |-> SubSeq(data.text, 1, 4), month |-> SubSeq(data.text, 5, 6),
           day |-> SubSeq(data.text, 7, 8)]}
    ELSE {}

ToDate(data) ==
    LET t == data.text
        date(m, d) == {[year |-> SubSeq(t, 1, 4), month |-> SubSeq(t, m, m + 1),
                        day |-> SubSeq(t, d, d + 1)]}
    IN  CASE data.kind = "Str" /\ Len(t) = 8  -> date(5, 7)
          [] data.kind = "Str" /\ Len(t) = 10 -> date(6, 9)
          [] OTHER -> {}

SameDate(d, e) == \A part \in {"year", "month", "day"} : Parse(d[part]) = Parse(e[part])
-----------------------------------------------------------------------------
(* A constant's name is a string in JSON too, and is read as the constant  *)
(* wherever it stands: AttrData is an untagged enum, with Str the last.    *)
NumberOf(name) == CHOOSE n \in DOMAIN KeyTypes : KeyTypes[n] = name

IsName(text) == \E n \in DOMAIN KeyTypes : KeyTypes[n] = text

KeyTypeData(n) ==
    IF n \in Unknown THEN [kind |-> "UnknownKeyType", text |-> <<>>, number |-> n]
    ELSE [kind |-> "KeyType", text |-> KeyTypes[n], number |-> n]

(* Cryptoki has the known types only.                                      *)
ToKeyType(data) == IF data.kind = "KeyType" THEN {data.number} ELSE {}

(* What an AttrData is after it was printed and read again as JSON.        *)
ReadAsJson(data) ==
    IF data.kind = "Str" /\ IsName(data.text) THEN KeyTypeData(NumberOf(data.text)) ELSE data

IntoKv(attr, value) ==
    CASE attr = "label"     -> Str(Escape(value))
      [] attr = "id"        -> Str(AsHex(value))
      [] attr = "startDate" -> Str(DateText(value))
      [] attr = "keyType"   -> KeyTypeData(value)

FromKv(attr, data) ==
    CASE attr \in {"label", "id"} -> ToBytes(data)
      [] attr = "startDate"       -> ToDate(data)
      [] attr = "keyType"         -> ToKeyType(data)
-----------------------------------------------------------------------------
(* Attributes of an object, and where they come from: another program, a   *)
(* command's options, or the object whose shown map was the template.      *)
Make(attrs, by, from) ==
    objects' = objects \cup
        {[label |-> attrs.label, id |-> attrs.id, startDate |-> attrs.startDate,
          keyType |-> attrs.keyType, serial |-> Cardinality(objects) + 1,
          by |-> by, from |-> from]}

NotFull == Cardinality(objects) < MaxObjects

(* find_objects on what the text is converted to.                          *)
Found(attr, data) == {{o \in objects : o[attr] = v} : v \in FromKv(attr, data)}

MakeOther ==
    /\ NotFull
    /\ \E attrs \in Others : Make(attrs, "other", NONE)
    /\ UNCHANGED <<shown, found>>

(* Slip: the check that a name is free compares the texts.                 *)
FreeAsText(text) == ToBytes(Str(text)) # {} /\ ~\E o \in objects : Escape(o.label) = text

(* no_object_exists, of a label.                                           *)
Free(text) == Found("label", Str(text)) = {{}}

NoDate == [year |-> <<0, 0, 0, 0>>, month |-> <<0, 0>>, day |-> <<0, 0>>]

(* A command makes an object under a label, with an id drawn at random:    *)
(* here, one that MakeNamed has not drawn yet.                             *)
MakeNamed(text) ==
    /\ NotFull
    /\ Free(text)
    /\ \E l \in ToBytes(Str(text)), k \in DOMAIN KeyTypes :
        Make([label |-> l, id |-> <<128 + Cardinality(objects)>>,
              startDate |-> NoDate, keyType |-> k], "hsmtool", NONE)
    /\ UNCHANGED <<shown, found>>

(* object-show; it panics at a date with other characters.                 *)
Show(o) ==
    /\ ~Panics(o.startDate)
    /\ shown' = [object |-> o, map |-> [attr \in Attrs |-> IntoKv(attr, o[attr])]]
    /\ found' = NONE
    /\ UNCHANGED objects

(* A command with --label or --id, given as object-show printed it.        *)
Search(attr) ==
    /\ shown # NONE
    /\ found' = [attr |-> attr, text |-> shown.map[attr].text,
                 result |-> Found(attr, Str(shown.map[attr].text)),
                 expected |-> {o \in objects : o[attr] = shown.object[attr]}]
    /\ UNCHANGED <<objects, shown>>

(* A command with the shown map as --template; AttributeMap::to_vec fails  *)
(* as a whole.                                                             *)
Copy ==
    LET value(attr) == FromKv(attr, ReadAsJson(shown.map[attr]))
    IN  /\ shown # NONE /\ NotFull
        /\ \E l \in value("label"), i \in value("id"), d \in value("startDate"),
              k \in value("keyType") :
            Make([label |-> l, id |-> i, startDate |-> d, keyType |-> k],
                 "copy", shown.object)
        /\ shown' = NONE /\ found' = NONE

Next ==
    \/ MakeOther
    \/ \E text \in Typed : MakeNamed(text)
    \/ \E o \in objects : Show(o)
    \/ \E attr \in {"label", "id"} : Search(attr)
    \/ Copy

Spec == Init /\ [][Next]_vars
-----------------------------------------------------------------------------
(* A search by the label or id that object-show printed finds exactly the  *)
(* objects with that label or id, and is never an error.  A label made of  *)
(* hex digits is the exception: it is searched as the bytes it spells.     *)
FoundAsShown ==
    found # NONE /\ ~(found.attr = "label" /\ LooksLikeHex(found.text))
        => found.result = {found.expected}

(* A label as hsmtool understands it when it is given as it was shown.     *)
Retyped(label) ==
    IF LooksLikeHex(Escape(label)) THEN HexBytes(Escape(label)) ELSE label

(* An object made with a shown map for its template is like the one shown: *)
(* the command succeeds only if every attribute survives being printed and *)
(* read, save that blanks in a date become zeros and that a label made of  *)
(* hex digits becomes the bytes it spells.                                 *)
CopyIsExact ==
    \A o \in objects : o.by = "copy" =>
        /\ o.id = o.from.id /\ o.keyType = o.from.keyType
        /\ SameDate(o.startDate, o.from.startDate)
        /\ o.label = Retyped(o.from.label)

(* No two objects that commands made under a label share it, in whichever  *)
(* spelling it was typed, and no two are printed alike.                    *)
NamesApart ==
    \A o, q \in objects :
        o.by = "hsmtool" /\ q.by = "hsmtool" /\ o # q
            => o.label # q.label /\ Escape(o.label) # Escape(q.label)
=============================================================================
