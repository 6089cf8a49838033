---------------------------- MODULE MCAttrText ----------------------------
(* A small instance of AttrText.  In the labels: AB, AB as one byte, a     *)
(* newline and the two characters that stand for it, a constant's name.    *)
EXTENDS AttrText

D(year, month, day) == [year |-> year, month |-> month, day |-> day]

Date2023 == D(<<50, 48, 50, 51>>, <<48, 50>>, <<49, 53>>)
Padded   == D(<<50, 48, 50, 51>>, <<32, 53>>, <<52, 32>>)
NotADate == D(<<50, 48, 50, 51>>, <<65, 65>>, <<52, 32>>)

O(label, id, date, keyType) ==
    [label |-> label, id |-> id, startDate |-> date, keyType |-> keyType]

MCOthers ==
    {O(<<65, 66>>, <<1, 171>>, Date2023, 0), O(<<171>>, <<>>, Padded, 0),
     O(<<10>>, <<65, 66>>, NoDate, 9), O(<<92, 110>>, <<171>>, Padded, 3),
     O(<<67, 75>>, <<1>>, Date2023, 0), O(<<34, 122>>, <<1, 171>>, NotADate, 0),
     O(<<67, 58>>, <<1>>, NoDate, 3), O(<<>>, <<>>, Date2023, 0)}

(* 0 and 3 are CKK_RSA and CKK_EC, written short.                          *)
MCKeyTypes == 0 :> <<67, 75>> @@ 3 :> <<67, 76>>
MCUnknown  == {9}

MCTyped ==
    {<<65, 66>>, <<97, 98>>, <<92, 120, 97, 66>>, <<65, 66, 58, 48, 49>>,
     <<92, 110>>, <<92, 92, 110>>, <<92, 122>>, <<92, 120, 122, 122>>, <<92>>,
     <<163>>, <<67, 75>>, <<120>>}
=============================================================================
