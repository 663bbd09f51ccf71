----------------------------- MODULE MCParser -----------------------------
(***************************************************************************)
(* Texts of two-block programs, and each of them with one item taken out,  *)
(* doubled, replaced or renumbered: every way in which a text can be wrong *)
(* at one place, and many in which it stays right.                         *)
(***************************************************************************)
EXTENDS Parser

It(kind) == [kind |-> kind, val |-> 0]
Num(kind, val) == [kind |-> kind, val |-> val]

NL == <<It("NL")>>
Remark(colons) == <<Num("COMMENT", colons)>>
LabelLine(num) == <<Num("LBL", num), It("COLON")>> \o NL
Move == <<Num("REG", 2), It("LARROW"), Num("INTLIT", 5)>> \o NL
Sum == <<Num("REG", 1), It("LARROW"), Num("REG", 2), It("PLUS"), Num("INTLIT", 1)>> \o NL
Show == <<It("PRINT"), Num("REG", 1)>> \o NL
Jump(lbl) == <<It("BR"), Num("LBL", lbl)>> \o NL
Branch(lbl1, lbl2) ==
    <<It("BR"), Num("REG", 1), It("COMMA"), Num("LBL", lbl1), It("COMMA"), Num("LBL", lbl2)>> \o NL

Sources ==
    { LabelLine(0) \o Jump(1) \o LabelLine(1),
      LabelLine(0) \o Move \o Sum \o Show \o Jump(1) \o LabelLine(1) \o Show,
      LabelLine(0) \o Branch(1, 0) \o NL \o LabelLine(1) \o Move \o Jump(0) \o Jump(1),
      NL \o Remark(0) \o NL \o LabelLine(0) \o LabelLine(1) \o Sum \o Move \o Branch(0, 1),
      LabelLine(0) \o Jump(1) \o LabelLine(1) \o NL,
      Remark(1) \o LabelLine(0) \o Move \o LabelLine(1) \o Jump(0),
      LabelLine(0) \o Remark(1) \o Sum \o Jump(1) }

Spare == {It(k) : k \in Kinds \ {"LBL", "REG", "COMMENT"}}
             \union {Num("LBL", 0), Num("LBL", 1), Num("LBL", 2), Num("REG", 3)}
             \union {Num("COMMENT", 0), Num("COMMENT", 1)}

(* Numbers around the limits of an int: the largest, one that becomes       *)
(* negative, two that become 1 and 0 unseen, and one that would become 0 if *)
(* its first digits had not been noticed.                                   *)
Limits == {INT_MAX, INT_MAX + 1, 2 * INT_MAX + 3, 20 * (INT_MAX + 1), 10 * (INT_MAX + 1)}
Renumbered(t, k) ==
    IF HasNumber(t[k]) THEN {[t EXCEPT ![k].val = num] : num \in Limits} ELSE {}

Without(t, k) == SubSeq(t, 1, k - 1) \o SubSeq(t, k + 1, Len(t))
Before(t, k, item) == SubSeq(t, 1, k - 1) \o <<item>> \o SubSeq(t, k, Len(t))
Edited(t) ==
    {t} \union UNION {
        {Without(t, k), Before(t, k, t[k])}
            \union {[t EXCEPT ![k] = item] : item \in Spare}
            \union Renumbered(t, k)
            \union {Before(t, k, item) : item \in Spare} : k \in 1 .. Len(t)}

Counted(t) == count_bbs(t, After(t, 1)) = NBlocks
MCTexts == {t \in UNION {Edited(s) : s \in Sources} : Counted(t)}
=============================================================================
