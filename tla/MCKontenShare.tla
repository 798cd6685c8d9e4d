---------------------------- MODULE MCKontenShare ----------------------------
(* Instances of KontenShare: which client asks for which language.          *)
EXTENDS KontenShare, TLC

CONSTANTS c1, c2, c3, id, en

\* Two languages and a client that wants the Arabic text.
ThreeLangs == (c1 :> id) @@ (c2 :> en) @@ (c3 :> Arabic)

TwoLangs == (c1 :> id) @@ (c2 :> Arabic)
===============================================================================
