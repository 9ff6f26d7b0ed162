------------------------------ MODULE MCReader ------------------------------
(***************************************************************************)
(* The debug reader: main.c with the board at the other end, hid.c as a    *)
(* client may call it, and the parser of hid.c.  main.c uses little of     *)
(* hid.c, so that each of the three is explored on its own: one takes      *)
(* steps while the other two are as in a new process.                      *)
(***************************************************************************)
EXTENDS Reader, Hid, HidParser

\* Usage pages and usages of one, two and four bytes and of the value 0, items
\* of every other length, and a long item.
ShortAndLongItems ==
  {<<5, 0>>, <<5, 1>>, <<6, 171, 255>>, <<9, 2>>, <<10, 0, 2>>, <<192>>,
   <<39, 255, 0, 1, 2>>, <<11, 3, 0, 0, 0>>, <<254, 1, 7, 9>>}

Init == ReaderInit /\ HidInit /\ ParserInit

Next ==
  \/ HidInit /\ ParserInit /\ ReaderNext /\ UNCHANGED <<hidVars, parserVars>>
  \/ ReaderInit /\ ParserInit /\ HidNext /\ UNCHANGED <<vars, parserVars>>
  \/ ReaderInit /\ HidInit /\ ParserNext /\ UNCHANGED <<vars, hidVars>>

Spec == Init /\ [][Next]_<<vars, hidVars, parserVars>>
=============================================================================
