---------------------------- MODULE MCSharedFile ----------------------------
(***************************************************************************)
(* SharedFile on small instances.  Paragraph 1 is most of the file, so that *)
(* losing it is a sharp shrink; paragraph 2 is small.                       *)
(***************************************************************************)
EXTENDS SharedFile, TLC

CONSTANTS a, b

MCBytes == [p \in Paras |-> IF p = 1 THEN 300 ELSE 10]
MCStart == {1}

\* One editor under every fault; two in one room; one in the room beside one
\* that never reached it.
MCBudgets == {
    [open |-> {a}, reaching |-> {a}, unreached |-> {a},
     edits |-> 2, outside |-> 1, fails |-> 1, drops |-> 1],
    [open |-> {a, b}, reaching |-> {a, b}, unreached |-> {},
     edits |-> 2, outside |-> 0, fails |-> 0, drops |-> 1],
    [open |-> {a, b}, reaching |-> {a}, unreached |-> {b},
     edits |-> 1, outside |-> 1, fails |-> 0, drops |-> 0] }

OneSolo == {[open |-> {a}, reaching |-> {}, unreached |-> {a},
             edits |-> 2, outside |-> 1, fails |-> 0, drops |-> 0]}
OneInRoom == {[open |-> {a}, reaching |-> {a}, unreached |-> {},
               edits |-> 2, outside |-> 0, fails |-> 0, drops |-> 1]}
=============================================================================
