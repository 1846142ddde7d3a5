---------------------------- MODULE MCDuplicates ----------------------------
(***************************************************************************)
(* A small instance of Duplicates: an email is a name written in lower or  *)
(* in upper case.                                                          *)
(***************************************************************************)
EXTENDS Duplicates, Relation, TLC

CONSTANT Names

MCEmails == Names \X {"lower", "upper"}
MClower(e) == e[1]

\* For every relation on these users, what Connected says without recursion, so
\* that it can be proved about, is the closure of the community modules.
ASSUME ConnectedIsClosure ==
    \A related \in SUBSET (Ids \X Ids) :
        LET closure == ReflexiveTransitiveClosure([p \in Ids \X Ids |-> p \in related], Ids)
        IN  Connected(related) = {p \in Ids \X Ids : closure[p]}

Symmetry == Permutations(IPs) \cup Permutations(Names) \cup Permutations(Phones)
=============================================================================
