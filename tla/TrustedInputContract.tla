------------------------ MODULE TrustedInputContract ------------------------
(***************************************************************************)
(* What a trusted input is: the device's word that it hashed a transaction *)
(* itself, from its first byte on, and that one output of that transaction *)
(* pays the amount stated.  How the transaction arrived does not matter.   *)
(***************************************************************************)
EXTENDS Integers, Sequences, SequencesExt

CONSTANTS
  Pays(_, _, _)   \* Pays(content, i, amount): output i of the content pays it

VARIABLES
  content,        \* what was hashed of the transaction now being read
  issued          \* the trusted inputs given out

vars == <<content, issued>>

Init == content = <<>> /\ issued = {}

Absorb == /\ IsPrefix(content, content')
          /\ UNCHANGED issued

\* A new transaction, an error, a reset.
Forget == /\ content' = <<>>
          /\ UNCHANGED issued

Issue == /\ content' = <<>>
         /\ \E new \in issued' :
              /\ issued' = issued \cup {new}
              /\ new.content = content
              /\ Pays(content, new.index, new.amount)

Next == Absorb \/ Forget \/ Issue

Spec == Init /\ [][Next]_vars
=============================================================================
