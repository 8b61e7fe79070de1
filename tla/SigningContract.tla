-------------------------- MODULE SigningContract --------------------------
(***************************************************************************)
(* What the transaction-signing part of the application promises to its    *)
(* owner, stated without any of its machinery: a signature is only ever    *)
(* made over a content that the owner's last approval authorized.          *)
(*                                                                         *)
(* A host offers contents for approval, and the last offer stands until it *)
(* is replaced or withdrawn: a refusal does not withdraw it.  An approval  *)
(* authorizes the content the owner saw and, if that was not offered, the  *)
(* offer that stands beside it; approving what was offered authorizes that *)
(* alone.  Anything may cancel an approval, nothing but an approval makes  *)
(* one, and while it stands nothing is added to it.                        *)
(***************************************************************************)

CONSTANT Content        \* everything a signature can be made over

VARIABLES offered,      \* the content the next approval extends to, if any
          authorized,   \* the contents that may be signed now
          signed        \* the contents signed so far

vars == <<offered, authorized, signed>>

Init == offered = {} /\ authorized = {} /\ signed = {}

\* A host offers a content while nothing is authorized.
Offer == /\ authorized = {}
         /\ \E c \in offered' : c \in Content /\ offered' = {c}
         /\ UNCHANGED <<authorized, signed>>

\* The owner approves a content, while nothing is authorized.
Approve == /\ authorized = {}
           /\ \E c \in authorized' : c \in Content /\ authorized' = {c} \cup offered
           /\ UNCHANGED <<offered, signed>>

\* A rejection, a new session, a reset, another command of the application.
Revoke == /\ authorized' \in SUBSET authorized
          /\ offered' \in SUBSET offered
          /\ UNCHANGED signed

\* One input of an authorized content is signed; the approval stays good for
\* the other inputs of the same content, or is used up.
Sign == /\ \E c \in authorized : signed' = signed \cup {c}
        /\ authorized' \in SUBSET authorized
        /\ UNCHANGED offered

Next == Offer \/ Approve \/ Revoke \/ Sign

Spec == Init /\ [][Next]_vars

-----------------------------------------------------------------------------

TypeOK == /\ offered \in SUBSET Content
          /\ authorized \in SUBSET Content
          /\ signed \in SUBSET Content
=============================================================================
