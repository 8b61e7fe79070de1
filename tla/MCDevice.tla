------------------------------ MODULE MCDevice ------------------------------
(***************************************************************************)
(* MessageSigning, and with it PubkeyExport and Lifecycle.  A behaviour    *)
(* serves the export of keys or the signing of messages: all they share is *)
(* the settings, the loop and the one screen.                              *)
(*                                                                         *)
(* Keys: a usual and an unusual path, and two tokens so that one may follow*)
(* the other; three keys cx_rng may draw: that of a setup cut short, that  *)
(* of the setup done again, and one that would replace a key in use.       *)
(*                                                                         *)
(* Messages: of one to three bytes in blocks of up to two, with room for   *)
(* two bytes in messageBuffer, so that a message of three is never shown   *)
(* in full.  The blocks of two bytes differ in their order and in where the*)
(* byte that cannot be shown stands.  The setup draws one key, and neither *)
(* trusted inputs are issued nor the export setting changed.               *)
(***************************************************************************)
EXTENDS MessageSigning

CONSTANTS t1, t2, k1, k2, k3

Letters == {"a", "b"}
AllBytes == Letters \cup {"ctl"}
SmallLengths == 0..3
SmallChunks == {<<>>, <<"a">>, <<"ctl">>, <<"a", "b">>, <<"ctl", "b">>}

\* What a behaviour serves.
VARIABLE served

Kept ==
  CASE served = "keys" -> UNCHANGED messageVars
    [] served = "messages" ->
         /\ UNCHANGED <<exportVars, wantRestriction, issued>>
         /\ trustedinput_key' \in {Erased, Torn, k1}

MCInit == MessageInit /\ served \in {"keys", "messages"}
MCNext == UNCHANGED served /\ MessageNext /\ Kept
MCSpec == MCInit /\ [][MCNext]_<<deviceVars, messageVars, served>>
=============================================================================
