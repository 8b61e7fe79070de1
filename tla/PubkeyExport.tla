---------------------------- MODULE PubkeyExport ----------------------------
(***************************************************************************)
(* GET_WALLET_PUBLIC_KEY: the reply is put together in the APDU buffer     *)
(* first, and then, as P1, the transport and the restriction setting ask,  *)
(* it leaves at once or waits there for the owner's answer to a screen.    *)
(* A host on the U2F transport may name a token: approved once, it is to   *)
(* stand for the approval of the requests that follow.                     *)
(*                                                                         *)
(* The command runs in the life of the application that Lifecycle models:  *)
(* it reads the setting the setup and the menu write, is served while no   *)
(* exception has halted the device, and loses its screen and its token to  *)
(* a reset, an exit or a power cut.                                        *)
(*                                                                         *)
(* Errors of parameters, of the PIN or of the derivation change nothing and*)
(* are stutters.                                                           *)
(***************************************************************************)
EXTENDS Lifecycle

CONSTANTS
  Paths,         \* BIP 32 paths a host may name
  UnusualPaths,  \* those bip44_derivation_guard warns of
  Tokens,        \* tokens a host may name
  None           \* no token, no reply

PubkeyAssumption == UnusualPaths \subseteq Paths /\ None \notin Paths /\ None \notin Tokens

ASSUME PubkeyAssumption

VARIABLES
  last_token,                \* btchip_context_D.last_token, None after a reset
  has_valid_token,           \* btchip_context_D.has_valid_token
  request,                   \* the request whose reply is in G_io_apdu_buffer
  screen,                    \* the screen waiting for an answer
  accepted,                  \* history: screens the owner accepted for this request
  approvedToken,             \* history: the last token approved, and not refused since
  sent                       \* history: the last reply with a key

token == <<last_token, has_valid_token>>
exportVars == <<token, request, screen, accepted, approvedToken, sent>>
deviceVars == <<vars, exportVars>>

\* What a host asks for; the restriction is the setting when it was asked.
\* The token is sent, and read, only by requests that DisplayRequestToken.
Requests ==
  [ p1 : {"NO_DISPLAY", "DISPLAY", "REQUEST_TOKEN"},
    u2f : BOOLEAN, path : Paths, token : Tokens, restricted : BOOLEAN ]

ScreenKinds == {"none", "warning", "address", "token", "export"}

\* A reply with a key: what it answers, what was accepted for it, the token that
\* was approved at that moment, and the restriction the owner wanted then.
Replies ==
  [ request : Requests, accepted : SUBSET ScreenKinds, approvedToken : Tokens \cup {None},
    wanted : BOOLEAN ]

ExportTypeOK ==
  /\ last_token \in Tokens \cup {None} /\ has_valid_token \in BOOLEAN
  /\ request \in Requests \cup {None}
  /\ screen \in ScreenKinds
  /\ accepted \subseteq ScreenKinds
  /\ approvedToken \in Tokens \cup {None}
  /\ sent \in Replies \cup {None}

DeviceInit ==
  /\ Init
  /\ last_token = None /\ has_valid_token = FALSE
  /\ request = None /\ screen = "none"
  /\ accepted = {} /\ approvedToken = None /\ sent = None

-----------------------------------------------------------------------------
\* A screen of the command is up, or the application waits for the next one.
Listening == screen = "none"
Serves == phase = "serving" /\ Dispatched /\ Listening

Display(r) == r.p1 = "DISPLAY"
DisplayRequestToken(r) == r.restricted /\ r.p1 = "REQUEST_TOKEN" /\ r.u2f
RequireUserApproval(r) == r.restricted /\ ~(DisplayRequestToken(r) \/ Display(r)) /\ r.u2f

\* Mutant: a token asked about before passes, whatever the answer was.
KnownTokenAsked(t) == t = last_token

\* The token was approved in a previous call.
KnownToken(t) == has_valid_token /\ t = last_token

AsksToken(r) == DisplayRequestToken(r) /\ ~KnownToken(r.token)

\* ui_display_public_key: an unusual path is warned of before its address.
FirstAddressScreen(path) == IF path \in UnusualPaths THEN "warning" ELSE "address"

\* The screen the request raises, or none.
ScreenFor(r) ==
  CASE Display(r) -> FirstAddressScreen(r.path)
    [] AsksToken(r) -> "token"
    [] RequireUserApproval(r) -> "export"
    [] OTHER -> "none"

Send(r, screens) ==
  /\ sent' = [request |-> r, accepted |-> screens, approvedToken |-> approvedToken',
              wanted |-> wantRestriction]
  /\ request' = None /\ accepted' = {}

GetWalletPublicKey(r) ==
  /\ Serves
  /\ r.restricted = pubKeyRequestRestriction
  /\ screen' = ScreenFor(r)
  /\ IF AsksToken(r) THEN has_valid_token' = FALSE /\ last_token' = r.token
                     ELSE UNCHANGED token
  /\ UNCHANGED approvedToken
  /\ IF ScreenFor(r) = "none" THEN Send(r, {})
                              ELSE request' = r /\ accepted' = {} /\ UNCHANGED sent
  /\ UNCHANGED vars

\* Mutant: going on from the warning already sends the key.
WarningAnswers(kind) == kind # "none"

\* The screens whose approval sends the reply.
Answers(kind) == kind \in {"address", "token", "export"}

\* The owner goes on from the warning to the address.
AcceptWarning ==
  /\ screen = "warning"
  /\ screen' = "address"
  /\ accepted' = accepted \cup {screen}
  /\ UNCHANGED <<vars, token, request, approvedToken, sent>>

\* btchip_bagl_user_action_display(1).  The approval of a token is not noted:
\* its screen is wired to the same callback as the others.
Approve ==
  /\ Answers(screen)
  /\ screen' = "none"
  /\ approvedToken' = IF screen = "token" THEN last_token ELSE approvedToken
  /\ Send(request, accepted \cup {screen})
  /\ UNCHANGED <<vars, token>>

\* btchip_bagl_user_action_display(0)
Reject ==
  /\ screen # "none"
  /\ screen' = "none"
  /\ approvedToken' = IF screen = "token" THEN None ELSE approvedToken
  /\ request' = None /\ accepted' = {}
  /\ UNCHANGED <<vars, token, sent>>

\* RAM after btchip_context_init, or after the power was gone.
Wiped ==
  /\ last_token' = None /\ has_valid_token' = FALSE
  /\ request' = None /\ screen' = "none" /\ accepted' = {}
  /\ approvedToken' = None
  /\ UNCHANGED sent

\* Nothing of the command is there before commands are served.
Starting == (Launch \/ AutoSetup \/ WriteRestriction \/ WriteInitialized) /\ UNCHANGED exportVars

\* Another command, or the main menu: never under a screen of this one.
Meanwhile ==
  /\ Listening
  /\ IssueTrustedInput \/ CommandThrows \/ ChangeBlindSigning \/ ChangeRestriction
  /\ UNCHANGED exportVars

\* What ends the session, at any moment.
Interrupted == (IoReset \/ Exit \/ PowerCut) /\ Wiped

Uninterrupted ==
  \/ Starting \/ Meanwhile
  \/ \E r \in Requests : GetWalletPublicKey(r)
  \/ AcceptWarning \/ Approve \/ Reject

DeviceNext == Uninterrupted \/ Interrupted

DeviceSpec == DeviceInit /\ [][DeviceNext]_deviceVars

-----------------------------------------------------------------------------
\* Properties.

\* While the owner wants the restriction, whatever cuts and resets the setting
\* went through, no key leaves over U2F without the owner, who accepted a screen
\* raised for this very request, or approved its token earlier in the same
\* session and did not refuse it since.
RestrictedKeysApproved ==
  sent # None /\ sent.wanted /\ sent.request.u2f =>
    \/ sent.accepted \cap {"address", "token", "export"} # {}
    \/ sent.request.p1 = "REQUEST_TOKEN" /\ sent.approvedToken = sent.request.token

\* A key that was asked for with its display leaves only after the owner
\* accepted the address, and before it the warning if the path is unusual.
DisplayedKeysSeen ==
  sent # None /\ sent.request.p1 = "DISPLAY" =>
    /\ "address" \in sent.accepted
    /\ sent.request.path \in UnusualPaths => "warning" \in sent.accepted

\* "The last token approved by the user is saved, re-using it in following calls
\* makes it possible to avoid requesting more validation in a row to the user"
\* (doc/btc.asc:25): the owner is not asked again about that token.
TokenAskedOnce == screen = "token" => request.token # approvedToken
=============================================================================
