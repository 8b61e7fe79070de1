----------------------------- MODULE Lifecycle -----------------------------
(***************************************************************************)
(* The life of the application: the launch, the automatic setup of the     *)
(* persistent memory N_btchip in separate writes, the loop that serves     *)
(* commands, the halt after an exception, the IO reset, and the settings   *)
(* the owner changes from the menu.  The power may fail at any moment.     *)
(*                                                                         *)
(* nvm_write of one byte is done or not done; a write of the 32 bytes of   *)
(* trustedinput_key that the power cuts short leaves neither the old key   *)
(* nor the new one.                                                        *)
(***************************************************************************)

CONSTANTS
  Keys,     \* values cx_rng may draw for trustedinput_key
  Erased,   \* trustedinput_key before the first setup
  Torn      \* trustedinput_key after a write cut short

LifecycleAssumption == Erased \notin Keys /\ Torn \notin Keys

ASSUME LifecycleAssumption

VARIABLES
  configured,        \* N_btchip.bkp.config was written
  blindSigning,      \* BTCHIP_OPTION_BLIND_SIGNING in N_btchip.bkp.config
  trustedinput_key,  \* N_btchip.bkp.trustedinput_key
  config_valid,      \* N_btchip.config_valid
  pubKeyRequestRestriction,
  storageInitialized,
  phase,             \* what the application is doing
  halted,            \* btchip_context_D.halted
  wantBlind,         \* history: the blind-signing setting the owner chose last
  wantRestriction,   \* history: the export setting the owner chose last
  issued             \* history: keys that trusted inputs were issued with

config == <<configured, blindSigning, trustedinput_key, config_valid>>
storage == <<pubKeyRequestRestriction, storageInitialized>>
nvm == <<config, storage>>
history == <<wantBlind, wantRestriction, issued>>
vars == <<nvm, phase, halted, history>>

SetupPhases == {"config", "key", "valid"}
StoragePhases == {"restriction", "initialized"}

TypeOK ==
  /\ configured \in BOOLEAN /\ blindSigning \in BOOLEAN
  /\ trustedinput_key \in Keys \cup {Erased, Torn}
  /\ config_valid \in BOOLEAN
  /\ pubKeyRequestRestriction \in BOOLEAN /\ storageInitialized \in BOOLEAN
  /\ phase \in {"off", "serving"} \cup SetupPhases \cup StoragePhases
  /\ halted \in BOOLEAN
  /\ wantBlind \in BOOLEAN /\ wantRestriction \in BOOLEAN
  /\ issued \subseteq Keys

\* A device on which the application was just installed.  Until the owner
\* chooses, blind signing is off and the export of keys restricted.
Init ==
  /\ configured = FALSE /\ blindSigning = FALSE
  /\ trustedinput_key = Erased /\ config_valid = FALSE
  /\ pubKeyRequestRestriction = FALSE /\ storageInitialized = FALSE
  /\ phase = "off" /\ halted = FALSE
  /\ wantBlind = FALSE /\ wantRestriction = TRUE
  /\ issued = {}

-----------------------------------------------------------------------------
\* btchip_context_init: wipes btchip_context_D, then does what setup is missing.
AfterConfig == IF storageInitialized THEN "serving" ELSE "restriction"

\* Mutant: the setup is done at every start.
AlwaysSetup == TRUE

NeedsSetup == ~config_valid

ContextInit ==
  /\ halted' = FALSE
  /\ phase' = IF NeedsSetup THEN "config" ELSE AfterConfig

Launch ==
  /\ phase = "off"
  /\ ContextInit
  /\ UNCHANGED <<nvm, history>>

\* Mutant: the flag is written before what it vouches for.
ValidFirst(write) == CASE write = "config" -> "valid" [] write = "valid" -> "key"
                       [] write = "key" -> AfterConfig

\* The writes of autosetup, in their order.
Following(write) == CASE write = "config" -> "key" [] write = "key" -> "valid"
                      [] write = "valid" -> AfterConfig

WriteConfig ==
  /\ phase = "config" /\ phase' = Following("config")
  /\ configured' = TRUE /\ blindSigning' = FALSE
  /\ UNCHANGED <<trustedinput_key, config_valid, storage, halted, history>>

WriteKey ==
  /\ phase = "key" /\ phase' = Following("key")
  /\ trustedinput_key' \in Keys
  /\ UNCHANGED <<configured, blindSigning, config_valid, storage, halted, history>>

WriteValid ==
  /\ phase = "valid" /\ phase' = Following("valid")
  /\ config_valid' = TRUE
  /\ UNCHANGED <<configured, blindSigning, trustedinput_key, storage, halted, history>>

\* The two writes of the storage that came with a later version.
WriteRestriction ==
  /\ phase = "restriction" /\ phase' = "initialized"
  /\ pubKeyRequestRestriction' = TRUE
  /\ UNCHANGED <<config, storageInitialized, halted, history>>

WriteInitialized ==
  /\ phase = "initialized" /\ phase' = "serving"
  /\ storageInitialized' = TRUE
  /\ UNCHANGED <<config, pubKeyRequestRestriction, halted, history>>

-----------------------------------------------------------------------------
\* app_dispatch: a halted device answers BTCHIP_SW_HALTED and nothing else.
Dispatched == ~halted

\* GET_TRUSTED_INPUT, the command whose results outlive the session.
IssueTrustedInput ==
  /\ phase = "serving" /\ Dispatched
  /\ issued' = issued \cup {trustedinput_key}
  /\ UNCHANGED <<nvm, phase, halted, wantBlind, wantRestriction>>

\* An exception that no command caught.
CommandThrows ==
  /\ phase = "serving" /\ Dispatched
  /\ halted' = TRUE
  /\ UNCHANGED <<nvm, phase, history>>

\* EXCEPTION_IO_RESET goes through app_dispatch to main, which starts again.
IoReset ==
  /\ phase = "serving"
  /\ ContextInit
  /\ UNCHANGED <<nvm, history>>

\* An exception outside of a command, or the owner's Quit, ends the application.
Exit ==
  /\ phase = "serving"
  /\ phase' = "off"
  /\ UNCHANGED <<nvm, halted, history>>

ChangeBlindSigning ==
  /\ phase = "serving"
  /\ \E enabled \in BOOLEAN : blindSigning' = enabled /\ wantBlind' = enabled
  /\ UNCHANGED <<configured, trustedinput_key, config_valid, storage, phase, halted,
                 wantRestriction, issued>>

ChangeRestriction ==
  /\ phase = "serving"
  /\ \E enabled \in BOOLEAN : pubKeyRequestRestriction' = enabled /\ wantRestriction' = enabled
  /\ UNCHANGED <<config, storageInitialized, phase, halted, wantBlind, issued>>

\* RAM is lost, and with it a write of the key that was under way.
PowerCut ==
  /\ phase # "off"
  /\ phase' = "off"
  /\ trustedinput_key' \in {trustedinput_key} \cup (IF phase = "key" THEN {Torn} ELSE {})
  /\ UNCHANGED <<configured, blindSigning, config_valid, storage, halted, history>>

AutoSetup == WriteConfig \/ WriteKey \/ WriteValid

Next ==
  \/ Launch
  \/ AutoSetup \/ WriteRestriction \/ WriteInitialized
  \/ IssueTrustedInput \/ CommandThrows \/ IoReset \/ Exit
  \/ ChangeBlindSigning \/ ChangeRestriction
  \/ PowerCut

Spec == Init /\ [][Next]_vars

-----------------------------------------------------------------------------
\* Properties.

\* Whatever cuts came before, a device that serves commands has a complete
\* configuration: written options, a whole random key, both flags.
ServingIsConfigured ==
  phase = "serving" =>
    /\ configured /\ config_valid /\ storageInitialized
    /\ trustedinput_key \in Keys

\* While commands are served the settings are those the owner chose last, or
\* the cautious ones when none was chosen: no reset, halt or unfinished setup
\* brings back older ones.
OwnerSettingsKept ==
  phase = "serving" =>
    blindSigning = wantBlind /\ pubKeyRequestRestriction = wantRestriction

\* A trusted input stays good: the key it was issued with is never replaced.
TrustedInputsStayGood == issued \subseteq {trustedinput_key}
=============================================================================
