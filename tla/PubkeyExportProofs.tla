------------------------- MODULE PubkeyExportProofs -------------------------
(***************************************************************************)
(* Proofs about Lifecycle, for every set of keys and wherever the power is *)
(* cut, and about PubkeyExport, for every set of paths, tokens and keys.   *)
(* The second take over what the first say of the settings: the device     *)
(* implements Lifecycle.                                                   *)
(***************************************************************************)
EXTENDS PubkeyExport, TLAPS

-----------------------------------------------------------------------------
\* Lifecycle.

\* The flag vouches for a complete configuration, and no write of the setup
\* happens once it is set.
ConfigInv ==
  /\ config_valid => configured /\ trustedinput_key \in Keys
  /\ phase \in SetupPhases => ~config_valid
  /\ phase \in {"key", "valid"} => configured
  /\ phase = "valid" => trustedinput_key \in Keys
  /\ phase \in StoragePhases => config_valid /\ ~storageInitialized
  /\ phase = "serving" => config_valid /\ storageInitialized

\* The settings are the owner's; until they can be chosen, the cautious ones.
SettingsInv ==
  /\ ~config_valid => ~wantBlind
  /\ config_valid \/ phase \in {"key", "valid"} => blindSigning = wantBlind
  /\ ~storageInitialized => wantRestriction
  /\ storageInitialized \/ phase = "initialized" => pubKeyRequestRestriction = wantRestriction

\* Before the first configuration nothing was issued.
IssuedInv == TrustedInputsStayGood /\ (~config_valid => issued = {})

LifeInv == TypeOK /\ ConfigInv /\ SettingsInv /\ IssuedInv

-----------------------------------------------------------------------------
\* Starting does what is missing, and only that.
LEMMA StartKeeps ==
  ASSUME LifeInv, Launch \/ IoReset
  PROVE  LifeInv'
  <1>1. ContextInit /\ UNCHANGED <<nvm, history>>
    BY DEF Launch, IoReset
  <1>2. QED
    BY <1>1 DEF ContextInit, NeedsSetup, AfterConfig, nvm, config, storage, history,
                LifeInv, TypeOK, ConfigInv, SettingsInv, IssuedInv, TrustedInputsStayGood,
                SetupPhases, StoragePhases

\* The three writes of autosetup.
LEMMA AutoSetupKeeps ==
  ASSUME LifeInv, AutoSetup
  PROVE  LifeInv'
  <1>1. CASE WriteConfig
    BY <1>1 DEF WriteConfig, Following, storage, history, LifeInv, TypeOK, ConfigInv,
                SettingsInv, IssuedInv, TrustedInputsStayGood, SetupPhases, StoragePhases
  <1>2. CASE WriteKey
    BY <1>2 DEF WriteKey, Following, storage, history, LifeInv, TypeOK, ConfigInv,
                SettingsInv, IssuedInv, TrustedInputsStayGood, SetupPhases, StoragePhases
  <1>3. CASE WriteValid
    BY <1>3 DEF WriteValid, Following, AfterConfig, storage, history, LifeInv, TypeOK,
                ConfigInv, SettingsInv, IssuedInv, TrustedInputsStayGood, SetupPhases,
                StoragePhases
  <1>4. QED
    BY <1>1, <1>2, <1>3 DEF AutoSetup

\* The two writes of the export setting.
LEMMA StorageKeeps ==
  ASSUME LifeInv, WriteRestriction \/ WriteInitialized
  PROVE  LifeInv'
  <1>1. CASE WriteRestriction
    <2>1. wantRestriction = TRUE
      BY <1>1 DEF WriteRestriction, LifeInv, TypeOK, ConfigInv, SettingsInv, StoragePhases
    <2>2. QED
      BY <1>1, <2>1 DEF WriteRestriction, config, history, LifeInv, TypeOK, ConfigInv,
                        SettingsInv, IssuedInv, TrustedInputsStayGood, SetupPhases, StoragePhases
  <1>2. CASE WriteInitialized
    BY <1>2 DEF WriteInitialized, config, history, LifeInv, TypeOK, ConfigInv, SettingsInv,
                IssuedInv, TrustedInputsStayGood, SetupPhases, StoragePhases
  <1>3. QED
    BY <1>1, <1>2

\* What happens while commands are served, and the end of it.
LEMMA ServingKeeps ==
  ASSUME LifeInv,
         \/ IssueTrustedInput \/ CommandThrows \/ Exit
         \/ ChangeBlindSigning \/ ChangeRestriction
  PROVE  LifeInv'
  <1>1. CASE IssueTrustedInput
    BY <1>1 DEF IssueTrustedInput, nvm, config, storage, LifeInv, TypeOK, ConfigInv,
                SettingsInv, IssuedInv, TrustedInputsStayGood, SetupPhases, StoragePhases
  <1>2. CASE CommandThrows \/ Exit
    BY <1>2 DEF CommandThrows, Exit, nvm, config, storage, history, LifeInv, TypeOK,
                ConfigInv, SettingsInv, IssuedInv, TrustedInputsStayGood, SetupPhases,
                StoragePhases
  <1>3. CASE ChangeBlindSigning
    BY <1>3 DEF ChangeBlindSigning, storage, LifeInv, TypeOK, ConfigInv, SettingsInv,
                IssuedInv, TrustedInputsStayGood, SetupPhases, StoragePhases
  <1>4. CASE ChangeRestriction
    BY <1>4 DEF ChangeRestriction, config, LifeInv, TypeOK, ConfigInv, SettingsInv,
                IssuedInv, TrustedInputsStayGood, SetupPhases, StoragePhases
  <1>5. QED
    BY <1>1, <1>2, <1>3, <1>4

\* A cut may tear the key only while it is written, before it is in use.
LEMMA PowerCutKeeps ==
  ASSUME LifeInv, PowerCut
  PROVE  LifeInv'
  BY DEF PowerCut, storage, history, LifeInv, TypeOK, ConfigInv, SettingsInv, IssuedInv,
         TrustedInputsStayGood, SetupPhases, StoragePhases

\* The inductive invariant holds in every reachable state.
THEOREM LifeInvariance == Spec => []LifeInv
  <1>1. Init => LifeInv
    BY DEF Init, LifeInv, TypeOK, ConfigInv, SettingsInv, IssuedInv, TrustedInputsStayGood,
           SetupPhases, StoragePhases
  <1>2. LifeInv /\ [Next]_vars => LifeInv'
    <2> SUFFICES ASSUME LifeInv, [Next]_vars
                 PROVE  LifeInv'
      OBVIOUS
    <2>1. CASE UNCHANGED vars
      BY <2>1 DEF vars, nvm, config, storage, history, LifeInv, TypeOK, ConfigInv,
                  SettingsInv, IssuedInv, TrustedInputsStayGood
    <2>2. QED
      BY <2>1, StartKeeps, AutoSetupKeeps, StorageKeeps, ServingKeeps, PowerCutKeeps DEF Next
  <1>3. QED
    BY <1>1, <1>2, PTL DEF Spec

\* A device that serves commands is configured completely.
THEOREM ConfiguredWhenServing == Spec => []ServingIsConfigured
  <1>1. LifeInv => ServingIsConfigured
    BY DEF LifeInv, ConfigInv, ServingIsConfigured
  <1>2. QED
    BY <1>1, LifeInvariance, PTL

\* No cut, reset or halt brings back a setting the owner replaced.
THEOREM SettingsAreTheOwners == Spec => []OwnerSettingsKept
  <1>1. LifeInv => OwnerSettingsKept
    BY DEF LifeInv, ConfigInv, SettingsInv, OwnerSettingsKept
  <1>2. QED
    BY <1>1, LifeInvariance, PTL

\* The key of trusted inputs is never replaced once it was used.
THEOREM IssuedStaysGood == Spec => []TrustedInputsStayGood
  <1>1. LifeInv => TrustedInputsStayGood
    BY DEF LifeInv, IssuedInv
  <1>2. QED
    BY <1>1, LifeInvariance, PTL

-----------------------------------------------------------------------------
\* Whatever the export of keys adds to it, the application lives as Lifecycle
\* says, so that the theorems about Lifecycle hold of the device.
THEOREM DeviceImplementsLifecycle == DeviceSpec => Spec
  <1>1. DeviceInit => Init
    BY DEF DeviceInit
  <1>2. [DeviceNext]_deviceVars => [Next]_vars
    <2> SUFFICES ASSUME [DeviceNext]_deviceVars
                 PROVE  [Next]_vars
      OBVIOUS
    <2>1. CASE Starting \/ Meanwhile \/ Interrupted
      BY <2>1 DEF Starting, Meanwhile, Interrupted, Next
    <2>2. CASE \E r \in Requests : GetWalletPublicKey(r)
      BY <2>2 DEF GetWalletPublicKey
    <2>3. CASE AcceptWarning \/ Approve \/ Reject
      BY <2>3 DEF AcceptWarning, Approve, Reject
    <2>4. CASE UNCHANGED deviceVars
      BY <2>4 DEF deviceVars
    <2>5. QED
      BY <2>1, <2>2, <2>3, <2>4 DEF DeviceNext, Uninterrupted
  <1>3. QED
    BY <1>1, <1>2, PTL DEF DeviceSpec, Spec

-----------------------------------------------------------------------------

\* What is on the screen belongs to the request that waits, and was raised
\* for a reason: the address screen of an unusual path comes after its warning.
ScreenInv ==
  /\ screen = "none" => accepted = {}
  /\ screen # "none" => request \in Requests
  /\ screen \in {"token", "export"} => ~Display(request)
  /\ screen = "address" /\ request.path \in UnusualPaths => "warning" \in accepted
  /\ screen = "token" => ~has_valid_token
  /\ screen # "none" => request.restricted = wantRestriction

\* A token counts as known only if the owner approved it.
TokenInv == has_valid_token => approvedToken = last_token

ExportInv == ExportTypeOK /\ ScreenInv /\ TokenInv /\ RestrictedKeysApproved /\ DisplayedKeysSeen

-----------------------------------------------------------------------------
\* What a request raises, and when it raises nothing.
LEMMA ScreenForProperties ==
  ASSUME NEW r \in Requests
  PROVE  /\ ScreenFor(r) \in ScreenKinds
         /\ Display(r) => ScreenFor(r) = FirstAddressScreen(r.path)
         /\ ScreenFor(r) \in {"token", "export"} => ~Display(r)
         /\ ScreenFor(r) = "none" => ~Display(r) /\ ~AsksToken(r) /\ ~RequireUserApproval(r)
         /\ ScreenFor(r) = "address" => r.path \notin UnusualPaths
         /\ ScreenFor(r) = "token" => AsksToken(r)
  BY DEF ScreenFor, ScreenKinds, FirstAddressScreen, Display, AsksToken, DisplayRequestToken,
         RequireUserApproval, Requests

\* The handler: a key leaves at once only if nothing had to be asked.
LEMMA GetWalletPublicKeyKeeps ==
  ASSUME LifeInv, ExportInv, NEW r \in Requests, GetWalletPublicKey(r)
  PROVE  ExportInv'
  <1>1. /\ screen = "none" /\ screen' = ScreenFor(r) /\ approvedToken' = approvedToken
        /\ accepted' = {} /\ wantRestriction' = wantRestriction
    BY DEF GetWalletPublicKey, Serves, Listening, Send, vars, history
  <1>2. r.token \in Tokens /\ r.path \in Paths
    BY DEF Requests
  <1>3. last_token' \in Tokens \cup {None} /\ has_valid_token' \in BOOLEAN /\ TokenInv'
    BY <1>1, <1>2 DEF GetWalletPublicKey, ExportInv, ExportTypeOK, TokenInv, token
  <1>4. r.restricted = wantRestriction /\ wantRestriction \in BOOLEAN
    BY DEF GetWalletPublicKey, Serves, LifeInv, TypeOK, ConfigInv, SettingsInv
  <1>5. CASE ScreenFor(r) = "none"
    <2>1. /\ sent' = [request |-> r, accepted |-> {}, approvedToken |-> approvedToken,
                      wanted |-> wantRestriction]
          /\ request' = None
      BY <1>1, <1>5 DEF GetWalletPublicKey, Send
    <2>2. sent' \in Replies
      BY <1>4, <2>1 DEF ExportInv, ExportTypeOK, Replies
    <2>3. ~Display(r) /\ ~AsksToken(r) /\ ~RequireUserApproval(r)
      BY <1>5, ScreenForProperties
    <2>4. r.restricted /\ r.u2f => r.p1 = "REQUEST_TOKEN" /\ approvedToken = r.token
      BY <2>3 DEF Display, AsksToken, RequireUserApproval, DisplayRequestToken, KnownToken,
                  ExportInv, TokenInv
    <2>5. r.p1 # "DISPLAY"
      BY <2>3 DEF Display
    <2>6. ExportTypeOK'
      BY <1>1, <1>3, <2>1, <2>2, ScreenForProperties DEF ExportInv, ExportTypeOK
    <2>7. ScreenInv'
      BY <1>1, <1>5 DEF ScreenInv
    <2>8. RestrictedKeysApproved' /\ DisplayedKeysSeen'
      BY <1>4, <2>1, <2>4, <2>5 DEF RestrictedKeysApproved, DisplayedKeysSeen
    <2>9. QED
      BY <1>3, <2>6, <2>7, <2>8 DEF ExportInv
  <1>6. CASE ScreenFor(r) # "none"
    <2>1. request' = r /\ sent' = sent
      BY <1>6 DEF GetWalletPublicKey
    <2>2. ExportTypeOK'
      BY <1>1, <1>3, <2>1, ScreenForProperties DEF ExportInv, ExportTypeOK
    <2>3. ScreenInv'
      <3>1. ScreenFor(r) = "token" => ~has_valid_token'
        BY ScreenForProperties DEF GetWalletPublicKey
      <3>2. QED
        BY <1>1, <1>4, <1>6, <2>1, <3>1, ScreenForProperties DEF ScreenInv, Display
    <2>4. RestrictedKeysApproved' /\ DisplayedKeysSeen'
      BY <2>1 DEF ExportInv, RestrictedKeysApproved, DisplayedKeysSeen
    <2>5. QED
      BY <1>3, <2>2, <2>3, <2>4 DEF ExportInv
  <1>7. QED
    BY <1>5, <1>6

\* Going on from the warning is what the address screen relies on.
LEMMA AcceptWarningKeeps ==
  ASSUME ExportInv, AcceptWarning
  PROVE  ExportInv'
  BY DEF AcceptWarning, ExportInv, ExportTypeOK, ScreenInv, TokenInv, RestrictedKeysApproved,
         DisplayedKeysSeen, ScreenKinds, token, vars, history

\* A key leaves with the approval of the screen that was up.
LEMMA ApproveKeeps ==
  ASSUME LifeInv, ExportInv, Approve
  PROVE  ExportInv'
  <1>1. /\ screen \in {"address", "token", "export"} /\ screen' = "none"
        /\ approvedToken' = IF screen = "token" THEN last_token ELSE approvedToken
        /\ sent' = [request |-> request, accepted |-> accepted \cup {screen},
                    approvedToken |-> approvedToken', wanted |-> wantRestriction]
        /\ request' = None /\ accepted' = {} /\ wantRestriction \in BOOLEAN
        /\ last_token' = last_token /\ has_valid_token' = has_valid_token
    BY DEF Approve, Answers, Send, token, LifeInv, TypeOK
  <1>2. /\ request \in Requests
        /\ screen \in {"token", "export"} => ~Display(request)
        /\ screen = "address" /\ request.path \in UnusualPaths => "warning" \in accepted
    BY <1>1 DEF ExportInv, ScreenInv
  <1>3. approvedToken' \in Tokens \cup {None} /\ TokenInv'
    BY <1>1 DEF ExportInv, ExportTypeOK, TokenInv
  <1>4. accepted \cup {screen} \subseteq ScreenKinds
    BY DEF ExportInv, ExportTypeOK
  <1>5. sent' \in Replies
    BY <1>1, <1>2, <1>3, <1>4 DEF Replies
  <1>6. ExportTypeOK'
    BY <1>1, <1>3, <1>5 DEF ExportInv, ExportTypeOK, ScreenKinds
  <1>7. RestrictedKeysApproved' /\ DisplayedKeysSeen'
    BY <1>1, <1>2 DEF RestrictedKeysApproved, DisplayedKeysSeen, Display
  <1>8. QED
    BY <1>1, <1>3, <1>6, <1>7 DEF ExportInv, ScreenInv

\* A refusal, an end of the session and the rest of its life send nothing.
LEMMA OthersKeep ==
  ASSUME ExportInv, Reject \/ Starting \/ Meanwhile \/ Interrupted \/ UNCHANGED deviceVars
  PROVE  ExportInv'
  <1>1. CASE Reject
    BY <1>1 DEF Reject, ExportInv, ExportTypeOK, ScreenInv, TokenInv, RestrictedKeysApproved,
                DisplayedKeysSeen, ScreenKinds, token
  <1>2. CASE Starting
    <2>1. UNCHANGED exportVars /\ wantRestriction' = wantRestriction
      BY <1>2 DEF Starting, Launch, AutoSetup, WriteConfig, WriteKey, WriteValid,
                  WriteRestriction, WriteInitialized, history
    <2>2. QED
      BY <2>1 DEF exportVars, token, ExportInv, ExportTypeOK, ScreenInv, TokenInv,
                  RestrictedKeysApproved, DisplayedKeysSeen, Display
  <1>3. CASE Meanwhile
    BY <1>3 DEF Meanwhile, Listening, exportVars, token, ExportInv, ExportTypeOK, ScreenInv,
                TokenInv, RestrictedKeysApproved, DisplayedKeysSeen
  <1>4. CASE Interrupted
    BY <1>4 DEF Interrupted, Wiped, ExportInv, ExportTypeOK, ScreenInv, TokenInv,
                RestrictedKeysApproved, DisplayedKeysSeen, ScreenKinds
  <1>5. CASE UNCHANGED deviceVars
    BY <1>5 DEF deviceVars, vars, history, exportVars, token, ExportInv, ExportTypeOK,
                ScreenInv, TokenInv, RestrictedKeysApproved, DisplayedKeysSeen, Display
  <1>6. QED
    BY <1>1, <1>2, <1>3, <1>4, <1>5

\* The inductive invariant holds in every reachable state.
THEOREM ExportInvariance == DeviceSpec => []ExportInv
  <1>1. DeviceInit => ExportInv
    BY DEF DeviceInit, ExportInv, ExportTypeOK, ScreenInv, TokenInv, RestrictedKeysApproved,
           DisplayedKeysSeen, ScreenKinds
  <1>2. LifeInv /\ ExportInv /\ [DeviceNext]_deviceVars => ExportInv'
    BY GetWalletPublicKeyKeeps, AcceptWarningKeeps, ApproveKeeps, OthersKeep
    DEF DeviceNext, Uninterrupted
  <1>3. DeviceSpec => []LifeInv
    BY DeviceImplementsLifecycle, LifeInvariance, PTL
  <1>4. QED
    BY <1>1, <1>2, <1>3, PTL DEF DeviceSpec

\* While the owner wants the restriction no key leaves over U2F without his
\* approval, whatever requests, tokens, refusals, resets and cuts came before.
THEOREM NoKeyWithoutApproval == DeviceSpec => []RestrictedKeysApproved
  <1>1. ExportInv => RestrictedKeysApproved
    BY DEF ExportInv
  <1>2. QED
    BY <1>1, ExportInvariance, PTL

\* A displayed key was seen, and an unusual path warned of, before it leaves.
THEOREM DisplayedIsSeen == DeviceSpec => []DisplayedKeysSeen
  <1>1. ExportInv => DisplayedKeysSeen
    BY DEF ExportInv
  <1>2. QED
    BY <1>1, ExportInvariance, PTL
=============================================================================
