----------------------------- MODULE MobileSignIn -----------------------------
(***************************************************************************)
(* Mobile sign-in: the one-time values of the backend (one-time-store.ts,  *)
(* auth.controller.ts) and the session of the app (apps/mobile: authStore, *)
(* api, secureSession, token, App, SettingsScreen).                        *)
(*                                                                         *)
(* A sign-in is a number; its state, its PKCE challenge, its handoff code  *)
(* and its session token are named by it, 0 being none.  JavaScript runs   *)
(* to the next await in one step, so the app's tasks (the start of the app,*)
(* a sign-in, sign-outs, the switch of the biometric lock, the requests of *)
(* the wallet screens) interleave at their awaits, and the app may be      *)
(* killed at any of them.  The user and the token of the store are set     *)
(* together: `shown' stands for both.                                      *)
(***************************************************************************)
EXTENDS Naturals

CONSTANTS
  MaxSignIns,  \* bound: sign-ins started
  MaxRuns      \* bound: times the app is started

ASSUME BoundsAssumption == MaxSignIns \in Nat /\ MaxRuns \in Nat \ {0}

VARIABLES
  handoff,   \* of each sign-in: what the one-time store holds, and what came of it
  usable,    \* tokens whose expiry is more than a minute away by the app's clock
  accepted,  \* tokens the API accepts
  key, lock, \* the keystore: the token with its protection, and the lock's setting
  runs,      \* times the app was started
  current,   \* the token the API client adds to requests
  shown,     \* the user and token of the store: what the screens show
  boot,      \* initializeAuth: where it is
  signIn,    \* signIn: where it is, for which sign-in, and the protection read
  outs,      \* signOut: the tokens (0: none) of those that await clearSession
  toggle,    \* toggleLock: where it is, with which token, setting and protection
  requests,  \* requests of the screens that await an answer, by their token
  started,   \* sign-ins started
  struck,    \* history: tokens signed out by another's answer while being adopted
  left,      \* history: tokens whose session the app has ended
  kept       \* history: those the keystore got back from the switch of the lock, or
             \* kept because the app was killed before it was cleared

vars == <<handoff, usable, accepted, key, lock, runs, current, shown, boot, signIn,
          outs, toggle, requests, started, struck, left, kept>>

backend  == <<handoff, usable, accepted>>
keystore == <<key, lock>>
ghosts   == <<struck, left, kept>>
session  == <<runs, current, shown, outs>>
app      == <<keystore, session, boot, signIn, toggle, requests, started, ghosts>>

SignIns == 1 .. MaxSignIns
Tokens  == 0 .. MaxSignIns

NoKey    == [token |-> 0, bio |-> FALSE]
NoSignIn == [at |-> "idle", id |-> 0, bio |-> FALSE]
NoToggle == [at |-> "idle", token |-> 0, on |-> FALSE, bio |-> FALSE]

TypeOK ==
  /\ handoff \in [SignIns -> {"none", "state", "callback", "code", "given", "gone"}]
  /\ usable \in SUBSET SignIns /\ accepted \in SUBSET SignIns
  /\ \A s \in SignIns : handoff[s] \in {"none", "state", "callback"} => s \notin accepted
  /\ key \in [token : Tokens, bio : BOOLEAN] /\ lock \in BOOLEAN
  /\ runs \in 1 .. MaxRuns
  /\ current \in Tokens /\ shown \in Tokens
  /\ boot \in {"read", "me", "clear", "done"}
  /\ signIn \in [at : {"idle", "browser", "exchange", "save", "set", "adopt", "me"},
                 id : Tokens, bio : BOOLEAN]
  /\ outs \in SUBSET Tokens
  /\ toggle \in [at : {"idle", "prompt", "save", "set"}, token : Tokens,
                 on : BOOLEAN, bio : BOOLEAN]
  /\ requests \in SUBSET Tokens
  /\ started \in Tokens
  /\ struck \in SUBSET SignIns /\ left \in SUBSET SignIns /\ kept \in SUBSET left

Init ==
  /\ handoff = [s \in SignIns |-> "none"]
  /\ usable = {} /\ accepted = {}
  /\ key = NoKey /\ lock = FALSE
  /\ runs = 1 /\ current = 0 /\ shown = 0
  /\ boot = "read" /\ signIn = NoSignIn /\ outs = {} /\ toggle = NoToggle /\ requests = {}
  /\ started = 0
  /\ struck = {} /\ left = {} /\ kept = {}

-----------------------------------------------------------------------------
(* Definitions marked "Bug" are never used by the specification: each is the
   definition that follows it with a mistake, which some property must catch. *)

(* The backend. *)

(* put and take: a value is taken once, whoever is first. *)
Put(s, v)       == handoff' = [handoff EXCEPT ![s] = v]
Take(s, v, for) == handoff[s] = v /\ handoff' = [handoff EXCEPT ![s] = for]

(* A value expires: ten minutes for a state, one for a code. *)
ValueExpires(s) ==
  /\ \E v \in {"state", "code"} : Take(s, v, "gone")
  /\ UNCHANGED <<usable, accepted, app>>

(* Bug: the user is logged in before the state is taken. *)
CallbackLogsInFirst(s) ==
  /\ handoff[s] = "state"
  /\ accepted' = accepted \cup {s}
  /\ UNCHANGED <<handoff, usable, app>>

(* workosCallback: AuthKit sends the browser back with the state, which is
   taken first ... *)
Callback(s) ==
  /\ Take(s, "state", "callback")
  /\ UNCHANGED <<usable, accepted, app>>

(* ... and after the login a code is put and sent to the redirect scheme ... *)
CallbackEnds(s) ==
  /\ Take(s, "callback", "code")
  /\ usable' = usable \cup {s} /\ accepted' = accepted \cup {s}
  /\ UNCHANGED <<app>>

(* ... or WorkOS or the login refuses. *)
CallbackFails(s) ==
  /\ Take(s, "callback", "gone")
  /\ UNCHANGED <<usable, accepted, app>>

(* workosMobileExchange with another verifier (pkceMatches): the code is gone. *)
ExchangeWithout(s) ==
  /\ Take(s, "code", "gone")
  /\ UNCHANGED <<usable, accepted, app>>

(* The expiry comes within the app's minute of grace. *)
Ages(s) ==
  /\ s \in usable /\ usable' = usable \ {s}
  /\ UNCHANGED <<handoff, accepted, app>>

(* The token expires, or its account is locked. *)
Refused(s) ==
  /\ s \in accepted /\ accepted' = accepted \ {s}
  /\ UNCHANGED <<handoff, usable, app>>

-----------------------------------------------------------------------------
(* The app. *)

(* readToken asks for the biometrics if the token is stored so; the user may
   cancel. *)
readToken == IF key.bio THEN {0, key.token} ELSE {key.token}

clearSession == key' = NoKey

(* Bug: what the screens show is left alone. *)
SignOutUnseen ==
  /\ current' = 0 /\ UNCHANGED shown
  /\ outs' = outs \cup {shown}
  /\ left' = left \cup ({shown, current} \ {0})

(* Bug: the keystore is forgotten. *)
SignOutInMemory ==
  /\ current' = 0 /\ shown' = 0
  /\ UNCHANGED outs
  /\ left' = left \cup ({shown, current} \ {0})

(* signOut, to its await. *)
SignOut ==
  /\ current' = 0 /\ shown' = 0
  /\ outs' = outs \cup {shown}
  /\ left' = left \cup ({shown, current} \ {0})

StayIn == UNCHANGED <<current, shown, outs, left, struck>>

(* The sign-in whose /auth/me has not answered. *)
Adopting == IF signIn.at = "me" THEN {signIn.id} ELSE {}

(* The answer 401 reaches the interceptor. *)
Unauthorized(t) ==
  IF current # 0
  THEN SignOut /\ struck' = IF t = current THEN struck ELSE struck \cup Adopting
  ELSE StayIn

(* signOut goes on: the keystore is cleared, and the logout is posted with the
   API client's token if there is one by now. *)
SignOutClears(t) ==
  /\ t \in outs
  /\ outs' = outs \ {t}
  /\ clearSession
  /\ requests' = IF t = 0 THEN requests
                 ELSE requests \cup {IF current # 0 THEN current ELSE t}
  /\ UNCHANGED <<backend, lock, runs, current, shown, boot, signIn, toggle, started, ghosts>>

(* The user presses Sign out. *)
UserSignsOut ==
  /\ shown # 0
  /\ SignOut
  /\ UNCHANGED <<backend, keystore, runs, boot, signIn, toggle, requests, started, struck, kept>>

(* A screen sends a request ... *)
Request ==
  /\ shown # 0
  /\ requests' = requests \cup {current}
  /\ UNCHANGED <<backend, keystore, session, boot, signIn, toggle, started, ghosts>>

(* ... which is answered, refused, or lost. *)
Answer(t) ==
  /\ t \in requests
  /\ requests' = requests \ {t}
  /\ \/ StayIn
     \/ t \notin accepted /\ Unauthorized(t)
  /\ UNCHANGED <<backend, keystore, runs, boot, signIn, toggle, started, kept>>

-----------------------------------------------------------------------------
(* initializeAuth: a usable token is adopted ... *)
BootReads ==
  /\ boot = "read"
  /\ \E t \in readToken :
       /\ boot' = CASE t = 0 -> "done" [] t \in usable -> "me" [] OTHER -> "clear"
       /\ current' = IF t \in usable THEN t ELSE current
  /\ UNCHANGED <<backend, keystore, runs, shown, signIn, outs, toggle, requests, started, ghosts>>

(* ... /auth/me answers ... *)
BootAdopts ==
  /\ boot = "me" /\ current \in accepted
  /\ shown' = current
  /\ boot' = "done"
  /\ UNCHANGED <<backend, keystore, runs, current, signIn, outs, toggle, requests, started, ghosts>>

(* ... or the request fails, refused or not: the session is cleared. *)
BootFails ==
  /\ boot = "me"
  /\ \/ StayIn
     \/ current \notin accepted /\ Unauthorized(current)
  /\ boot' = "clear"
  /\ UNCHANGED <<backend, keystore, runs, signIn, toggle, requests, started, kept>>

BootClears ==
  /\ boot = "clear"
  /\ clearSession
  /\ current' = 0
  /\ boot' = "done"
  /\ UNCHANGED <<backend, lock, runs, shown, signIn, outs, toggle, requests, started, ghosts>>

-----------------------------------------------------------------------------
(* signIn, from the login screen: workosMobileStart puts the state ... *)
SignInStarts ==
  /\ boot = "done" /\ shown = 0 /\ signIn.at = "idle" /\ started < MaxSignIns
  /\ started' = started + 1
  /\ Put(started + 1, "state")
  /\ signIn' = [NoSignIn EXCEPT !.at = "browser", !.id = started + 1]
  /\ UNCHANGED <<usable, accepted, keystore, session, boot, toggle, requests, ghosts>>

(* ... the browser comes back with the code ... *)
BrowserReturns ==
  /\ signIn.at = "browser" /\ handoff[signIn.id] \in {"code", "gone"}
  /\ signIn' = [signIn EXCEPT !.at = "exchange"]
  /\ UNCHANGED <<backend, keystore, session, boot, toggle, requests, started, ghosts>>

(* ... which is exchanged, once; the answer may get lost ... *)
Exchange ==
  /\ signIn.at = "exchange"
  /\ Take(signIn.id, "code", "given")
  /\ signIn' \in {NoSignIn, [signIn EXCEPT !.at = "save"]}
  /\ UNCHANGED <<usable, accepted, keystore, session, boot, toggle, requests, started, ghosts>>

(* ... or is refused with a 401. *)
ExchangeRefused ==
  /\ signIn.at = "exchange" /\ handoff[signIn.id] # "code"
  /\ Unauthorized(current)
  /\ signIn' = NoSignIn
  /\ UNCHANGED <<backend, keystore, runs, boot, toggle, requests, started, kept>>

(* saveToken: the lock is read, the old item deleted ... *)
SignInDeletes ==
  /\ signIn.at = "save"
  /\ key' = NoKey
  /\ signIn' = [signIn EXCEPT !.at = "set", !.bio = lock]
  /\ UNCHANGED <<backend, lock, session, boot, toggle, requests, started, ghosts>>

(* ... and the token stored. *)
SignInStores ==
  /\ signIn.at = "set"
  /\ key' = [token |-> signIn.id, bio |-> signIn.bio]
  /\ signIn' = [signIn EXCEPT !.at = "adopt"]
  /\ UNCHANGED <<backend, lock, session, boot, toggle, requests, started, ghosts>>

(* adopt: the API client has the token ... *)
SignInAdopts ==
  /\ signIn.at = "adopt"
  /\ current' = signIn.id
  /\ signIn' = [signIn EXCEPT !.at = "me"]
  /\ UNCHANGED <<backend, keystore, runs, shown, boot, outs, toggle, requests, started, ghosts>>

(* ... and /auth/me the user. *)
SignInEnds ==
  /\ signIn.at = "me" /\ signIn.id \in accepted
  /\ shown' = signIn.id
  /\ signIn' = NoSignIn
  /\ UNCHANGED <<backend, keystore, runs, current, boot, outs, toggle, requests, started, ghosts>>

(* The user closes the browser, a request is lost, the keystore fails. *)
SignInFails ==
  /\ signIn.at # "idle"
  /\ \/ StayIn
     \/ signIn.at = "me" /\ signIn.id \notin accepted /\ Unauthorized(signIn.id)
  /\ signIn' = NoSignIn
  /\ UNCHANGED <<backend, keystore, runs, boot, toggle, requests, started, kept>>

-----------------------------------------------------------------------------
(* toggleLock: the switch is pressed; the token is the one on the screen ... *)
TogglePressed ==
  /\ shown # 0 /\ toggle.at = "idle"
  /\ toggle' = [NoToggle EXCEPT !.at = "prompt", !.token = shown, !.on = ~lock]
  /\ UNCHANGED <<backend, keystore, session, boot, signIn, requests, started, ghosts>>

(* ... the owner is there: the setting is stored (setBiometricLock) ... *)
ToggleConfirmed ==
  /\ toggle.at = "prompt"
  /\ lock' = toggle.on
  /\ toggle' = [toggle EXCEPT !.at = "save"]
  /\ UNCHANGED <<backend, key, session, boot, signIn, requests, started, ghosts>>

(* ... and the token under it, deleted first ... *)
ToggleDeletes ==
  /\ toggle.at = "save"
  /\ key' = NoKey
  /\ toggle' = [toggle EXCEPT !.at = "set", !.bio = lock]
  /\ UNCHANGED <<backend, lock, session, boot, signIn, requests, started, ghosts>>

(* ... and stored. *)
ToggleStores ==
  /\ toggle.at = "set"
  /\ key' = [token |-> toggle.token, bio |-> toggle.bio]
  /\ kept' = kept \cup ({toggle.token} \cap left)
  /\ toggle' = NoToggle
  /\ UNCHANGED <<backend, lock, session, boot, signIn, requests, started, struck, left>>

(* The owner is not there, or the keystore fails. *)
ToggleFails ==
  /\ toggle.at # "idle"
  /\ toggle' = NoToggle
  /\ UNCHANGED <<backend, keystore, session, boot, signIn, requests, started, ghosts>>

(* The app is killed and started again: only the keystore remains. *)
Restart ==
  /\ runs < MaxRuns
  /\ runs' = runs + 1
  /\ current' = 0 /\ shown' = 0
  /\ boot' = "read" /\ signIn' = NoSignIn /\ outs' = {} /\ toggle' = NoToggle /\ requests' = {}
  /\ kept' = IF outs # {} \/ boot = "clear" THEN kept \cup ({key.token} \cap left) ELSE kept
  /\ UNCHANGED <<backend, keystore, started, struck, left>>

Next ==
  \/ \E s \in SignIns : \/ ValueExpires(s) \/ Callback(s) \/ CallbackEnds(s) \/ CallbackFails(s)
                        \/ ExchangeWithout(s) \/ Ages(s) \/ Refused(s)
  \/ \E t \in Tokens : SignOutClears(t) \/ Answer(t)
  \/ UserSignsOut \/ Request
  \/ BootReads \/ BootAdopts \/ BootFails \/ BootClears
  \/ SignInStarts \/ BrowserReturns \/ Exchange \/ ExchangeRefused
  \/ SignInDeletes \/ SignInStores \/ SignInAdopts \/ SignInEnds \/ SignInFails
  \/ TogglePressed \/ ToggleConfirmed \/ ToggleDeletes \/ ToggleStores \/ ToggleFails
  \/ Restart

Spec == Init /\ [][Next]_vars

-----------------------------------------------------------------------------
(* "The token is held in memory after unlock" (api.ts): while the screens show
   a user the API client has that user's token, so that a refused request signs
   the user out; unless, while /auth/me was asked for the user, an answer to
   another session's request signed the new session out. *)
SignedInHasToken == shown # 0 => shown \in {current} \cup struck

(* "You will need to sign in again to use your wallet" (SettingsScreen): a
   session that signOut has ended does not come back, not by a restart either;
   unless that same late answer hit it, the switch of the lock stored its token
   again, or the app was killed before the keystore was cleared. *)
SignedOutStaysOut == shown \in left => shown \in struck \cup kept

(* "With the biometric lock on, the OS itself refuses to release the token
   without Face ID / fingerprint" (secureSession.ts). *)
LockHolds == lock /\ key.token # 0 /\ toggle.at = "idle" => key.bio
=============================================================================
