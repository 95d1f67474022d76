-------------------------- MODULE MobileSignInProofs --------------------------
(***************************************************************************)
(* The safety properties of MobileSignIn, for any number of sign-ins and   *)
(* starts of the app.                                                      *)
(***************************************************************************)
EXTENDS MobileSignIn, TLAPS

(* A token that the app has anywhere is one of a sign-in that was started. *)
Started ==
  /\ \A s \in SignIns : s > started => handoff[s] = "none"
  /\ {current, shown, key.token, toggle.token} \subseteq 0 .. started
  /\ left \subseteq 1 .. started

(* Until the app has started it shows nobody and signs nobody in.  The token
   that it asks /auth/me about has not been signed out, but for the exceptions. *)
Booting ==
  /\ boot # "done" => shown = 0 /\ signIn.at = "idle"
  /\ boot = "read" => current = 0 /\ outs = {}
  /\ boot = "me" /\ current \in left => current \in struck \cup kept

(* The token of a sign-in under way is nobody else's, and signed out only as the
   answer to another's request, or refused for good. *)
SigningIn ==
  signIn.at # "idle" =>
    /\ shown = 0 /\ signIn.id \in 1 .. started
    /\ signIn.at \in {"save", "set", "adopt", "me"} => handoff[signIn.id] = "given"
    /\ signIn.at # "me" => signIn.id \notin left \cup {current}
    /\ signIn.at = "me" /\ signIn.id \in accepted =>
         /\ signIn.id \in {current} \cup struck
         /\ signIn.id \in left => signIn.id \in struck

(* The keystore keeps no token that was signed out, once it has been cleared. *)
Stored ==
  outs = {} /\ boot # "clear" /\ key.token \in left => key.token \in struck \cup kept

IInv == /\ TypeOK /\ Started /\ Booting /\ SigningIn /\ Stored
        /\ SignedInHasToken /\ SignedOutStaysOut

LEMMA Numbers ==
  ASSUME IInv
  PROVE  /\ started \in Nat /\ MaxSignIns \in Nat /\ started <= MaxSignIns
         /\ 1 .. started \subseteq SignIns /\ 0 .. started \subseteq Tokens
         /\ SignIns \subseteq Tokens /\ Tokens \ {0} \subseteq SignIns
         /\ 0 \in Tokens /\ 0 \notin SignIns /\ 0 \in 0 .. started
BY BoundsAssumption DEF IInv, TypeOK, SignIns, Tokens

SignInRec == [at : {"idle", "browser", "exchange", "save", "set", "adopt", "me"},
              id : Tokens, bio : BOOLEAN]
ToggleRec == [at : {"idle", "prompt", "save", "set"}, token : Tokens, on : BOOLEAN, bio : BOOLEAN]
KeyRec    == [token : Tokens, bio : BOOLEAN]

LEMMA Blanks ==
  /\ NoSignIn \in SignInRec /\ NoSignIn.at = "idle"
  /\ NoToggle \in ToggleRec /\ NoToggle.token = 0
  /\ NoKey \in KeyRec /\ NoKey.token = 0
<1>1. 0 \in Tokens
  BY BoundsAssumption DEF Tokens
<1> QED BY <1>1 DEF NoSignIn, NoToggle, NoKey, SignInRec, ToggleRec, KeyRec

-----------------------------------------------------------------------------
(* The backend: what was exchanged stays so, and nothing else makes a token
   that was refused accepted again. *)
LEMMA BackendStep ==
  ASSUME IInv, NEW s \in SignIns,
         \/ ValueExpires(s) \/ Callback(s) \/ CallbackEnds(s) \/ CallbackFails(s)
         \/ ExchangeWithout(s) \/ Ages(s) \/ Refused(s)
  PROVE  IInv'
<1>1. /\ UNCHANGED app
      /\ handoff' \in [SignIns -> {"none", "state", "callback", "code", "given", "gone"}]
      /\ usable' \in SUBSET SignIns /\ accepted' \in SUBSET SignIns
      /\ \A r \in SignIns : handoff[r] \in {"none", "given"} => handoff'[r] = handoff[r]
      /\ \A r \in SignIns : handoff'[r] \in {"none", "state", "callback"} => r \notin accepted'
      /\ \A r \in accepted' \ accepted : handoff[r] = "callback"
  BY DEF IInv, TypeOK, ValueExpires, Callback, CallbackEnds, CallbackFails, ExchangeWithout,
         Ages, Refused, Take
<1>2. UNCHANGED <<key, lock, runs, current, shown, boot, signIn, outs, toggle, requests,
                  started, struck, left, kept>>
  BY <1>1 DEF app, keystore, session, ghosts
<1>3. TypeOK'
  BY <1>1, <1>2 DEF IInv, TypeOK
<1>4. Started'
  BY <1>1, <1>2 DEF IInv, Started
<1>5. SigningIn'
  <2>1. signIn.at # "idle" => signIn.id \in SignIns
    BY DEF IInv, TypeOK, SigningIn, SignIns, Tokens
  <2> QED BY <1>1, <1>2, <2>1 DEF IInv, SigningIn
<1> QED BY <1>2, <1>3, <1>4, <1>5 DEF IInv, Booting, Stored, SignedInHasToken, SignedOutStaysOut

-----------------------------------------------------------------------------
(* What an ending session may change. *)
Ending == \/ UNCHANGED <<current, shown, outs, left, struck>>
          \/ /\ current' = 0 /\ shown' = 0 /\ outs' = outs \cup {shown}
             /\ left' = left \cup ({shown, current} \ {0})
             /\ struck' \in {struck, struck \cup Adopting}
             /\ shown # 0 \/ current # 0

LEMMA Refusal ==
  ASSUME NEW t, StayIn \/ Unauthorized(t)
  PROVE  Ending /\ (current' # current /\ t # current => struck' = struck \cup Adopting)
BY DEF StayIn, Unauthorized, SignOut, Ending

LEMMA EndingStep ==
  ASSUME IInv, Ending, UNCHANGED <<handoff, usable, accepted, key, lock, runs, toggle, started, kept>>,
         requests' \in SUBSET Tokens,
         boot' = boot \/ (boot' = "clear" /\ signIn.at = "idle" /\ shown' = 0),
         boot = "read" => UNCHANGED <<current, outs>>,
         signIn' \in {signIn, NoSignIn},
         signIn'.at = "me" /\ signIn.id \in accepted /\ current' # current => signIn.id \in struck'
  PROVE  IInv'
<1>1. TypeOK'
  <2>1. struck' \in SUBSET SignIns /\ left' \in SUBSET SignIns /\ left \subseteq left'
    BY Numbers DEF IInv, TypeOK, SigningIn, Ending, Adopting
  <2>2. current' \in Tokens /\ shown' \in Tokens /\ outs' \in SUBSET Tokens
    BY Numbers DEF IInv, TypeOK, Ending
  <2>3. signIn' \in SignInRec
    BY Blanks DEF IInv, TypeOK, SignInRec
  <2> QED BY <2>1, <2>2, <2>3 DEF IInv, TypeOK, SignInRec
<1>2. Started'
  <2>1. {shown, current} \ {0} \subseteq 1 .. started
    BY Numbers DEF IInv, Started
  <2>2. left' \subseteq 1 .. started' /\ {current', shown'} \subseteq 0 .. started'
    BY <2>1, Numbers DEF IInv, Started, Ending
  <2> QED BY <2>2 DEF IInv, Started
<1>3. Booting'
  <2>1. boot' # "done" => shown' = 0 /\ signIn'.at = "idle"
    BY Blanks DEF IInv, Booting, Ending
  <2>2. boot' = "read" => current' = 0 /\ outs' = {}
    BY DEF IInv, Booting
  <2>3. boot' = "me" /\ current' \in left' => current' \in struck' \cup kept'
    BY Numbers DEF IInv, TypeOK, Booting, Ending
  <2> QED BY <2>1, <2>2, <2>3 DEF Booting
<1>4. SigningIn'
  <2>1. CASE signIn' = NoSignIn
    BY <2>1, Blanks DEF SigningIn
  <2>2. CASE signIn' = signIn /\ signIn.at # "idle"
    <3>1. signIn.id # 0 /\ shown = 0 /\ shown' = 0
      BY <2>2, Numbers DEF IInv, SigningIn, Ending
    <3>2. signIn.at # "me" => signIn.id \notin left' \cup {current'}
      BY <2>2, <3>1 DEF IInv, SigningIn, Ending
    <3>3. signIn.at = "me" /\ signIn.id \in accepted =>
            /\ signIn.id \in {current'} \cup struck'
            /\ signIn.id \in left' => signIn.id \in struck'
      BY <2>2, <3>1 DEF IInv, SigningIn, Ending
    <3> QED BY <2>2, <3>1, <3>2, <3>3 DEF IInv, SigningIn
  <2> QED BY <2>1, <2>2 DEF SigningIn
<1>5. Stored'
  BY DEF IInv, Stored, Ending
<1>6. SignedInHasToken' /\ SignedOutStaysOut'
  BY Numbers DEF IInv, SignedInHasToken, SignedOutStaysOut, Ending, TypeOK
<1> QED BY <1>1, <1>2, <1>3, <1>4, <1>5, <1>6 DEF IInv

LEMMA SignOutStep ==
  ASSUME IInv, \/ UserSignsOut \/ BootFails \/ ExchangeRefused \/ SignInFails
               \/ \E t \in Tokens : Answer(t)
  PROVE  IInv'
<1>0. requests \in SUBSET Tokens
  BY DEF IInv, TypeOK
<1>1. CASE UserSignsOut
  <2>1. /\ Ending /\ shown # 0 /\ signIn' = signIn /\ boot' = boot /\ requests' = requests
        /\ UNCHANGED <<handoff, usable, accepted, key, lock, runs, toggle, started, kept>>
    BY <1>1 DEF UserSignsOut, SignOut, Ending, backend, keystore
  <2>2. boot # "read" /\ signIn.at = "idle"
    BY <2>1 DEF IInv, Booting, SigningIn
  <2> QED BY <1>0, <2>1, <2>2, EndingStep
<1>2. CASE BootFails
  <2>1. /\ boot = "me" /\ boot' = "clear" /\ signIn' = signIn /\ requests' = requests
        /\ UNCHANGED <<handoff, usable, accepted, key, lock, runs, toggle, started, kept>>
        /\ StayIn \/ Unauthorized(current)
    BY <1>2 DEF BootFails, backend, keystore
  <2>2. Ending
    BY <2>1, Refusal
  <2>3. shown = 0 /\ signIn.at = "idle"
    BY <2>1 DEF IInv, Booting
  <2>4. shown' = 0
    BY <2>2, <2>3 DEF Ending
  <2> QED BY <1>0, <2>1, <2>2, <2>3, <2>4, EndingStep
<1>3. CASE ExchangeRefused \/ SignInFails
  <2>1. /\ signIn.at # "idle" /\ signIn' = NoSignIn /\ boot' = boot /\ requests' = requests
        /\ UNCHANGED <<handoff, usable, accepted, key, lock, runs, toggle, started, kept>>
        /\ StayIn \/ Unauthorized(current) \/ Unauthorized(signIn.id)
    BY <1>3 DEF ExchangeRefused, SignInFails, backend, keystore
  <2>2. Ending
    BY <2>1, Refusal
  <2>3. boot # "read" /\ signIn'.at = "idle"
    BY <2>1, Blanks DEF IInv, Booting
  <2> QED BY <1>0, <2>1, <2>2, <2>3, EndingStep
<1>5. ASSUME NEW t \in Tokens, Answer(t) PROVE IInv'
  <2>1. /\ StayIn \/ (t \notin accepted /\ Unauthorized(t))
        /\ UNCHANGED <<handoff, usable, accepted, key, lock, runs, boot, signIn, toggle, started, kept>>
        /\ requests' \in SUBSET Tokens
    BY <1>5 DEF Answer, backend, keystore, IInv, TypeOK
  <2>2. boot = "read" => UNCHANGED <<current, outs>>
    BY <2>1 DEF StayIn, Unauthorized, IInv, Booting
  <2>3. signIn.at = "me" /\ signIn.id \in accepted /\ current' # current => signIn.id \in struck'
    <3> SUFFICES ASSUME signIn.at = "me", signIn.id \in accepted, current' # current
                 PROVE  signIn.id \in struck'
      OBVIOUS
    <3>1. t \notin accepted /\ Unauthorized(t)
      BY <2>1 DEF StayIn
    <3>2. signIn.id \in {current} \cup struck
      BY DEF IInv, SigningIn
    <3>3. CASE t = current
      BY <3>1, <3>2, <3>3, Refusal DEF Ending
    <3>4. CASE t # current
      BY <3>1, <3>4, Refusal DEF Adopting
    <3> QED BY <3>3, <3>4
  <2>4. Ending
    BY <2>1, Refusal
  <2> QED BY <2>1, <2>2, <2>3, <2>4, EndingStep
<1> QED BY <1>1, <1>2, <1>3, <1>5

-----------------------------------------------------------------------------
(* The steps of the app's tasks that end no session and adopt none.  Whichever
   token is stored, it has not been signed out, or is kept. *)
Onward == {<<"browser", "exchange">>, <<"save", "set">>, <<"set", "adopt">>}

LEMMA TaskStep ==
  ASSUME IInv,
         UNCHANGED <<handoff, usable, accepted, runs, current, shown, boot, started, struck, left>>,
         key' \in KeyRec,
         key'.token \in {0, key.token, toggle.token} \/ (signIn.at # "idle" /\ key'.token = signIn.id),
         lock' \in BOOLEAN,
         toggle' \in ToggleRec, toggle'.token \in {0, shown, toggle.token},
         signIn' = signIn \/ /\ signIn' \in SignInRec /\ signIn'.id = signIn.id
                             /\ <<signIn.at, signIn'.at>> \in Onward,
         outs' \in SUBSET outs, requests' \in SUBSET Tokens,
         kept \subseteq kept', kept' \in SUBSET left,
         Stored'
  PROVE  IInv'
<1>1. TypeOK'
  BY DEF IInv, TypeOK, KeyRec, ToggleRec, SignInRec
<1>2. signIn.at # "idle" => signIn.id \in 0 .. started
  BY Numbers DEF IInv, SigningIn
<1>3. Started'
  <2>1. key'.token \in 0 .. started
    BY <1>2, Numbers DEF IInv, Started
  <2>2. toggle'.token \in 0 .. started
    BY Numbers DEF IInv, Started
  <2> QED BY <2>1, <2>2 DEF IInv, Started
<1>4. SigningIn'
  <2>1. CASE signIn' = signIn
    BY <2>1 DEF IInv, SigningIn
  <2>2. CASE signIn'.id = signIn.id /\ <<signIn.at, signIn'.at>> \in Onward
    <3>1. /\ signIn.at # "idle" /\ signIn.at # "me" /\ signIn'.at # "me"
          /\ signIn'.at \in {"save", "set", "adopt"} => signIn.at \in {"save", "set", "adopt"}
      BY <2>2 DEF Onward
    <3> QED BY <2>2, <3>1 DEF IInv, SigningIn
  <2> QED BY <2>1, <2>2
<1>5. Booting'
  <2>1. signIn.at = "idle" => signIn'.at = "idle"
    BY DEF Onward
  <2> QED BY <2>1 DEF IInv, Booting
<1>6. SignedInHasToken' /\ SignedOutStaysOut'
  BY DEF IInv, SignedInHasToken, SignedOutStaysOut
<1> QED BY <1>1, <1>3, <1>4, <1>5, <1>6 DEF IInv

(* The records of the keystore, of the switch and of the sign-in. *)
LEMMA Records ==
  ASSUME IInv
  PROVE  /\ key \in KeyRec /\ toggle \in ToggleRec /\ signIn \in SignInRec /\ lock \in BOOLEAN
         /\ outs \in SUBSET Tokens /\ requests \in SUBSET Tokens /\ kept \in SUBSET left
         /\ shown \in Tokens /\ current \in Tokens /\ 0 \notin left
BY Numbers DEF IInv, TypeOK, Started, KeyRec, ToggleRec, SignInRec

(* The keystore is written. *)
LEMMA KeystoreStep ==
  ASSUME IInv, \/ SignInDeletes \/ SignInStores \/ ToggleDeletes \/ ToggleStores
               \/ \E t \in Tokens : SignOutClears(t)
  PROVE  IInv'
<1>1. CASE SignInDeletes
  <2>1. /\ key' = NoKey /\ signIn.at = "save" /\ signIn' = [signIn EXCEPT !.at = "set", !.bio = lock]
        /\ UNCHANGED <<handoff, usable, accepted, lock, runs, current, shown, boot, outs, toggle,
                       requests, started, struck, left, kept>>
    BY <1>1 DEF SignInDeletes, backend, session, ghosts
  <2>2. signIn' \in SignInRec /\ signIn'.at = "set" /\ signIn'.id = signIn.id
    BY <2>1, Records DEF SignInRec
  <2>3. Stored'
    BY <2>1, Blanks, Records DEF Stored
  <2> QED BY <2>1, <2>2, <2>3, Blanks, Records, TaskStep DEF Onward
<1>2. CASE SignInStores
  <2>1. /\ key' = [token |-> signIn.id, bio |-> signIn.bio]
        /\ signIn.at = "set" /\ signIn' = [signIn EXCEPT !.at = "adopt"]
        /\ UNCHANGED <<handoff, usable, accepted, lock, runs, current, shown, boot, outs, toggle,
                       requests, started, struck, left, kept>>
    BY <1>2 DEF SignInStores, backend, session, ghosts
  <2>2. /\ signIn' \in SignInRec /\ signIn'.at = "adopt" /\ signIn'.id = signIn.id
        /\ key' \in KeyRec /\ key'.token = signIn.id
    BY <2>1, Records DEF SignInRec, KeyRec
  <2>3. Stored'
    BY <2>1, <2>2 DEF IInv, SigningIn, Stored
  <2> QED BY <2>1, <2>2, <2>3, Records, TaskStep DEF Onward
<1>3. CASE ToggleDeletes
  <2>1. /\ key' = NoKey /\ toggle' = [toggle EXCEPT !.at = "set", !.bio = lock]
        /\ UNCHANGED <<handoff, usable, accepted, lock, runs, current, shown, boot, signIn, outs,
                       requests, started, struck, left, kept>>
    BY <1>3 DEF ToggleDeletes, backend, session, ghosts
  <2>2. toggle' \in ToggleRec /\ toggle'.token = toggle.token
    BY <2>1, Records DEF ToggleRec
  <2>3. Stored'
    BY <2>1, Blanks, Records DEF Stored
  <2> QED BY <2>1, <2>2, <2>3, Blanks, Records, TaskStep
<1>4. CASE ToggleStores
  <2>1. /\ key' = [token |-> toggle.token, bio |-> toggle.bio]
        /\ kept' = kept \cup ({toggle.token} \cap left) /\ toggle' = NoToggle
        /\ UNCHANGED <<handoff, usable, accepted, lock, runs, current, shown, boot, signIn, outs,
                       requests, started, struck, left>>
    BY <1>4 DEF ToggleStores, backend, session
  <2>2. key' \in KeyRec /\ key'.token = toggle.token
    BY <2>1, Records DEF ToggleRec, KeyRec
  <2>3. Stored'
    BY <2>1, <2>2 DEF Stored
  <2>4. kept \subseteq kept' /\ kept' \in SUBSET left
    BY <2>1, Records
  <2> QED BY <2>1, <2>2, <2>3, <2>4, Blanks, Records, TaskStep
<1>5. ASSUME NEW t \in Tokens, SignOutClears(t) PROVE IInv'
  <2>1. /\ key' = NoKey /\ outs' = outs \ {t}
        /\ UNCHANGED <<handoff, usable, accepted, lock, runs, current, shown, boot, signIn, toggle,
                       started, struck, left, kept>>
    BY <1>5 DEF SignOutClears, clearSession, backend, ghosts
  <2>2. requests' \in SUBSET Tokens
    BY <1>5, Records DEF SignOutClears
  <2>3. Stored'
    BY <2>1, Blanks, Records DEF Stored
  <2> QED BY <2>1, <2>2, <2>3, Blanks, Records, TaskStep
<1> QED BY <1>1, <1>2, <1>3, <1>4, <1>5

(* Neither the keystore nor a session changes. *)
LEMMA QuietStep ==
  ASSUME IInv, TogglePressed \/ ToggleConfirmed \/ ToggleFails \/ Request \/ BrowserReturns
  PROVE  IInv'
<1>1. CASE TogglePressed \/ ToggleConfirmed \/ ToggleFails
  <2>1. /\ UNCHANGED <<handoff, usable, accepted, key, runs, current, shown, boot, signIn, outs,
                       requests, started, struck, left, kept>>
        /\ lock' \in {lock, toggle.on}
        /\ toggle' \in {[NoToggle EXCEPT !.at = "prompt", !.token = shown, !.on = ~lock],
                        [toggle EXCEPT !.at = "save"], NoToggle}
    BY <1>1 DEF TogglePressed, ToggleConfirmed, ToggleFails, backend, keystore, session, ghosts
  <2>2. toggle' \in ToggleRec /\ toggle'.token \in {0, shown, toggle.token} /\ lock' \in BOOLEAN
    BY <2>1, Blanks, Records DEF ToggleRec, NoToggle
  <2>3. Stored'
    BY <2>1 DEF IInv, Stored
  <2> QED BY <2>1, <2>2, <2>3, Records, TaskStep
<1>2. CASE Request
  <2>1. /\ requests' = requests \cup {current}
        /\ UNCHANGED <<handoff, usable, accepted, key, lock, runs, current, shown, boot, signIn, outs,
                       toggle, started, struck, left, kept>>
    BY <1>2 DEF Request, backend, keystore, session, ghosts
  <2>2. Stored'
    BY <2>1 DEF IInv, Stored
  <2> QED BY <2>1, <2>2, Records, TaskStep
<1>3. CASE BrowserReturns
  <2>1. /\ signIn.at = "browser" /\ signIn' = [signIn EXCEPT !.at = "exchange"]
        /\ UNCHANGED <<handoff, usable, accepted, key, lock, runs, current, shown, boot, outs, toggle,
                       requests, started, struck, left, kept>>
    BY <1>3 DEF BrowserReturns, backend, keystore, session, ghosts
  <2>2. signIn' \in SignInRec /\ signIn'.at = "exchange" /\ signIn'.id = signIn.id
    BY <2>1, Records DEF SignInRec
  <2>3. Stored'
    BY <2>1 DEF IInv, Stored
  <2> QED BY <2>1, <2>2, <2>3, Records, TaskStep DEF Onward
<1> QED BY <1>1, <1>2, <1>3

-----------------------------------------------------------------------------
(* The start of the app.  The token it reads has not been signed out, or is kept. *)
LEMMA BootStep ==
  ASSUME IInv, BootReads \/ BootAdopts \/ BootClears \/ Restart
  PROVE  IInv'
<1>1. CASE BootReads
  BY <1>1, Numbers DEF BootReads, readToken, backend, keystore, ghosts, IInv, TypeOK, Started, Booting,
              SigningIn, Stored, SignedInHasToken, SignedOutStaysOut
<1>2. CASE BootAdopts
  BY <1>2, Numbers DEF BootAdopts, backend, keystore, ghosts, IInv, TypeOK, Started, Booting,
              SigningIn, Stored, SignedInHasToken, SignedOutStaysOut
<1>3. CASE BootClears
  <2>1. /\ boot = "clear" /\ boot' = "done" /\ key' = NoKey /\ current' = 0
        /\ UNCHANGED <<handoff, usable, accepted, lock, runs, shown, signIn, outs, toggle, requests,
                       started, struck, left, kept>>
    BY <1>3 DEF BootClears, clearSession, backend, ghosts
  <2>2. shown = 0 /\ signIn.at = "idle" /\ 0 \notin left
    BY <2>1, Records DEF IInv, Booting
  <2>3. TypeOK'
    BY <2>1, Blanks, Numbers DEF IInv, TypeOK, KeyRec
  <2>4. Started'
    BY <2>1, Blanks, Numbers DEF IInv, Started
  <2> QED BY <2>1, <2>2, <2>3, <2>4, Blanks
          DEF IInv, Booting, SigningIn, Stored, SignedInHasToken, SignedOutStaysOut
<1>4. CASE Restart
  <2>1. /\ runs < MaxRuns /\ runs' = runs + 1 /\ current' = 0 /\ shown' = 0 /\ boot' = "read"
        /\ signIn' = NoSignIn /\ outs' = {} /\ toggle' = NoToggle /\ requests' = {}
        /\ kept' = IF outs # {} \/ boot = "clear" THEN kept \cup ({key.token} \cap left) ELSE kept
        /\ UNCHANGED <<handoff, usable, accepted, key, lock, started, struck, left>>
    BY <1>4 DEF Restart, backend, keystore
  <2>2. TypeOK'
    <3>1. runs' \in 1 .. MaxRuns
      BY <2>1, BoundsAssumption DEF IInv, TypeOK
    <3>2. kept' \in SUBSET left
      BY <2>1, Records
    <3> QED BY <2>1, <3>1, <3>2, Blanks, Numbers DEF IInv, TypeOK, SignInRec, ToggleRec
  <2>3. Started'
    BY <2>1, Blanks, Numbers DEF IInv, Started
  <2>4. Stored'
    BY <2>1 DEF IInv, Stored
  <2>5. Booting' /\ SigningIn' /\ SignedInHasToken' /\ SignedOutStaysOut'
    BY <2>1, Blanks, Records DEF Booting, SigningIn, SignedInHasToken, SignedOutStaysOut
  <2> QED BY <2>2, <2>3, <2>4, <2>5 DEF IInv
<1> QED BY <1>1, <1>2, <1>3, <1>4

-----------------------------------------------------------------------------
(* A sign-in starts with a value and a token of its own. *)
LEMMA SignInStartsStep ==
  ASSUME IInv, SignInStarts
  PROVE  IInv'
<1> DEFINE id == started + 1
<1>1. /\ boot = "done" /\ shown = 0 /\ started < MaxSignIns
      /\ started' = id /\ handoff' = [handoff EXCEPT ![id] = "state"]
      /\ signIn' = [NoSignIn EXCEPT !.at = "browser", !.id = id]
      /\ UNCHANGED <<usable, accepted, key, lock, runs, current, shown, boot, outs, toggle, requests,
                     struck, left, kept>>
  BY DEF SignInStarts, Put, keystore, session, ghosts
<1>2. id \in SignIns /\ id \in Nat /\ id > started /\ id \notin left /\ id # current
  BY <1>1, Numbers DEF SignIns, IInv, Started
<1>3. handoff[id] = "none" /\ id \notin accepted
  BY <1>2 DEF IInv, Started, TypeOK
<1>4. signIn' \in SignInRec /\ signIn'.at = "browser" /\ signIn'.id = id
  BY <1>1, <1>2, Numbers DEF NoSignIn, SignInRec
<1>5. TypeOK'
  BY <1>1, <1>2, <1>3, <1>4, Numbers DEF IInv, TypeOK, SignInRec
<1>6. Started'
  <2>1. 0 .. started \subseteq 0 .. id /\ 1 .. started \subseteq 1 .. id
    BY <1>2, Numbers
  <2>2. \A s \in SignIns : s > id => s > started /\ s # id
    BY <1>2, Numbers DEF SignIns
  <2> QED BY <1>1, <2>1, <2>2 DEF IInv, TypeOK, Started
<1>7. SigningIn'
  <2>1. id \in 1 .. id
    BY <1>2, Numbers
  <2> QED BY <1>1, <1>2, <1>4, <2>1 DEF SigningIn
<1> QED BY <1>1, <1>5, <1>6, <1>7
        DEF IInv, Booting, Stored, SignedInHasToken, SignedOutStaysOut

(* The code is exchanged once, and the token is adopted and shown. *)
LEMMA SignInStep ==
  ASSUME IInv, Exchange \/ SignInAdopts \/ SignInEnds
  PROVE  IInv'
<1>1. CASE Exchange
  <2> DEFINE id == signIn.id
  <2>1. /\ signIn.at = "exchange" /\ handoff[id] = "code"
        /\ handoff' = [handoff EXCEPT ![id] = "given"]
        /\ signIn' \in {NoSignIn, [signIn EXCEPT !.at = "save"]}
        /\ UNCHANGED <<usable, accepted, key, lock, runs, current, shown, boot, outs, toggle, requests,
                       started, struck, left, kept>>
    BY <1>1 DEF Exchange, Take, keystore, session, ghosts
  <2>2. id \in SignIns /\ id \in 1 .. started /\ shown = 0 /\ id \notin left \cup {current}
    BY <2>1, Numbers DEF IInv, SigningIn
  <2>3. /\ signIn' \in SignInRec
        /\ signIn'.at = "idle" \/ (signIn'.at = "save" /\ signIn'.id = id)
    BY <2>1, Blanks, Records DEF SignInRec
  <2>4. TypeOK'
    BY <2>1, <2>2, <2>3 DEF IInv, TypeOK, SignInRec
  <2>5. Started'
    BY <2>1, <2>2, Numbers DEF IInv, TypeOK, Started
  <2>6. SigningIn'
    BY <2>1, <2>2, <2>3 DEF IInv, TypeOK, SigningIn
  <2>7. Booting'
    BY <2>1 DEF IInv, Booting
  <2> QED BY <2>1, <2>4, <2>5, <2>6, <2>7
          DEF IInv, Stored, SignedInHasToken, SignedOutStaysOut
<1>2. CASE SignInAdopts
  BY <1>2, Numbers DEF SignInAdopts, backend, keystore, ghosts, IInv, TypeOK, Started, Booting,
              SigningIn, Stored, SignedInHasToken, SignedOutStaysOut
<1>3. CASE SignInEnds
  BY <1>3, Numbers DEF SignInEnds, NoSignIn, backend, keystore, ghosts, IInv, TypeOK, Started, Booting,
              SigningIn, Stored, SignedInHasToken, SignedOutStaysOut
<1> QED BY <1>1, <1>2, <1>3

-----------------------------------------------------------------------------
LEMMA InitIInv == Init => IInv
<1> SUFFICES ASSUME Init PROVE IInv
  OBVIOUS
<1>1. /\ handoff = [s \in SignIns |-> "none"] /\ usable = {} /\ accepted = {}
      /\ key = NoKey /\ lock = FALSE /\ runs = 1 /\ current = 0 /\ shown = 0 /\ boot = "read"
      /\ signIn = NoSignIn /\ outs = {} /\ toggle = NoToggle /\ requests = {}
      /\ started = 0 /\ struck = {} /\ left = {} /\ kept = {}
  BY DEF Init
<1>2. 0 \in Tokens /\ 1 \in 1 .. MaxRuns /\ 0 \in 0 .. 0
  BY BoundsAssumption DEF Tokens
<1>3. TypeOK
  BY <1>1, <1>2, Blanks DEF TypeOK, SignInRec, ToggleRec, KeyRec
<1> QED BY <1>1, <1>2, <1>3, Blanks
        DEF IInv, Started, Booting, SigningIn, Stored, SignedInHasToken, SignedOutStaysOut

LEMMA NextIInv == IInv /\ [Next]_vars => IInv'
<1> SUFFICES ASSUME IInv, [Next]_vars PROVE IInv'
  OBVIOUS
<1>1. CASE UNCHANGED vars
  BY <1>1, Numbers DEF vars, IInv, TypeOK, Started, Booting, SigningIn, Stored, SignedInHasToken,
              SignedOutStaysOut
<1> QED BY <1>1, BackendStep, SignOutStep, KeystoreStep, QuietStep, BootStep,
           SignInStartsStep, SignInStep DEF Next

LEMMA Invariance == Spec => []IInv
BY InitIInv, NextIInv, PTL DEF Spec

-----------------------------------------------------------------------------
(* Every variable keeps its type. *)
THEOREM MobileTypeCorrect == Spec => []TypeOK
<1>1. IInv => TypeOK
  BY DEF IInv
<1> QED BY <1>1, Invariance, PTL

(* However the app's tasks and the answers of the API interleave, while the
   screens show a user the API client has that user's token, but for the one
   late answer (authStore.signIn, initializeAuth, signOut; api.ts). *)
THEOREM ShownHasToken == Spec => []SignedInHasToken
<1>1. IInv => SignedInHasToken
  BY DEF IInv
<1> QED BY <1>1, Invariance, PTL

(* A session that was signed out is not shown again, not after a restart
   either, but for the three exceptions (signOut, toggleLock, clearSession). *)
THEOREM EndedStaysOut == Spec => []SignedOutStaysOut
<1>1. IInv => SignedOutStaysOut
  BY DEF IInv
<1> QED BY <1>1, Invariance, PTL
=============================================================================
