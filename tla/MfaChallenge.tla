---------------------------- MODULE MfaChallenge ----------------------------
(***************************************************************************)
(* The second factor of one account (auth/services/mfa_service.py and the  *)
(* MFA half of passkey_service.py): login challenges, TOTP enrolment,      *)
(* recovery codes and passkey ceremonies, with every request a transaction *)
(* over PostgreSQL row locks at READ COMMITTED.                            *)
(*                                                                         *)
(* A TOTP code is its secret and time step, a recovery code its set and    *)
(* index; distinct ones never collide.  Flushing a row that refers to the  *)
(* user takes its key-share lock, which waits for FOR UPDATE; since commit *)
(* follows at once, the two are one step.  Sessions are refresh families   *)
(* (RefreshSessions has their rotation).                                   *)
(***************************************************************************)
EXTENDS Integers, Sequences

CONSTANTS
    Requests,      \* concurrent request handlers
    None,
    MaxAttempts,   \* mfa_max_attempts
    Window,        \* mfa_totp_valid_window
    CodesPerSet,   \* mfa_recovery_code_count
    MaxRows,       \* bound: challenges, and ceremonies
    MaxRequests,   \* bound: requests in all
    MaxTime,       \* bound: time steps, and deadlines that pass
    MaxFaults      \* bound: dropped connections

ASSUME MfaAssumption ==
    /\ None \notin Requests
    /\ MaxAttempts \in Nat \ {0} /\ Window \in Nat /\ CodesPerSet \in Nat \ {0}
    /\ MaxRows \in Nat \ {0} /\ MaxRequests \in Nat /\ MaxTime \in Nat \ {0} /\ MaxFaults \in Nat

Ids == 1..MaxRows
\* Families, secrets and sets of codes are numbered from 1 as they are made.
Numbers == Nat
Factor == [type : {"totp", "recovery"}, of : Numbers, n : Nat]
Wrong == [type |-> "totp", of |-> 0, n |-> 0]
Kinds == {"login", "verify", "options", "passkey", "setup", "confirm", "regenerate", "disable"}
Labels == {"idle", "readMethods", "lockUser", "readEnabled", "lockChallenge", "lockMethod",
           "lockCeremony", "snapshot", "sweep", "commit", "issue", "revokeOthers"}
Verdicts == {"none", "accept", "reject", "invalidate"}

VARIABLES
    challenges,  \* auth_mfa_challenges, oldest first
    ceremonies,  \* webauthn_challenges of those challenges
    method,      \* user_mfa_methods: state, secret, last_used_counter (0: none)
    codes,       \* unused recovery codes
    codeSets,    \* sets of recovery codes made
    secrets,     \* TOTP secrets made
    passkey,     \* the account has a passkey
    active,      \* users.is_active
    sessions,    \* live refresh families
    second,      \* families issued after a second factor
    families,    \* families issued
    clock,       \* current TOTP time step
    overdue,     \* challenges, ceremonies and the setup past their deadline
    challengeLock, ceremonyLock, methodLock,  \* holders of row locks, or None
    userLock,    \* who holds the users row FOR UPDATE
    pc, op,      \* next statement of each request, and its inputs
    verdict,     \* what its checks decided
    seen,        \* attempt_count as it read it
    todo, marked,  \* challenges its UPDATE has yet to visit; has invalidated
    accepted,    \* factors of committed transactions, in order
    answers,     \* per challenge, committed [wrong, right] answers
    enrolled,    \* family that enabled the method and revoked the others, or 0
    started, ticks, faults

dbVars == <<challenges, ceremonies, method, codes, codeSets, secrets>>
accountVars == <<passkey, active, sessions, second, families>>
timeVars == <<clock, overdue, ticks>>
lockVars == <<challengeLock, ceremonyLock, methodLock, userLock>>
workVars == <<verdict, seen, todo, marked>>
historyVars == <<accepted, answers, enrolled>>
boundVars == <<started, faults>>
\* All that a statement before the commit leaves alone.
worldVars == <<dbVars, accountVars, timeVars, historyVars, boundVars>>
vars == <<worldVars, lockVars, pc, op, workVars>>

\* One type invariant.
TypeOK ==
    /\ challenges \in Seq([status : {"open", "used", "invalid"}, attempts : Nat])
    /\ ceremonies \in Seq([challenge : Ids, status : {"open", "used", "invalid"}])
    /\ Len(challenges) <= MaxRows /\ Len(ceremonies) <= MaxRows
    /\ method \in [state : {"absent", "pending", "enabled"}, secret : Numbers, last : Nat,
                   confirmed : Numbers]
    /\ codes \subseteq (Numbers \X (1..CodesPerSet)) /\ codeSets \in Numbers /\ secrets \in Numbers
    /\ passkey \in BOOLEAN /\ active \in BOOLEAN
    /\ families \in Numbers /\ sessions \subseteq 1..families /\ second \subseteq 1..families
    /\ clock \in 1..MaxTime /\ ticks \in Nat
    /\ overdue \subseteq ({"challenge", "ceremony"} \X Ids) \cup {<<"setup", 0>>}
    /\ challengeLock \in [Ids -> Requests \cup {None}]
    /\ ceremonyLock \in [Ids -> Requests \cup {None}]
    /\ methodLock \in Requests \cup {None} /\ userLock \in Requests \cup {None}
    /\ pc \in [Requests -> Labels]
    /\ op \in [Requests -> [kind : Kinds, row : Ids, ceremony : Ids, factor : Factor,
                            family : Numbers]]
    /\ verdict \in [Requests -> Verdicts] /\ seen \in [Requests -> Nat]
    /\ todo \in [Requests -> SUBSET Ids] /\ marked \in [Requests -> SUBSET Ids]
    /\ accepted \in Seq(Factor) /\ answers \in [Ids -> [wrong : Nat, right : Nat]]
    /\ enrolled \in Numbers
    /\ started \in Nat /\ faults \in Nat

NoMethod == [state |-> "absent", secret |-> 0, last |-> 0, confirmed |-> 0]
NoOp == [kind |-> "login", row |-> 1, ceremony |-> 1, factor |-> Wrong, family |-> 0]

\* An account signed in once, with or without a passkey; its TOTP method is
\* not set up yet, or confirmed in the first time step by that session.
Init ==
    /\ challenges = << >> /\ ceremonies = << >>
    /\ \/ /\ method = NoMethod
          /\ codes = {} /\ codeSets = 0 /\ secrets = 0
          /\ accepted = << >> /\ enrolled = 0
       \/ /\ method = [state |-> "enabled", secret |-> 1, last |-> 1, confirmed |-> 1]
          /\ codes = {1} \X (1..CodesPerSet) /\ codeSets = 1 /\ secrets = 1
          /\ accepted = << [type |-> "totp", of |-> 1, n |-> 1] >> /\ enrolled = 1
    /\ passkey \in BOOLEAN /\ active = TRUE
    /\ sessions = {1} /\ second = {} /\ families = 1
    /\ clock = 1 /\ overdue = {} /\ ticks = 0
    /\ challengeLock = [c \in Ids |-> None] /\ ceremonyLock = [e \in Ids |-> None]
    /\ methodLock = None /\ userLock = None
    /\ pc = [q \in Requests |-> "idle"] /\ op = [q \in Requests |-> NoOp]
    /\ verdict = [q \in Requests |-> "none"] /\ seen = [q \in Requests |-> 0]
    /\ todo = [q \in Requests |-> {}] /\ marked = [q \in Requests |-> {}]
    /\ answers = [c \in Ids |-> [wrong |-> 0, right |-> 0]]
    /\ started = 0 /\ faults = 0

-----------------------------------------------------------------------------
Exists(c) == c \in DOMAIN challenges
Open(c) == challenges[c].status = "open"
Enabled == method.state = "enabled"
Free(lock, q) == lock \in {None, q}

\* What q's next statement has to wait for.
Blocked(q) ==
    \/ pc[q] \in {"lockUser", "issue"} /\ ~Free(userLock, q)
    \/ pc[q] = "commit" /\ verdict[q] # "invalidate" /\ ~Free(userLock, q)
    \/ pc[q] = "lockChallenge" /\ ~Free(challengeLock[op[q].row], q)
    \/ pc[q] = "lockCeremony" /\ ~Free(ceremonyLock[op[q].ceremony], q)
    \/ pc[q] = "lockMethod" /\ ~Free(methodLock, q)
    \/ pc[q] = "sweep" /\ todo[q] # {} /\ \A c \in todo[q] : ~Free(challengeLock[c], q)

Goto(q, label) == pc' = [pc EXCEPT ![q] = label]

\* End of a transaction, with the request going on at label.
EndTransaction(q, label) ==
    /\ challengeLock' = [c \in Ids |-> IF challengeLock[c] = q THEN None ELSE challengeLock[c]]
    /\ ceremonyLock' = [e \in Ids |-> IF ceremonyLock[e] = q THEN None ELSE ceremonyLock[e]]
    /\ methodLock' = IF methodLock = q THEN None ELSE methodLock
    /\ userLock' = IF userLock = q THEN None ELSE userLock
    /\ verdict' = [verdict EXCEPT ![q] = "none"]
    /\ seen' = [seen EXCEPT ![q] = 0]
    /\ todo' = [todo EXCEPT ![q] = {}]
    /\ marked' = [marked EXCEPT ![q] = {}]
    /\ op' = [op EXCEPT ![q] = IF label = "idle" THEN NoOp ELSE @]
    /\ Goto(q, label)

Release(q) == EndTransaction(q, "idle")

Begin(q, request, label) ==
    /\ pc[q] = "idle"
    /\ started < MaxRequests
    /\ started' = started + 1
    /\ op' = [op EXCEPT ![q] = request]
    /\ Goto(q, label)
    /\ UNCHANGED <<dbVars, accountVars, timeVars, lockVars, workVars, historyVars, faults>>

-----------------------------------------------------------------------------
(* Codes. *)

\* _matching_counter: the code of a secret within the window.
Matching(f) ==
    f.type = "totp" /\ f.of = method.secret /\ f.n \in (clock - Window)..(clock + Window)

\* _consume_factor accepts f: a newer counter, or an unused code.
Consumable(f) ==
    \/ Matching(f) /\ f.n > method.last
    \/ f.type = "recovery" /\ <<f.of, f.n>> \in codes

\* What a person, or nobody in particular, may type in.
Inputs ==
    {Wrong} \cup [type : {"totp"}, of : 1..secrets, n : 1..MaxTime]
            \cup [type : {"recovery"}, of : 1..codeSets, n : 1..CodesPerSet]

\* Its effect on the method and the codes once committed.
Consumed(f) == IF f.type = "totp" THEN [method EXCEPT !.last = f.n] ELSE method
Unspent(f) == IF f.type = "recovery" THEN codes \ {<<f.of, f.n>>} ELSE codes
NewCodes == {codeSets + 1} \X (1..CodesPerSet)

-----------------------------------------------------------------------------
(* post_login, once the password is checked: the methods are read without  *)
(* a lock; with none of them the session is issued at once.                *)
Login(q) ==
    /\ active
    /\ Begin(q, NoOp, "readMethods")

ReadMethods(q) ==
    /\ pc[q] = "readMethods"
    /\ Goto(q, IF passkey \/ Enabled THEN "lockUser" ELSE "issue")
    /\ UNCHANGED <<worldVars, lockVars, op, workVars>>

\* Mutant: create_login_challenge does not lock the user.
LockUserSkipped(q) ==
    /\ pc[q] = "lockUser"
    /\ Goto(q, IF op[q].kind = "login" THEN "snapshot" ELSE "readEnabled")
    /\ UNCHANGED <<worldVars, lockVars, op, workVars>>

\* SELECT ... FOR UPDATE of the user, in create_login_challenge and
\* start_totp_setup.
LockUser(q) ==
    /\ pc[q] = "lockUser"
    /\ Free(userLock, q)
    /\ userLock' = q
    /\ Goto(q, IF op[q].kind = "login" THEN "snapshot" ELSE "readEnabled")
    /\ UNCHANGED <<worldVars, challengeLock, ceremonyLock, methodLock, op, workVars>>

\* Mutant: the UPDATE forgets used_at IS NULL.
MatchesUsed(kind, c) == kind = "login" => challenges[c].status # "invalid"

\* The challenges an UPDATE invalidates: the open ones for a new login,
\* every unused one when MFA is disabled.
Matches(kind, c) ==
    IF kind = "login" THEN Open(c) ELSE challenges[c].status # "used"

Snapshot(q) ==
    /\ pc[q] = "snapshot"
    /\ todo' = [todo EXCEPT ![q] = {c \in DOMAIN challenges : Matches(op[q].kind, c)}]
    /\ Goto(q, "sweep")
    /\ UNCHANGED <<worldVars, lockVars, op, verdict, seen, marked>>

\* One row of it: wait for the lock, look again.
SweepRow(q, c) ==
    /\ pc[q] = "sweep"
    /\ c \in todo[q]
    /\ Free(challengeLock[c], q)
    /\ challengeLock' = [challengeLock EXCEPT ![c] = q]
    /\ todo' = [todo EXCEPT ![q] = @ \ {c}]
    /\ marked' = [marked EXCEPT ![q] = IF Matches(op[q].kind, c) THEN @ \cup {c} ELSE @]
    /\ UNCHANGED <<worldVars, ceremonyLock, methodLock, userLock, pc, op, verdict, seen>>

SweepDone(q) ==
    /\ pc[q] = "sweep"
    /\ todo[q] = {}
    /\ Goto(q, "commit")
    /\ UNCHANGED <<worldVars, lockVars, op, workVars>>

-----------------------------------------------------------------------------
(* Answers to a challenge: a code, the start of a passkey ceremony, or its *)
(* assertion.  Tokens may come back at any time.                           *)
Verify(q, c, f) ==
    /\ Exists(c)
    /\ f \in Inputs
    /\ Begin(q, [NoOp EXCEPT !.kind = "verify", !.row = c, !.factor = f], "lockChallenge")

MfaOptions(q, c) ==
    /\ Exists(c)
    /\ Len(ceremonies) < MaxRows
    /\ Begin(q, [NoOp EXCEPT !.kind = "options", !.row = c], "lockChallenge")

VerifyMfa(q, c, e) ==
    /\ Exists(c) /\ e \in DOMAIN ceremonies
    /\ Begin(q, [NoOp EXCEPT !.kind = "passkey", !.row = c, !.ceremony = e], "lockChallenge")

\* The challenge may still be answered.
Answerable(c) ==
    Open(c) /\ <<"challenge", c>> \notin overdue /\ challenges[c].attempts < MaxAttempts

\* Mutant: the challenge is read without FOR UPDATE.
LockChallengeUnlocked(q) ==
    LET c == op[q].row IN
    /\ pc[q] = "lockChallenge"
    /\ \/ ~Answerable(c) /\ Release(q)
       \/ /\ Answerable(c)
          /\ seen' = [seen EXCEPT ![q] = challenges[c].attempts]
          /\ Goto(q, CASE op[q].kind = "verify" -> "lockMethod"
                       [] op[q].kind = "options" -> "commit"
                       [] OTHER -> "lockCeremony")
          /\ UNCHANGED <<op, lockVars, verdict, todo, marked>>
    /\ UNCHANGED worldVars

\* SELECT ... FOR UPDATE and the checks on it.  Only verify_login_challenge
\* looks at attempt_count, and only it writes the invalidation back.
LockChallenge(q) ==
    LET c == op[q].row
        kind == op[q].kind
        fresh == IF kind = "verify" THEN Answerable(c)
                 ELSE Open(c) /\ <<"challenge", c>> \notin overdue
    IN
    /\ pc[q] = "lockChallenge"
    /\ Free(challengeLock[c], q)
    /\ \/ /\ ~Open(c) \/ (~fresh /\ kind # "verify") \/ (kind = "options" /\ ~passkey)
          /\ Release(q)
       \/ /\ Open(c) /\ (fresh \/ kind = "verify") /\ (kind = "options" => passkey)
          /\ challengeLock' = [challengeLock EXCEPT ![c] = q]
          /\ seen' = [seen EXCEPT ![q] = challenges[c].attempts]
          /\ verdict' = [verdict EXCEPT ![q] = IF fresh THEN "none" ELSE "invalidate"]
          /\ Goto(q, CASE ~fresh \/ kind = "options" -> "commit"
                       [] fresh /\ kind = "verify" -> "lockMethod"
                       [] OTHER -> "lockCeremony")
          /\ UNCHANGED <<ceremonyLock, methodLock, userLock, op, todo, marked>>
    /\ UNCHANGED worldVars

\* _locked_ceremony, its binding to the challenge, and the assertion: the
\* authenticator's signature is good or not.
LockCeremony(q) ==
    LET e == op[q].ceremony
        Locked(outcome) ==
            /\ ceremonyLock' = [ceremonyLock EXCEPT ![e] = q]
            /\ verdict' = [verdict EXCEPT ![q] = outcome]
            /\ Goto(q, "commit")
            /\ UNCHANGED <<challengeLock, methodLock, userLock, op, seen, todo, marked>>
        bound == ceremonies[e].challenge = op[q].row
    IN
    /\ pc[q] = "lockCeremony"
    /\ Free(ceremonyLock[e], q)
    /\ \/ ceremonies[e].status # "open" /\ Release(q)
       \/ ceremonies[e].status = "open" /\ <<"ceremony", e>> \in overdue /\ Locked("invalidate")
       \/ /\ ceremonies[e].status = "open" /\ <<"ceremony", e>> \notin overdue
          /\ \/ (~bound \/ ~active) /\ Release(q)
             \/ bound /\ Locked("reject")
             \/ bound /\ active /\ Locked("accept")
    /\ UNCHANGED worldVars

-----------------------------------------------------------------------------
(* Enrolment and its end: an access token of any family issued so far.     *)
Signed(f) == active /\ f \in 1..families

StartTotpSetup(q, f) ==
    /\ Signed(f)
    /\ Begin(q, [NoOp EXCEPT !.kind = "setup", !.family = f], "lockUser")

\* enabled_method without a lock: MFA_ALREADY_ENABLED.
ReadEnabled(q) ==
    /\ pc[q] = "readEnabled"
    /\ \/ Enabled /\ Release(q)
       \/ ~Enabled /\ Goto(q, "lockMethod") /\ UNCHANGED <<lockVars, op, workVars>>
    /\ UNCHANGED worldVars

ConfirmTotpSetup(q, f, code) ==
    /\ Signed(f) /\ code \in Inputs
    /\ Begin(q, [NoOp EXCEPT !.kind = "confirm", !.family = f, !.factor = code], "lockMethod")

RegenerateRecoveryCodes(q, f, code) ==
    /\ Signed(f) /\ code \in Inputs
    /\ Begin(q, [NoOp EXCEPT !.kind = "regenerate", !.family = f, !.factor = code], "lockMethod")

DisableMfa(q, f, code) ==
    /\ Signed(f) /\ code \in Inputs
    /\ Begin(q, [NoOp EXCEPT !.kind = "disable", !.family = f, !.factor = code], "lockMethod")

\* What the checks under the method's lock decide; "none" ends the request.
Decision(q) ==
    LET f == op[q].factor IN
    CASE op[q].kind = "setup" -> "accept"
      [] op[q].kind = "confirm" ->
           IF method.state = "pending" /\ <<"setup", 0>> \notin overdue /\ Matching(f)
           THEN "accept" ELSE "none"
      [] op[q].kind = "verify" ->
           IF ~Enabled \/ ~active THEN "invalidate"
           ELSE IF Consumable(f) THEN "accept" ELSE "reject"
      [] OTHER -> IF Enabled /\ Consumable(f) THEN "accept" ELSE "none"

\* Mutant: enabled_method(lock=True) forgets its FOR UPDATE.
LockMethodUnlocked(q) ==
    /\ pc[q] = "lockMethod"
    /\ \/ Decision(q) = "none" /\ Release(q)
       \/ /\ Decision(q) # "none"
          /\ verdict' = [verdict EXCEPT ![q] = Decision(q)]
          /\ Goto(q, IF op[q].kind = "disable" THEN "snapshot" ELSE "commit")
          /\ UNCHANGED <<lockVars, op, seen, todo, marked>>
    /\ UNCHANGED worldVars

\* The method FOR UPDATE (a row that is not there is not locked), the
\* checks, and the factor consumed in this transaction.
LockMethod(q) ==
    /\ pc[q] = "lockMethod"
    /\ Free(methodLock, q)
    /\ \/ Decision(q) = "none" /\ Release(q)
       \/ /\ Decision(q) # "none"
          /\ methodLock' = IF method.state = "absent" THEN methodLock ELSE q
          /\ verdict' = [verdict EXCEPT ![q] = Decision(q)]
          /\ Goto(q, IF op[q].kind = "disable" THEN "snapshot" ELSE "commit")
          /\ UNCHANGED <<challengeLock, ceremonyLock, userLock, op, seen, todo, marked>>
    /\ UNCHANGED worldVars

-----------------------------------------------------------------------------
\* Mutant: recovery codes and audit entries without their foreign key.
CommittingUnreferenced(q, kinds, outcomes) ==
    /\ pc[q] = "commit"
    /\ op[q].kind \in kinds
    /\ verdict[q] \in outcomes

(* Commits.  All but the bare invalidations flush a row that refers to the *)
(* user, so they wait for whoever holds it FOR UPDATE.                     *)
Committing(q, kinds, outcomes) ==
    /\ pc[q] = "commit"
    /\ op[q].kind \in kinds
    /\ verdict[q] \in outcomes
    /\ Free(userLock, q)

\* Mutant: a status the table does not know.
InvalidatedExpired(c) == [challenges EXCEPT ![c].status = "expired"]

Invalidated(c) == [challenges EXCEPT ![c].status = "invalid"]

\* The new challenge replaces the open ones.
CommitChallenge(q) ==
    /\ Committing(q, {"login"}, {"none"})
    /\ Len(challenges) < MaxRows
    /\ challenges' = Append([c \in DOMAIN challenges |->
                               IF c \in marked[q] THEN [challenges[c] EXCEPT !.status = "invalid"]
                               ELSE challenges[c]],
                            [status |-> "open", attempts |-> 0])
    /\ Release(q)
    /\ UNCHANGED <<ceremonies, method, codes, codeSets, secrets, accountVars, timeVars,
                   historyVars, boundVars>>

\* A wrong code is counted; the last allowed one ends the challenge.
CommitRejected(q) ==
    LET c == op[q].row
        count == seen[q] + 1
    IN
    /\ Committing(q, {"verify"}, {"reject"})
    /\ challenges' = [challenges EXCEPT ![c].attempts = count,
                        ![c].status = IF count >= MaxAttempts THEN "invalid" ELSE @]
    /\ answers' = [answers EXCEPT ![c].wrong = @ + 1]
    /\ Release(q)
    /\ UNCHANGED <<ceremonies, method, codes, codeSets, secrets, accountVars, timeVars,
                   accepted, enrolled, boundVars>>

\* An expired or exhausted challenge, one whose account lost its method or
\* was disabled, or an expired ceremony: nothing refers to the user here.
CommitInvalid(q) ==
    /\ pc[q] = "commit"
    /\ verdict[q] = "invalidate"
    /\ \/ /\ op[q].kind = "verify"
          /\ challenges' = Invalidated(op[q].row)
          /\ UNCHANGED ceremonies
       \/ /\ op[q].kind = "passkey"
          /\ ceremonies' = [ceremonies EXCEPT ![op[q].ceremony].status = "invalid"]
          /\ UNCHANGED challenges
    /\ Release(q)
    /\ UNCHANGED <<method, codes, codeSets, secrets, accountVars, timeVars, historyVars,
                   boundVars>>

\* The login is complete; issue_session follows in its own transaction.
CommitVerified(q) ==
    LET c == op[q].row IN
    /\ Committing(q, {"verify"}, {"accept"})
    /\ challenges' = [challenges EXCEPT ![c].status = "used"]
    /\ method' = Consumed(op[q].factor)
    /\ codes' = Unspent(op[q].factor)
    /\ accepted' = Append(accepted, op[q].factor)
    /\ answers' = [answers EXCEPT ![c].right = @ + 1]
    /\ EndTransaction(q, "issue")
    /\ UNCHANGED <<ceremonies, codeSets, secrets, accountVars, timeVars, enrolled, boundVars>>

CommitCeremony(q) ==
    /\ Committing(q, {"options"}, {"none"})
    /\ Len(ceremonies) < MaxRows
    /\ ceremonies' = Append(ceremonies, [challenge |-> op[q].row, status |-> "open"])
    /\ Release(q)
    /\ UNCHANGED <<challenges, method, codes, codeSets, secrets, accountVars, timeVars,
                   historyVars, boundVars>>

\* A refused assertion only counts in the ceremony's attempt_count, which
\* nothing reads.
CommitAssertionRejected(q) ==
    /\ Committing(q, {"passkey"}, {"reject"})
    /\ Release(q)
    /\ UNCHANGED worldVars

CommitAssertion(q) ==
    LET c == op[q].row IN
    /\ Committing(q, {"passkey"}, {"accept"})
    /\ challenges' = [challenges EXCEPT ![c].status = "used"]
    /\ ceremonies' = [ceremonies EXCEPT ![op[q].ceremony].status = "used"]
    /\ answers' = [answers EXCEPT ![c].right = @ + 1]
    /\ EndTransaction(q, "issue")
    /\ UNCHANGED <<method, codes, codeSets, secrets, accountVars, timeVars, accepted, enrolled,
                   boundVars>>

\* start_totp_setup writes the secret and leaves is_enabled as it is.
CommitSetup(q) ==
    /\ Committing(q, {"setup"}, {"accept"})
    /\ secrets' = secrets + 1
    /\ method' = [method EXCEPT !.secret = secrets + 1, !.last = 0,
                    !.state = IF @ = "absent" THEN "pending" ELSE @]
    /\ overdue' = overdue \ {<<"setup", 0>>}
    /\ Release(q)
    /\ UNCHANGED <<challenges, ceremonies, codes, codeSets, accountVars, clock, ticks,
                   historyVars, boundVars>>

\* confirm_totp_setup: the method is on and has fresh recovery codes.
CommitConfirm(q) ==
    /\ Committing(q, {"confirm"}, {"accept"})
    /\ method' = [method EXCEPT !.state = "enabled", !.last = op[q].factor.n,
                    !.confirmed = op[q].factor.of]
    /\ codes' = NewCodes
    /\ codeSets' = codeSets + 1
    /\ accepted' = Append(accepted, op[q].factor)
    /\ EndTransaction(q, "revokeOthers")
    /\ UNCHANGED <<challenges, ceremonies, secrets, accountVars, timeVars, answers, enrolled,
                   boundVars>>

CommitRegenerate(q) ==
    /\ Committing(q, {"regenerate"}, {"accept"})
    /\ method' = Consumed(op[q].factor)
    /\ codes' = NewCodes
    /\ codeSets' = codeSets + 1
    /\ accepted' = Append(accepted, op[q].factor)
    /\ EndTransaction(q, "revokeOthers")
    /\ UNCHANGED <<challenges, ceremonies, secrets, accountVars, timeVars, answers, enrolled,
                   boundVars>>

\* disable_mfa: codes, method, challenges and sessions go together.
CommitDisable(q) ==
    /\ Committing(q, {"disable"}, {"accept"})
    /\ challenges' = [c \in DOMAIN challenges |->
                        IF c \in marked[q] THEN [challenges[c] EXCEPT !.status = "invalid"]
                        ELSE challenges[c]]
    /\ method' = NoMethod
    /\ codes' = {}
    /\ sessions' = {}
    /\ accepted' = Append(accepted, op[q].factor)
    /\ enrolled' = 0
    /\ Release(q)
    /\ UNCHANGED <<ceremonies, codeSets, secrets, passkey, active, second, families, timeVars,
                   answers, boundVars>>

-----------------------------------------------------------------------------
\* issue_session, a transaction of its own after the decision.
IssueSession(q) ==
    /\ pc[q] = "issue"
    /\ Free(userLock, q)
    /\ families' = families + 1
    /\ sessions' = sessions \cup {families + 1}
    /\ second' = IF op[q].kind = "login" THEN second ELSE second \cup {families + 1}
    /\ Release(q)
    /\ UNCHANGED <<dbVars, passkey, active, timeVars, historyVars, boundVars>>

\* revoke_other_sessions, also on its own.
RevokeOtherSessions(q) ==
    /\ pc[q] = "revokeOthers"
    /\ sessions' = sessions \cap {op[q].family}
    /\ enrolled' = IF op[q].kind = "confirm" /\ Enabled THEN op[q].family ELSE enrolled
    /\ Release(q)
    /\ UNCHANGED <<dbVars, passkey, active, second, families, timeVars, accepted, answers,
                   boundVars>>

\* deactivate_own_account needs the user FOR UPDATE.
Deactivate ==
    /\ active /\ userLock = None
    /\ active' = FALSE
    /\ sessions' = {}
    /\ UNCHANGED <<dbVars, passkey, second, families, timeVars, lockVars, pc, op, workVars,
                   historyVars, boundVars>>

\* The connection drops, possibly between two transactions of a request.
Abort(q) ==
    /\ pc[q] # "idle"
    /\ faults < MaxFaults
    /\ faults' = faults + 1
    /\ Release(q)
    /\ UNCHANGED <<dbVars, accountVars, timeVars, historyVars, started>>

\* A blocked statement is cancelled: deadlock victim or statement_timeout.
Cancel(q) ==
    /\ Blocked(q)
    /\ Release(q)
    /\ UNCHANGED worldVars

Tick == ticks < MaxTime /\ ticks' = ticks + 1

NextTimeStep ==
    /\ Tick
    /\ clock < MaxTime /\ clock' = clock + 1
    /\ UNCHANGED <<dbVars, accountVars, overdue, lockVars, pc, op, workVars, historyVars,
                   boundVars>>

\* A deadline passes: of an open challenge or ceremony, or of the setup.
DeadlinePasses ==
    /\ Tick
    /\ \E d \in ({"challenge"} \X {c \in DOMAIN challenges : Open(c)})
              \cup ({"ceremony"} \X {e \in DOMAIN ceremonies : ceremonies[e].status = "open"})
              \cup (IF method.state = "pending" THEN {<<"setup", 0>>} ELSE {}) :
         d \notin overdue /\ overdue' = overdue \cup {d}
    /\ UNCHANGED <<dbVars, accountVars, clock, lockVars, pc, op, workVars, historyVars, boundVars>>

Next ==
    \/ \E q \in Requests :
         \/ Login(q)
         \/ ReadMethods(q)
         \/ LockUser(q)
         \/ Snapshot(q)
         \/ \E c \in Ids : SweepRow(q, c)
         \/ SweepDone(q)
         \/ \E c \in Ids : \E f \in Inputs : Verify(q, c, f)
         \/ \E c \in Ids : MfaOptions(q, c)
         \/ \E c \in Ids, e \in Ids : VerifyMfa(q, c, e)
         \/ LockChallenge(q)
         \/ LockCeremony(q)
         \/ \E f \in 1..families : StartTotpSetup(q, f)
         \/ ReadEnabled(q)
         \/ \E f \in 1..families : \E code \in Inputs :
              \/ ConfirmTotpSetup(q, f, code)
              \/ RegenerateRecoveryCodes(q, f, code)
              \/ DisableMfa(q, f, code)
         \/ LockMethod(q)
         \/ CommitChallenge(q)
         \/ CommitRejected(q)
         \/ CommitInvalid(q)
         \/ CommitVerified(q)
         \/ CommitCeremony(q)
         \/ CommitAssertionRejected(q)
         \/ CommitAssertion(q)
         \/ CommitSetup(q)
         \/ CommitConfirm(q)
         \/ CommitRegenerate(q)
         \/ CommitDisable(q)
         \/ IssueSession(q)
         \/ RevokeOtherSessions(q)
         \/ Abort(q)
         \/ Cancel(q)
    \/ Deactivate
    \/ NextTimeStep
    \/ DeadlinePasses

Spec == Init /\ [][Next]_vars

-----------------------------------------------------------------------------
\* No TOTP counter and no recovery code authorises two requests, whichever
\* of login, confirmation, regeneration and disabling race for it.
FactorUsedOnce ==
    \A i, j \in DOMAIN accepted : accepted[i] = accepted[j] => i = j

\* One challenge completes at most one login, whether a code and a passkey
\* or two tabs answer it, and evaluates at most mfa_max_attempts wrong codes.
ChallengeBounded ==
    \A c \in Ids : answers[c].right <= 1 /\ answers[c].wrong <= MaxAttempts

\* However many logins start at once, at most one challenge can be answered.
OneOpenChallenge ==
    \A c, d \in DOMAIN challenges : Open(c) /\ Open(d) => c = d

\* The secret of an enabled method is one its owner confirmed with a code,
\* although start_totp_setup checks without a lock and then overwrites it:
\* the foreign key of the confirmation's rows makes the two exclude each
\* other.
EnabledIsConfirmed ==
    Enabled => method.secret = method.confirmed

\* A challenge that a later login, disabling MFA or too many wrong codes
\* invalidated is never completed by an answer still in flight, and a
\* completed one is never invalidated.
ClosedStaysClosed ==
    [][\A c \in DOMAIN challenges : ~Open(c) => challenges'[c].status = challenges[c].status]_vars

\* "Local and OAuth login do not issue a session until the configured second
\* factor succeeds"; "Enabling/changing MFA revokes other refresh sessions":
\* once enrolment has answered, the other live sessions have a second factor.
EnrolmentEndsOtherSessions ==
    enrolled # 0 => \A f \in sessions : f = enrolled \/ f \in second
=============================================================================
