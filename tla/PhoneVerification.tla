------------------------- MODULE PhoneVerification -------------------------
(***************************************************************************)
(* phoneVerification.ts with the three routes of routes/auth.ts that call  *)
(* it: codes for a number, the budget of guesses, and the proof that a     *)
(* registration consumes.  Each route is one synchronous call.             *)
(*                                                                         *)
(* A challenge is named by its place in the order of creation, the token   *)
(* of its proof by the challenge; a code is right or wrong.                *)
(***************************************************************************)
EXTENDS Integers, FiniteSets, Functions

CONSTANTS
    Numbers,            \* normalised phone numbers
    CodeTtl,            \* CODE_TTL_MS, like all times in ticks of the model
    VerifiedTtl,        \* VERIFIED_TTL_MS
    AttemptWindow,      \* ATTEMPT_WINDOW_MS
    AttemptsPerCode,    \* MAX_ATTEMPTS
    AttemptsPerPhone,   \* MAX_ATTEMPTS_PER_PHONE
    MaxLive,            \* MAX_LIVE_CHALLENGES_PER_PHONE
    MaxChallenges,      \* bound: challenges started
    MaxNow              \* bound: the clock

ASSUME VerificationAssumption ==
    /\ {CodeTtl, VerifiedTtl, AttemptWindow, AttemptsPerCode, AttemptsPerPhone, MaxLive}
         \subseteq Nat \ {0}
    /\ MaxChallenges \in Nat /\ MaxNow \in Nat

VARIABLES
    now,
    started,        \* the number each challenge is for, oldest first
    challenges,     \* those kept, with their expiry and attemptsLeft
    verified,       \* verifiedPhones: when the proof of a challenge expires
    budgets,        \* attemptBudgets
    guesses,        \* codes compared, for each number up to each time
    registered      \* the challenges a profile was asked for with, and how often

verificationVars == <<now, started, challenges, verified, budgets, guesses, registered>>

Times == 0 .. MaxNow
ChallengeIds == 1 .. MaxChallenges
NoBudget == [start |-> 0, used |-> 0]

VerificationInit ==
    /\ now = 0 /\ started = [c \in {} |-> 0]
    /\ challenges = [c \in {} |-> 0] /\ verified = [c \in {} |-> 0]
    /\ budgets = [n \in Numbers |-> NoBudget]
    /\ guesses = [n \in Numbers |-> [t \in Times |-> 0]]
    /\ registered = [c \in ChallengeIds |-> 0]

Without(f, c) == Restrict(f, DOMAIN f \ {c})
With(f, c, x) == [d \in DOMAIN f \cup {c} |-> IF d = c THEN x ELSE f[d]]

TimePasses ==
    /\ now < MaxNow /\ now' = now + 1
    /\ UNCHANGED <<started, challenges, verified, budgets, guesses, registered>>

----------------------------------------------------------------------------
(* POST /api/auth/phone/start *)

WindowOver(n) == now - budgets[n].start >= AttemptWindow

\* Mutant: a fresh challenge buys a fresh budget.
SweepBudgetsForgetting == [n \in Numbers |-> NoBudget]

SweepBudgets == [n \in Numbers |-> IF WindowOver(n) THEN NoBudget ELSE budgets[n]]

\* What has expired goes, and of the challenges of the number the oldest beyond MaxLive.
StartPhoneVerification(n) ==
    /\ Cardinality(DOMAIN started) < MaxChallenges
    /\ LET new == Cardinality(DOMAIN started) + 1
           kept == {c \in DOMAIN challenges : challenges[c].expires > now} \cup {new}
           asked == With(started, new, n)
           issued == With(challenges, new, [expires |-> now + CodeTtl, left |-> AttemptsPerCode])
           Newer(c) == {d \in kept : asked[d] = n /\ d > c}
       IN /\ started' = asked
          /\ challenges' = Restrict(issued,
                              {c \in kept : asked[c] = n => Cardinality(Newer(c)) < MaxLive})
    /\ verified' = Restrict(verified, {c \in DOMAIN verified : verified[c] > now})
    /\ budgets' = SweepBudgets
    /\ UNCHANGED <<now, guesses, registered>>

----------------------------------------------------------------------------
(* POST /api/auth/phone/verify *)

Valid(c) == c \in DOMAIN challenges /\ challenges[c].expires > now /\ challenges[c].left > 0

\* spendAttempt.
CanSpend(n) == budgets[n].used = 0 \/ WindowOver(n) \/ budgets[n].used < AttemptsPerPhone

SpendAttempt(n) ==
    /\ CanSpend(n)
    /\ LET b == budgets[n] IN
       budgets' = [budgets EXCEPT ![n] = IF b.used = 0 \/ WindowOver(n)
                                         THEN [start |-> now, used |-> 1]
                                         ELSE [b EXCEPT !.used = b.used + 1]]
    /\ guesses' = [guesses EXCEPT ![n] =
                     [t \in Times |-> guesses[n][t] + IF t < now THEN 0 ELSE 1]]

\* A challenge that is over is dropped; one whose number is out of guesses stays.
RefuseCode(c) ==
    /\ ~Valid(c) /\ challenges' = Without(challenges, c)
    /\ UNCHANGED <<now, started, verified, budgets, guesses, registered>>

WrongCode(c) ==
    /\ Valid(c) /\ SpendAttempt(started[c])
    /\ challenges' = IF challenges[c].left = 1 THEN Without(challenges, c)
                     ELSE [challenges EXCEPT ![c].left = @ - 1]
    /\ UNCHANGED <<now, started, verified, registered>>

RightCode(c) ==
    /\ Valid(c) /\ SpendAttempt(started[c])
    /\ challenges' = Without(challenges, c)
    /\ verified' = With(verified, c, now + VerifiedTtl)
    /\ UNCHANGED <<now, started, registered>>

----------------------------------------------------------------------------
(* POST /api/auth/register *)

\* Mutant: a proof stays until it expires.
ConsumeVerifiedPhoneKeeping(c) ==
    /\ c \in DOMAIN verified
    /\ registered' = IF verified[c] > now THEN [registered EXCEPT ![c] = @ + 1] ELSE registered
    /\ UNCHANGED <<now, started, challenges, verified, budgets, guesses>>

\* The proof is gone, in time or not.
ConsumeVerifiedPhone(c) ==
    /\ c \in DOMAIN verified
    /\ verified' = Without(verified, c)
    /\ registered' = IF verified[c] > now THEN [registered EXCEPT ![c] = @ + 1] ELSE registered
    /\ UNCHANGED <<now, started, challenges, budgets, guesses>>

VerificationNext ==
    \/ TimePasses
    \/ \E n \in Numbers : StartPhoneVerification(n)
    \/ \E c \in DOMAIN started : RefuseCode(c) \/ WrongCode(c) \/ RightCode(c)
                                 \/ ConsumeVerifiedPhone(c)

VerificationSpec == VerificationInit /\ [][VerificationNext]_verificationVars

----------------------------------------------------------------------------
(* Properties. *)

VerificationTypeOK ==
    /\ now \in Times /\ DOMAIN started \subseteq ChallengeIds
    /\ \A c \in DOMAIN started : started[c] \in Numbers
    /\ DOMAIN challenges \subseteq DOMAIN started /\ DOMAIN verified \subseteq DOMAIN started
    /\ \A c \in DOMAIN challenges :
         challenges[c] \in [expires : 1 .. MaxNow + CodeTtl, left : 1 .. AttemptsPerCode]
    /\ \A c \in DOMAIN verified : verified[c] \in 1 .. MaxNow + VerifiedTtl
    /\ budgets \in [Numbers -> [start : Times, used : 0 .. AttemptsPerPhone]]
    /\ guesses \in [Numbers -> [Times -> Nat]] /\ registered \in [ChallengeIds -> Nat]

GuessesBefore(n, t) == IF t = 0 THEN 0 ELSE guesses[n][t - 1]
GuessesWithin(n, from) == GuessesBefore(n, from + AttemptWindow) - GuessesBefore(n, from)

\* "A fresh challenge does not buy a fresh budget": however many codes are asked for, however
\* they expire, are crowded out or swept, the guesses at a number in any stretch of one window
\* are less than two budgets (the windows are fixed, so the end of one meets the next).  A
\* code that is guessed proves the number for one profile only.
GuessesAreBounded ==
    /\ \A n \in Numbers : \A from \in 0 .. MaxNow + 1 - AttemptWindow :
         GuessesWithin(n, from) < 2 * AttemptsPerPhone
    /\ \A c \in ChallengeIds : registered[c] <= 1 /\ ~(registered[c] = 1 /\ c \in DOMAIN challenges)
=============================================================================
