------------------------------ MODULE Chunker ------------------------------
(***************************************************************************)
(* chunker.py: LocalAgreement-2 and the commit policy of one direction.    *)
(*                                                                         *)
(* A word is a model value; its class is what the policy tells apart.      *)
(* Fillers are cut before anything else is done with a hypothesis: all     *)
(* they leave is whether a partial had any.  Time is counted in the        *)
(* thresholds of tick() it has passed.                                     *)
(***************************************************************************)
EXTENDS Integers, Sequences, SequencesExt

CONSTANTS
    Plain, FunctionWords,       \* words without punctuation after them
    Strong, Weak,               \* words before a strong, a weak boundary
    MinWords, WeakMinWords,     \* min_words, weak_boundary_min_words
    MaxWords                    \* bound: words of a hypothesis

ASSUME ChunkerAssumption == /\ MinWords \in Nat \ {0} /\ WeakMinWords \in Nat \ {0}
                            /\ MaxWords \in Nat

VARIABLES
    hyp,        \* _prev_words
    stable,     \* _stable
    committed,  \* _committed
    quiet,      \* time since _last_activity
    since,      \* time since _pending_since, which may be None
    spoken,     \* the words of this utterance committed so far
    ended       \* after a final: it, the words spoken and those stable when it came, and
                \* the words spoken in its utterance in the end

chunkerVars == <<hyp, stable, committed, quiet, since, spoken, ended>>

NotEnded == [final |-> <<>>, spoken |-> <<>>, stable |-> <<>>, said |-> <<>>]

Words == Plain \cup FunctionWords \cup Strong \cup Weak
Hypotheses == BoundedSeq(Words, MaxWords)

\* max_silence_ms < end_of_turn_ms < timeout_ms
MaxSilence == 1
EndOfTurn == 2
Timeout == 3
None == 0 - 1

ChunkerInit ==
    /\ hyp = <<>> /\ stable = <<>> /\ committed = 0 /\ quiet = 0 /\ since = None
    /\ spoken = <<>> /\ ended = NotEnded

----------------------------------------------------------------------------
(* What a call works on, and the words of the units it returns. *)

Now == [stable |-> stable, committed |-> committed, since |-> since, units |-> <<>>]
Pending(s) == SubSeq(s.stable, s.committed + 1, Len(s.stable))
Already == SubSeq(stable, 1, committed)

\* Only a longer hypothesis is taken; whether it starts with what was spoken is for
\* the caller to know.
ExtendStable(s, words) ==
    IF Len(words) <= Len(s.stable) THEN s
    ELSE [s EXCEPT !.stable = words, !.since = IF @ = None THEN 0 ELSE @]

Emit(s, count) ==
    LET after == s.committed + count IN
    [s EXCEPT !.committed = after,
        !.since = IF after < Len(s.stable) THEN 0 ELSE None,
        !.units = @ \o SubSeq(Pending(s), 1, count)]

EmitAll(s) == IF Pending(s) = <<>> THEN s ELSE Emit(s, Len(Pending(s)))

\* Where the policy may cut: places of the pending words.
StrongCuts(words) == {i \in DOMAIN words : words[i] \in Strong}
WeakCuts(words) == {i \in DOMAIN words : words[i] \in Weak /\ i >= WeakMinWords}

TryCommit(s) ==
    LET words == Pending(s) IN
    IF StrongCuts(words) # {} THEN Emit(s, Max(StrongCuts(words)))
    ELSE IF WeakCuts(words) # {} THEN Emit(s, Max(WeakCuts(words)))
    ELSE IF Len(words) >= MinWords /\ Last(words) \notin FunctionWords
         THEN EmitAll(s)
    ELSE s

\* The last strong boundary, the last weak one, a long rest: a fourth round would find
\* nothing.
Drain(s) == TryCommit(TryCommit(TryCommit(s)))

\* What a call of on_partial or tick leaves.
Leaves(s) ==
    /\ stable' = s.stable /\ committed' = s.committed /\ since' = s.since
    /\ spoken' = spoken \o s.units /\ ended' = NotEnded

----------------------------------------------------------------------------
(* The calls. *)

Cleared ==
    /\ hyp' = <<>> /\ stable' = <<>> /\ committed' = 0 /\ quiet' = 0 /\ since' = None
    /\ spoken' = <<>>

\* A new speech start.
Reset == Cleared /\ ended' = NotEnded

\* Two hypotheses that agree make words stable.  A partial in which only fillers are
\* new does not end the silence.
OnPartial ==
    \E words \in Hypotheses :
       LET agreed == LongestCommonPrefix({hyp, words})
           longer == Len(agreed) > Len(stable) /\ IsPrefix(stable, agreed)
       IN /\ hyp' = words
          /\ quiet' \in {0} \cup (IF words = hyp THEN {quiet} ELSE {})
          /\ Leaves(Drain(IF longer THEN ExtendStable(Now, agreed) ELSE Now))

\* A final that revises what was spoken keeps it, and adds what comes after; one that is
\* no longer than the stable words changes none of them.
OnFinal ==
    \E words \in Hypotheses :
       LET seen == IF IsPrefix(Already, words) THEN words
                   ELSE Already \o SubSeq(words, committed + 1, Len(words))
           s == EmitAll(ExtendStable(Now, seen))
       IN /\ Cleared
          /\ ended' = [final |-> words, spoken |-> spoken, stable |-> stable,
                       said |-> spoken \o s.units]

\* Mutant: what was spoken is not looked at.
AdoptAnyHypothesis == ExtendStable(Now, hyp)

\* Silence is confirmation, unless the provider revised what was spoken.
AdoptHypothesis == IF IsPrefix(Already, hyp) THEN ExtendStable(Now, hyp) ELSE Now

\* A pause ends a unit that looks whole, or a turn that is plainly over.
SilenceMayCommit(words) ==
    \/ Last(words) \in Strong
    \/ Last(words) \notin FunctionWords /\ (Len(words) >= MinWords \/ quiet >= EndOfTurn)

\* Mutant: no timeout.
ChunkerTickPatient ==
    LET silent == hyp # <<>> /\ quiet >= MaxSilence
        s == IF silent THEN AdoptHypothesis ELSE Now
    IN /\ UNCHANGED <<hyp, quiet>>
       /\ Leaves(IF silent /\ Pending(s) # <<>> /\ SilenceMayCommit(Pending(s))
                 THEN EmitAll(s) ELSE s)

ChunkerTick ==
    LET silent == hyp # <<>> /\ quiet >= MaxSilence
        s == IF silent THEN AdoptHypothesis ELSE Now
    IN /\ UNCHANGED <<hyp, quiet>>
       /\ Leaves(IF silent /\ Pending(s) # <<>> /\ SilenceMayCommit(Pending(s))
                 THEN EmitAll(s)
                 ELSE IF s.since >= Timeout THEN EmitAll(s)
                 ELSE s)

\* Ages grow together, and stop where nothing asks for more.
Elapse ==
    /\ hyp # <<>> \/ since # None
    /\ UNCHANGED <<hyp, stable, committed, spoken>> /\ ended' = NotEnded
    /\ quiet' = Min({quiet + 1, EndOfTurn})
    /\ since' = IF since = None THEN None ELSE Min({since + 1, Timeout})

ChunkerNext == OnPartial \/ OnFinal \/ ChunkerTick \/ Reset \/ Elapse

\* The ticker runs, and time passes.
ChunkerFairness == WF_chunkerVars(since = Timeout /\ ChunkerTick) /\ WF_chunkerVars(Elapse)

ChunkerSpec == ChunkerInit /\ [][ChunkerNext]_chunkerVars

----------------------------------------------------------------------------
(* Properties. *)

\* Every variable has its type, and no more is committed than is stable.
ChunkerTypeOK ==
    /\ {hyp, stable, spoken} \subseteq Hypotheses
    /\ ended \in [final : Hypotheses, spoken : Hypotheses, stable : Hypotheses, said : Hypotheses]
    /\ committed \in 0 .. Len(stable)
    /\ quiet \in 0 .. EndOfTurn /\ since \in {None} \cup 0 .. Timeout

\* What a final makes of the words of its utterance.
FinalIsSaid(e) ==
    /\ IsPrefix(e.spoken, e.said)
    /\ Len(e.final) > Len(e.stable) =>
         /\ Len(e.said) = Len(e.final)
         /\ \A i \in Len(e.spoken) + 1 .. Len(e.final) : e.said[i] = e.final[i]
    /\ Len(e.final) <= Len(e.stable) => e.said = e.stable

\* "spoken words cannot be un-spoken": what the listener was given is a prefix of the
\* stable words for as long as the utterance lasts, however the provider revises it, and
\* the end of the utterance starts with it.  A final longer than the stable words is said
\* word for word from where the listener was; one that is no longer is not heard: the
\* stable words are said as they are, though it has others in their places.
SpokenStands ==
    /\ spoken = Already
    /\ FinalIsSaid(ended)

\* A stable word is committed in the end, also when no final comes and it leaves the
\* phrase open; only a new speech start or a final ends the utterance before.
NoWordWaits ==
    LET Waits == committed < Len(stable)
    IN ChunkerFairness => (Waits ~> ~Waits)
=============================================================================
