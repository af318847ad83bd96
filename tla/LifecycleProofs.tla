-------------------------- MODULE LifecycleProofs --------------------------
(***************************************************************************)
(* Proofs about Lifecycle for chains of commands of every length, with any *)
(* flags and args, every configuration and every command line: the stages  *)
(* nest, and then the order of user code.                                  *)
(***************************************************************************)
EXTENDS Lifecycle, SequenceTheorems, WellFoundedInduction, TLAPS

\* The commands whose Action ran.
Acted == {k \in Level : Event("act", k, Self) \in Ran}

Descending == pc \in {"parse", "before", "beforeOptions", "trigger"}
Ascending == pc \in {"self", "after", "afterOptions"}

\* On the way down no command has acted, the commands around this one invoked
\* the next, and only flags of the chain down to here were given.  On the way
\* up one command acted; a command which is resumed remembers its sub-command.
Phase ==
  /\ Descending => /\ Acted = {}
                   /\ executed = 1 .. level - 1
                   /\ seen \subseteq UNION {FlagsOf(j) \cup ArgsOf(j) : j \in 1 .. level}
  /\ Ascending => /\ \E k \in Level : Acted = {k}
                  /\ 1 .. level - 1 \subseteq executed
  /\ pc = "self" => level \in executed

\* An Action belongs to the command it runs at.
OwnActions == \A e \in Ran : e.ev = "act" => e = Event("act", e.at, e.opt)

IInv == TypeOK /\ Phase /\ OwnActions /\ NarrowedFlagsRespected

RangeOf(s) == {s[n] : n \in DOMAIN s}

\* The Actions which ran.
Actions == {e \in Ran : e.ev = "act"}

\* User code among which is no Action.
Quiet == {s \in Seq(UserCode) : \A n \in DOMAIN s : s[n].ev # "act"}

\* A piece of execution which calls these pieces of user code.
Calls(events) == \/ ran' = ran \o events
                 \/ \E n \in DOMAIN events : ran' = ran \o SubSeq(events, 1, n)

-----------------------------------------------------------------------------
(* Facts about the operators *)

\* What a piece of execution appends to ran: all of its events, or those up to
\* the one which returned an error.
LEMMA Appended ==
  ASSUME NEW s \in Seq(UserCode), NEW t \in Seq(UserCode), NEW u,
         u = s \o t \/ \E n \in DOMAIN t : u = s \o SubSeq(t, 1, n)
  PROVE  /\ u \in Seq(UserCode)
         /\ RangeOf(s) \subseteq RangeOf(u)
         /\ RangeOf(u) \subseteq RangeOf(s) \cup RangeOf(t)
<1>1. ASSUME NEW v \in Seq(UserCode)
      PROVE  /\ s \o v \in Seq(UserCode)
             /\ RangeOf(s) \subseteq RangeOf(s \o v)
             /\ RangeOf(s \o v) \subseteq RangeOf(s) \cup RangeOf(v)
  <2>1. /\ s \o v \in Seq(UserCode)
        /\ DOMAIN (s \o v) = 1 .. Len(s) + Len(v)
        /\ DOMAIN s = 1 .. Len(s) /\ DOMAIN v = 1 .. Len(v)
        /\ Len(s) \in Nat /\ Len(v) \in Nat
    OBVIOUS
  <2>2. \A n \in 1 .. Len(s) + Len(v) :
          (s \o v)[n] = IF n <= Len(s) THEN s[n] ELSE v[n - Len(s)]
    OBVIOUS
  <2>3. \A n \in DOMAIN s : n \in DOMAIN (s \o v) /\ (s \o v)[n] = s[n]
    BY <2>1, <2>2
  <2>4. ASSUME NEW n \in DOMAIN (s \o v)
        PROVE  (s \o v)[n] \in RangeOf(s) \cup RangeOf(v)
    <3>1. CASE n <= Len(s)
      BY <3>1, <2>1, <2>2 DEF RangeOf
    <3>2. CASE ~(n <= Len(s))
      <4>1. n - Len(s) \in DOMAIN v /\ (s \o v)[n] = v[n - Len(s)]
        BY <3>2, <2>1, <2>2
      <4> QED BY <4>1 DEF RangeOf
    <3> QED BY <3>1, <3>2
  <2> QED BY <2>1, <2>3, <2>4 DEF RangeOf
<1>2. CASE u = s \o t
  BY <1>1, <1>2
<1>3. ASSUME NEW n \in DOMAIN t, u = s \o SubSeq(t, 1, n)
      PROVE  /\ u \in Seq(UserCode)
             /\ RangeOf(s) \subseteq RangeOf(u)
             /\ RangeOf(u) \subseteq RangeOf(s) \cup RangeOf(t)
  <2>1. /\ DOMAIN t = 1 .. Len(t) /\ Len(t) \in Nat /\ n \in 1 .. Len(t)
    BY <1>3
  <2>2. /\ SubSeq(t, 1, n) \in Seq(UserCode)
        /\ DOMAIN SubSeq(t, 1, n) = 1 .. n
        /\ \A m \in 1 .. n : SubSeq(t, 1, n)[m] = t[m]
    BY <2>1
  <2>3. RangeOf(SubSeq(t, 1, n)) \subseteq RangeOf(t)
    BY <2>1, <2>2 DEF RangeOf
  <2> QED BY <1>1, <1>3, <2>2, <2>3
<1> QED BY <1>2, <1>3

\* Hooks and single events are user code, and hooks never act.
LEMMA EventsTyped ==
  ASSUME NEW at \in Level, NEW opt \in Target
  PROVE  /\ \A ev \in {"before", "act", "after"} : Event(ev, at, opt) \in UserCode
         /\ \A from \in 0 .. Depth :
              /\ Bubble(from, at, opt) \in Seq(UserCode)
              /\ \A n \in DOMAIN Bubble(from, at, opt) :
                   Bubble(from, at, opt)[n].ev = "hookBefore"
              /\ Tunnel(from, at, opt) \in Seq(UserCode)
              /\ \A n \in DOMAIN Tunnel(from, at, opt) :
                   Tunnel(from, at, opt)[n].ev = "hookAfter"
         /\ Hook("hookBefore", at, at, opt) \in UserCode
<1>1. /\ \A ev \in {"before", "act", "after"} : Event(ev, at, opt) \in UserCode
      /\ Hook("hookBefore", at, at, opt) \in UserCode
  BY DEF Event, UserCode, Hook
<1>2. ASSUME NEW from \in 0 .. Depth
      PROVE  /\ Bubble(from, at, opt) \in Seq(UserCode)
             /\ \A n \in DOMAIN Bubble(from, at, opt) :
                  Bubble(from, at, opt)[n].ev = "hookBefore"
             /\ Tunnel(from, at, opt) \in Seq(UserCode)
             /\ \A n \in DOMAIN Tunnel(from, at, opt) :
                  Tunnel(from, at, opt)[n].ev = "hookAfter"
  <2>1. from \in Nat /\ \A n \in 1 .. from : n \in Level /\ from + 1 - n \in Level
    BY DepthAssumption DEF Level
  <2>2. \A n \in 1 .. from : /\ Hook("hookBefore", from + 1 - n, at, opt) \in UserCode
                             /\ Hook("hookAfter", n, at, opt) \in UserCode
    BY <2>1 DEF Hook, UserCode
  <2>3. /\ Bubble(from, at, opt) \in [1 .. from -> UserCode]
        /\ Tunnel(from, at, opt) \in [1 .. from -> UserCode]
    BY <2>2 DEF Bubble, Tunnel
  <2>4. /\ Bubble(from, at, opt) \in Seq(UserCode)
        /\ Tunnel(from, at, opt) \in Seq(UserCode)
    BY <2>1, <2>3, IsASeq
  <2>5. \A n \in 1 .. from : /\ Bubble(from, at, opt)[n].ev = "hookBefore"
                             /\ Tunnel(from, at, opt)[n].ev = "hookAfter"
    BY DEF Bubble, Tunnel, Hook
  <2> QED BY <2>3, <2>4, <2>5
<1> QED BY <1>1, <1>2

\* Pieces of user code without Actions are put together from these.
LEMMA QuietCode ==
  /\ \A s, t \in Quiet : s \o t \in Quiet
  /\ \A k \in Level, opt \in Target :
       /\ <<Event("before", k, opt)>> \in Quiet
       /\ <<Event("after", k, opt)>> \in Quiet
       /\ <<Hook("hookBefore", k, k, opt), Event("before", k, opt)>> \in Quiet
       /\ Bubble(k, k, opt) \in Quiet /\ Bubble(k - 1, k, opt) \in Quiet
       /\ Tunnel(k, k, opt) \in Quiet
<1>1. ASSUME NEW s \in Quiet, NEW t \in Quiet PROVE s \o t \in Quiet
  <2>1. s \in Seq(UserCode) /\ t \in Seq(UserCode)
    BY DEF Quiet
  <2>2. s \o t \in Seq(UserCode)
    BY <2>1
  <2>3. \A n \in DOMAIN (s \o t) : (s \o t)[n].ev # "act"
    <3>1. \A n \in DOMAIN (s \o t) :
            \/ n \in DOMAIN s /\ (s \o t)[n] = s[n]
            \/ n - Len(s) \in DOMAIN t /\ (s \o t)[n] = t[n - Len(s)]
      BY <2>1
    <3> QED BY <3>1 DEF Quiet
  <2> QED BY <2>2, <2>3 DEF Quiet
<1>2. ASSUME NEW x \in UserCode, x.ev # "act" PROVE <<x>> \in Quiet
  BY <1>2 DEF Quiet
<1>3. ASSUME NEW k \in Level, NEW opt \in Target
      PROVE  /\ <<Event("before", k, opt)>> \in Quiet
             /\ <<Event("after", k, opt)>> \in Quiet
             /\ <<Hook("hookBefore", k, k, opt)>> \in Quiet
  <2>1. /\ Event("before", k, opt) \in UserCode /\ Event("after", k, opt) \in UserCode
        /\ Hook("hookBefore", k, k, opt) \in UserCode
    BY EventsTyped
  <2>2. /\ Event("before", k, opt).ev # "act" /\ Event("after", k, opt).ev # "act"
        /\ Hook("hookBefore", k, k, opt).ev # "act"
    BY DEF Event, Hook
  <2> QED BY <1>2, <2>1, <2>2
<1>4. ASSUME NEW k \in Level, NEW opt \in Target
      PROVE  <<Hook("hookBefore", k, k, opt), Event("before", k, opt)>> \in Quiet
  <2>1. <<Hook("hookBefore", k, k, opt), Event("before", k, opt)>>
          = <<Hook("hookBefore", k, k, opt)>> \o <<Event("before", k, opt)>>
    OBVIOUS
  <2> QED BY <1>1, <1>3, <2>1
<1>5. ASSUME NEW k \in Level, NEW opt \in Target
      PROVE  /\ Bubble(k, k, opt) \in Quiet /\ Bubble(k - 1, k, opt) \in Quiet
             /\ Tunnel(k, k, opt) \in Quiet
  <2>1. k \in 0 .. Depth /\ k - 1 \in 0 .. Depth
    BY DepthAssumption DEF Level
  <2> QED BY <2>1, EventsTyped DEF Quiet
<1> QED BY <1>1, <1>3, <1>4, <1>5

\* Where options come from.
LEMMA OptionsTyped ==
  ASSUME NEW k \in Level
  PROVE  /\ FlagsOf(k) \subseteq Flag /\ FlagsOf(k) \subseteq Option
         /\ ArgsOf(k) \subseteq Option
         /\ LocalOptions(k) \in Seq(Option)
         /\ k < Depth => CommandArg(k) \in Option
         /\ k = Depth => CommandArg(k) = Self
         /\ Self \notin Option
<1>1. FlagsOf(k) \subseteq Flag /\ Flag \subseteq Option /\ ArgsOf(k) \subseteq Option
  BY DEF Flag, Option
<1>2. /\ LocalFlags[k] \in Seq(Flag) /\ LocalArgs[k] \in Seq(Option)
      /\ k < Depth => LocalArgs[k] # <<>>
      /\ Self \notin Option
  BY OptionAssumption
<1>3. LocalFlags[k] \in Seq(Option)
  BY <1>1, <1>2
<1>4. LocalOptions(k) \in Seq(Option)
  BY <1>2, <1>3 DEF LocalOptions
<1>5. k < Depth => CommandArg(k) \in Option
  BY <1>2 DEF CommandArg
<1>6. k = Depth => CommandArg(k) = Self
  BY DepthAssumption DEF CommandArg, Level
<1> QED BY <1>1, <1>2, <1>4, <1>5, <1>6

-----------------------------------------------------------------------------
(* What a step appends and what follows from it *)

\* Pieces of user code which are no Actions leave the Actions as they are.
LEMMA QuietCalls ==
  ASSUME ran \in Seq(UserCode), NEW t \in Seq(UserCode),
         \A n \in DOMAIN t : t[n].ev # "act", Calls(t)
  PROVE  ran' \in Seq(UserCode) /\ Actions' = Actions
<1>1. /\ ran' \in Seq(UserCode)
      /\ RangeOf(ran) \subseteq RangeOf(ran')
      /\ RangeOf(ran') \subseteq RangeOf(ran) \cup RangeOf(t)
  BY Appended DEF Calls
<1>2. \A e \in RangeOf(t) : e.ev # "act"
  BY DEF RangeOf
<1>3. Ran = RangeOf(ran) /\ Ran' = RangeOf(ran')
  BY DEF Ran, RangeOf
<1> QED BY <1>1, <1>2, <1>3 DEF Actions

\* Calling an Action adds it to the Actions, whether or not it fails.
LEMMA ActionCalled ==
  ASSUME ran \in Seq(UserCode), NEW e \in UserCode, e.ev = "act", Calls(<<e>>)
  PROVE  ran' \in Seq(UserCode) /\ Actions' = Actions \cup {e}
<1>1. <<e>> \in Seq(UserCode) /\ DOMAIN <<e>> = {1} /\ <<e>>[1] = e
  OBVIOUS
<1>2. /\ SubSeq(<<e>>, 1, 1) \in Seq(UserCode)
      /\ Len(SubSeq(<<e>>, 1, 1)) = 1 /\ SubSeq(<<e>>, 1, 1)[1] = e
  BY <1>1
<1>3. ran' = ran \o <<e>> \/ ran' = ran \o SubSeq(<<e>>, 1, 1)
  BY <1>1 DEF Calls
<1>4. /\ ran' \in Seq(UserCode)
      /\ RangeOf(ran) \subseteq RangeOf(ran')
      /\ RangeOf(ran') \subseteq RangeOf(ran) \cup RangeOf(<<e>>)
  BY <1>1, <1>3, Appended
<1>5. RangeOf(<<e>>) = {e}
  BY <1>1 DEF RangeOf
<1>6. e \in RangeOf(ran')
  <2>1. Len(ran) + 1 \in DOMAIN ran' /\ ran'[Len(ran) + 1] = e
    BY <1>1, <1>2, <1>3
  <2> QED BY <2>1 DEF RangeOf
<1>7. Ran = RangeOf(ran) /\ Ran' = RangeOf(ran')
  BY DEF Ran, RangeOf
<1> QED BY <1>4, <1>5, <1>6, <1>7 DEF Actions

\* The commands which acted depend on the Actions only.
LEMMA ActedByActions ==
  /\ Acted = {k \in Level : Event("act", k, Self) \in Actions}
  /\ Acted' = {k \in Level : Event("act", k, Self) \in Actions'}
BY DEF Acted, Actions, Event

\* The level which CommandNesting knows as the one that acted.
LEMMA ActedBar ==
  /\ Acted = {} => actedBar = 0
  /\ Acted' = {} => actedBar' = 0
  /\ \A k \in Level : Acted = {k} => actedBar = k
  /\ \A k \in Level : Acted' = {k} => actedBar' = k
<1>1. /\ Acted = {} => actedBar = 0
      /\ Acted' = {} => actedBar' = 0
  BY DEF Acted, actedBar
<1>2. ASSUME NEW k \in Level, Acted = {k} PROVE actedBar = k
  <2>1. \A j \in Level : Event("act", j, Self) \in Ran <=> j = k
    BY <1>2 DEF Acted
  <2> QED BY <2>1 DEF actedBar
<1>3. ASSUME NEW k \in Level, Acted' = {k} PROVE actedBar' = k
  <2>1. \A j \in Level : Event("act", j, Self) \in Ran' <=> j = k
    BY <1>3 DEF Acted
  <2> QED BY <2>1 DEF actedBar
<1> QED BY <1>1, <1>2, <1>3

\* When a step calls no Action, the commands which acted stay the same, and
\* narrowed flags are respected if they were: options are only seen while no
\* command acted.
LEMMA SameActions ==
  ASSUME IInv, UNCHANGED case, Actions' = Actions, UNCHANGED seen \/ Acted = {}
  PROVE  Acted' = Acted /\ OwnActions' /\ NarrowedFlagsRespected'
<1>1. /\ \A e : e \in Actions <=> e \in Ran /\ e.ev = "act"
      /\ \A e : e \in Actions' <=> e \in Ran' /\ e.ev = "act"
  BY DEF Actions
<1>2. Acted' = Acted
  BY ActedByActions
<1>3. OwnActions'
  BY <1>1 DEF IInv, OwnActions
<1>4. CASE UNCHANGED seen
  BY <1>1, <1>2, <1>3, <1>4 DEF IInv, NarrowedFlagsRespected
<1>5. CASE Acted = {}
  <2>1. \A e \in Actions : e.at \in Level
    <3>1. ran \in Seq(UserCode)
      BY DEF IInv, TypeOK
    <3>2. Ran \subseteq UserCode
      BY <3>1 DEF Ran
    <3> QED BY <3>2 DEF Actions, UserCode
  <2>2. \A e \in Actions : e.opt # Self
    BY <1>1, <1>5, <2>1 DEF Acted, IInv, OwnActions
  <2> QED BY <1>1, <1>2, <1>3, <2>2 DEF IInv, NarrowedFlagsRespected
<1> QED BY <1>4, <1>5

AbstractStep == [Nesting!Next]_(Nesting!vars)

\* The loops: user code which is no command's Action ran, or the step only
\* moves on, and Execute stays on its way down or on its way up.
LEMMA LoopStep ==
  ASSUME IInv, UNCHANGED <<case, level, seen, executed>>,
         panicked' \in SUBSET Level, i' \in Nat \ {0},
         ran' \in Seq(UserCode), OwnActions', NarrowedFlagsRespected',
         Acted' = Acted,
         \/ /\ pc \in {"before", "beforeOptions", "trigger"}
            /\ pc' \in {"before", "beforeOptions", "trigger"}
         \/ /\ pc \in {"self", "after", "afterOptions"}
            /\ pc' \in {"after", "afterOptions"}
  PROVE  IInv' /\ AbstractStep
<1>1. TypeOK'
  BY DEF IInv, TypeOK
<1>2. Phase'
  BY DEF IInv, Phase, Descending, Ascending
<1>3. UNCHANGED <<openBar, verdictBar>>
  BY DEF openBar, verdictBar
<1>4. UNCHANGED actedBar
  BY ActedBar DEF IInv, Phase, Descending, Ascending
<1> QED BY <1>1, <1>2, <1>3, <1>4 DEF IInv, AbstractStep, Nesting!vars

\* An error ends the run; the command which failed may have acted.
LEMMA FailStep ==
  ASSUME IInv, UNCHANGED <<case, level, i, seen, executed>>,
         panicked' \in SUBSET Level,
         ran' \in Seq(UserCode), OwnActions', NarrowedFlagsRespected',
         pc \notin {"done", "failed"}, pc' = "failed",
         \/ Acted' = Acted
         \/ pc = "trigger" /\ Acted' = Acted \cup {level}
  PROVE  IInv' /\ AbstractStep
<1>1. TypeOK'
  BY DEF IInv, TypeOK
<1>2. Phase'
  BY DEF Phase, Descending, Ascending
<1>3. /\ verdictBar = "running" /\ verdictBar' = "failed" /\ openBar' = 0
      /\ pc = "trigger" => openBar = level
  BY DEF openBar, verdictBar
<1>4. Descending \/ Ascending
  BY DEF IInv, TypeOK, Descending, Ascending
<1>5. level \in Level /\ Level \subseteq Int
  BY DEF IInv, TypeOK, Level
<1>6. actedBar' \in {actedBar} \cup IF actedBar = 0 THEN {openBar} ELSE {}
  <2>1. CASE Acted' = Acted
    BY <1>4, <2>1, ActedBar DEF IInv, Phase
  <2>2. CASE pc = "trigger" /\ Acted' = Acted \cup {level}
    <3>1. Acted = {}
      BY <2>2 DEF IInv, Phase, Descending
    <3> QED BY <1>3, <1>5, <2>2, <3>1, ActedBar
  <2> QED BY <2>1, <2>2
<1>7. Nesting!Abandon
  BY <1>3, <1>6 DEF Nesting!Abandon
<1> QED BY <1>1, <1>2, <1>7 DEF IInv, AbstractStep, Nesting!Next

-----------------------------------------------------------------------------
(* The actions *)

\* Initially, and for the abstract specification too.
LEMMA Initially ==
  ASSUME Init
  PROVE  IInv /\ Nesting!Init
<1>1. 1 \in Level /\ 1 .. level - 1 = {}
  BY DepthAssumption DEF Init, Level
<1>2. ran \in Seq(UserCode) /\ Ran = {}
  BY DEF Init, Ran
<1>3. TypeOK
  BY <1>1, <1>2, CaseAssumption DEF Init, TypeOK
<1>4. Acted = {}
  BY <1>2 DEF Acted
<1>5. Phase
  BY <1>1, <1>4 DEF Init, Phase, Descending, Ascending
<1>6. OwnActions /\ NarrowedFlagsRespected
  BY <1>2 DEF OwnActions, NarrowedFlagsRespected
<1>7. Nesting!Init
  BY <1>4, ActedBar DEF Init, Nesting!Init, openBar, verdictBar
<1> QED BY <1>3, <1>5, <1>6, <1>7 DEF IInv

\* What Perform does to ran and panicked, and where it continues.
LEMMA Performed ==
  ASSUME TypeOK, NEW t \in Seq(UserCode), NEW ACTION goOn, Perform(t, goOn)
  PROVE  /\ Calls(t)
         /\ panicked' \in SUBSET Level
         /\ goOn \/ (pc' = "failed" /\ UNCHANGED <<level, i>>)
<1>1. \A n \in DOMAIN t : t[n].at \in Level
  <2>1. \A n \in DOMAIN t : t[n] \in UserCode
    OBVIOUS
  <2> QED BY <2>1 DEF UserCode
<1>2. panicked' \in SUBSET Level
  BY <1>1 DEF Perform, TypeOK
<1> QED BY <1>2 DEF Perform, Calls

\* A loop which performs user code other than Actions.
LEMMA QuietLoopStep ==
  ASSUME IInv, UNCHANGED <<case, seen, executed>>,
         NEW t \in Quiet, Calls(t), panicked' \in SUBSET Level,
         \/ pc' = "failed" /\ UNCHANGED <<level, i>>
         \/ /\ UNCHANGED level /\ i' \in Nat \ {0}
            /\ \/ /\ pc \in {"before", "beforeOptions", "trigger"}
                  /\ pc' \in {"before", "beforeOptions", "trigger"}
               \/ /\ pc \in {"self", "after", "afterOptions"}
                  /\ pc' \in {"after", "afterOptions"},
         pc \notin {"done", "failed"}
  PROVE  IInv' /\ AbstractStep
<1>1. ran' \in Seq(UserCode) /\ Actions' = Actions
  BY QuietCalls DEF IInv, TypeOK, Quiet
<1>2. Acted' = Acted /\ OwnActions' /\ NarrowedFlagsRespected'
  BY <1>1, SameActions
<1> QED BY <1>1, <1>2, LoopStep, FailStep

\* The pipelines, checks and hooks around the Actions of options and commands
\* preserve the invariant and are stuttering or failing steps.
LEMMA BeforeCommandStep == ASSUME IInv, BeforeCommand PROVE IInv' /\ AbstractStep
<1> DEFINE t == <<Hook("hookBefore", level, level, Self), Event("before", level, Self)>>
<1>1. t \in Quiet
  BY QuietCode DEF IInv, TypeOK, Target
<1>2. Perform(t, Continue("beforeOptions", 1))
  BY DEF BeforeCommand
<1> HIDE DEF t
<1>3. Calls(t) /\ panicked' \in SUBSET Level
  BY <1>1, <1>2, Performed DEF Quiet, IInv
<1>4. \/ pc' = "failed" /\ UNCHANGED <<level, i>>
      \/ pc' = "beforeOptions" /\ i' = 1 /\ UNCHANGED level
  BY <1>2 DEF Perform, Continue
<1> QED BY <1>1, <1>3, <1>4, QuietLoopStep DEF BeforeCommand

\* The Before flow of an option.
LEMMA BeforeOptionStep == ASSUME IInv, BeforeOption PROVE IInv' /\ AbstractStep
<1> DEFINE o == LocalOptions(level)[i]
           before == <<Event("before", level, o)>>
           all == before \o Bubble(level, level, o)
<1>1. level \in Level /\ i \in Nat \ {0}
  BY DEF IInv, TypeOK
<1>2. o \in Target
  BY <1>1, OptionsTyped DEF BeforeOption, Target
<1>3. before \in Quiet /\ all \in Quiet
  BY <1>1, <1>2, QuietCode
<1>4. \/ Perform(before, Fail)
      \/ Perform(all, Continue("beforeOptions", i + 1))
  BY DEF BeforeOption
<1> HIDE DEF before, all
<1>5. PICK t \in {before, all} : Calls(t) /\ panicked' \in SUBSET Level
  BY <1>3, <1>4, Performed DEF Quiet, IInv
<1>6. \/ pc' = "failed" /\ UNCHANGED <<level, i>>
      \/ pc' = "beforeOptions" /\ i' = i + 1 /\ UNCHANGED level
  BY <1>4 DEF Perform, Continue, Fail
<1>7. i + 1 \in Nat \ {0}
  BY <1>1
<1> QED BY <1>3, <1>5, <1>6, <1>7, QuietLoopStep DEF BeforeOption, IInv, TypeOK

\* The hooks of the ancestors after the options.
LEMMA BeforeAncestorsStep == ASSUME IInv, BeforeAncestors PROVE IInv' /\ AbstractStep
<1> DEFINE t == Bubble(level - 1, level, Self)
<1>1. t \in Quiet
  BY QuietCode DEF IInv, TypeOK, Target
<1>2. Perform(t, Continue("trigger", 1))
  BY DEF BeforeAncestors
<1> HIDE DEF t
<1>3. Calls(t) /\ panicked' \in SUBSET Level
  BY <1>1, <1>2, Performed DEF Quiet, IInv
<1>4. \/ pc' = "failed" /\ UNCHANGED <<level, i>>
      \/ pc' = "trigger" /\ i' = 1 /\ UNCHANGED level
  BY <1>2 DEF Perform, Continue
<1> QED BY <1>1, <1>3, <1>4, QuietLoopStep DEF BeforeAncestors

\* The hooks and the After pipeline of the command.
LEMMA AfterCommandStep == ASSUME IInv, AfterCommand PROVE IInv' /\ AbstractStep
<1> DEFINE t == Tunnel(level, level, Self) \o <<Event("after", level, Self)>>
<1>1. t \in Quiet
  BY QuietCode DEF IInv, TypeOK, Target
<1>2. Perform(t, Continue("afterOptions", 1))
  BY DEF AfterCommand
<1> HIDE DEF t
<1>3. Calls(t) /\ panicked' \in SUBSET Level
  BY <1>1, <1>2, Performed DEF Quiet, IInv
<1>4. \/ pc' = "failed" /\ UNCHANGED <<level, i>>
      \/ pc' = "afterOptions" /\ i' = 1 /\ UNCHANGED level
  BY <1>2 DEF Perform, Continue
<1> QED BY <1>1, <1>3, <1>4, QuietLoopStep DEF AfterCommand

\* The hooks and the After pipeline of an option.
LEMMA AfterOptionStep == ASSUME IInv, AfterOption PROVE IInv' /\ AbstractStep
<1> DEFINE o == LocalOptions(level)[i]
           t == Tunnel(level, level, o) \o <<Event("after", level, o)>>
<1>1. level \in Level /\ i \in Nat \ {0} /\ i + 1 \in Nat \ {0}
  BY DEF IInv, TypeOK
<1>2. o \in Target
  BY <1>1, OptionsTyped DEF AfterOption, Target
<1>3. t \in Quiet
  BY <1>1, <1>2, QuietCode
<1>4. Perform(t, Continue("afterOptions", i + 1))
  BY DEF AfterOption
<1> HIDE DEF t
<1>5. Calls(t) /\ panicked' \in SUBSET Level
  BY <1>3, <1>4, Performed DEF Quiet, IInv
<1>6. \/ pc' = "failed" /\ UNCHANGED <<level, i>>
      \/ pc' = "afterOptions" /\ i' = i + 1 /\ UNCHANGED level
  BY <1>4 DEF Perform, Continue
<1> QED BY <1>1, <1>3, <1>5, <1>6, QuietLoopStep DEF AfterOption

\* An Action at the current level, of a target which is kept from it by no
\* filter, adds the command to those which acted if it is the command's.
LEMMA ActionAllowed ==
  ASSUME IInv, UNCHANGED <<case, seen>>, NEW o \in Target,
         Calls(<<Event("act", level, o)>>),
         o \in Flag => level \in case.appliesIn[o],
         o = Self => \A f \in seen \cap Flag : level \in case.appliesIn[f]
  PROVE  /\ ran' \in Seq(UserCode) /\ OwnActions' /\ NarrowedFlagsRespected'
         /\ Acted' = IF o = Self THEN Acted \cup {level} ELSE Acted
<1> DEFINE e == Event("act", level, o)
<1>1. /\ level \in Level /\ ran \in Seq(UserCode)
      /\ e \in UserCode /\ e.ev = "act" /\ e.at = level /\ e.opt = o
  BY EventsTyped DEF IInv, TypeOK, Event
<1>2. \A k \in Level : Event("act", k, Self) = e <=> k = level /\ o = Self
  BY DEF Event
<1>3. e = Event("act", e.at, e.opt)
  BY <1>1
<1>4. Calls(<<e>>)
  OBVIOUS
<1> HIDE DEF e
<1>5. ran' \in Seq(UserCode) /\ Actions' = Actions \cup {e}
  BY <1>1, <1>4, ActionCalled
<1>6. /\ \A x : x \in Actions <=> x \in Ran /\ x.ev = "act"
      /\ \A x : x \in Actions' <=> x \in Ran' /\ x.ev = "act"
  BY DEF Actions
<1>7. OwnActions'
  BY <1>3, <1>5, <1>6 DEF IInv, OwnActions
<1>8. NarrowedFlagsRespected'
  BY <1>1, <1>5, <1>6 DEF IInv, NarrowedFlagsRespected
<1>9. Acted' = IF o = Self THEN Acted \cup {level} ELSE Acted
  BY <1>1, <1>2, <1>5, ActedByActions
<1> QED BY <1>5, <1>7, <1>8, <1>9

\* An option which is not due calls nothing.
LEMMA PassOverStep == ASSUME IInv, PassOver PROVE IInv' /\ AbstractStep
<1>1. ran' \in Seq(UserCode) /\ Actions' = Actions
  BY DEF PassOver, IInv, TypeOK, Actions, Ran
<1>2. Acted' = Acted /\ OwnActions' /\ NarrowedFlagsRespected'
  BY <1>1, SameActions DEF PassOver
<1> QED BY <1>1, <1>2, LoopStep DEF PassOver, Triggering, Continue, IInv, TypeOK

\* An option which is due is one of the options.
LEMMA DueOption ==
  ASSUME IInv, NEW o, Due(o, level)
  PROVE  o \in Option /\ o # Self /\ (o \in Flag => level \in case.appliesIn[o])
<1>1. case.implied \subseteq Option
  BY DEF IInv, TypeOK, CaseType
<1> QED BY <1>1, OptionAssumption DEF IInv, TypeOK, Due, WasUsed, appliesIn

\* An option which is due and invokes no command acts.
LEMMA ActOptionStep == ASSUME IInv, ActOption PROVE IInv' /\ AbstractStep
<1> DEFINE t == <<Event("act", level, o_i)>>
<1>1. /\ o_i \in Target /\ o_i # Self
      /\ o_i \in Flag => level \in case.appliesIn[o_i]
  BY DueOption DEF ActOption, Target
<1>2. t \in Seq(UserCode)
  BY <1>1, EventsTyped DEF IInv, TypeOK
<1>3. Perform(t, Continue("trigger", i + 1))
  BY DEF ActOption
<1>4. Calls(t) /\ panicked' \in SUBSET Level
  <2> HIDE DEF t
  <2> QED BY <1>2, <1>3, Performed DEF IInv
<1>5. /\ ran' \in Seq(UserCode) /\ OwnActions' /\ NarrowedFlagsRespected'
      /\ Acted' = Acted
  BY <1>1, <1>4, ActionAllowed DEF ActOption
<1> HIDE DEF t
<1>6. \/ pc' = "failed" /\ UNCHANGED <<level, i>>
      \/ pc' = "trigger" /\ i' = i + 1 /\ UNCHANGED level
  BY <1>3 DEF Perform, Continue
<1> QED BY <1>4, <1>5, <1>6, LoopStep, FailStep
        DEF ActOption, Triggering, IInv, TypeOK

\* The command acts, which CommandNesting knows as Act, or an error ends the run.
LEMMA ActCommandStep == ASSUME IInv, ActCommand PROVE IInv' /\ AbstractStep
<1> DEFINE t == <<Event("act", level, Self)>>
<1>1. /\ pc = "trigger" /\ Acted = {} /\ level \in Level
      /\ UNCHANGED <<case, seen, executed>>
      /\ executed = 1 .. level - 1
      /\ seen \subseteq UNION {FlagsOf(j) \cup ArgsOf(j) : j \in 1 .. level}
  BY DEF ActCommand, Triggered, IInv, Phase, Descending, TypeOK
<1>2. CASE Unavailable(level)
  <2>1. ran' \in Seq(UserCode) /\ Actions' = Actions
    BY <1>2 DEF ActCommand, IInv, TypeOK, Actions, Ran
  <2>2. Acted' = Acted /\ OwnActions' /\ NarrowedFlagsRespected'
    BY <1>1, <2>1, SameActions
  <2> QED BY <1>1, <1>2, <2>1, <2>2, FailStep DEF ActCommand, Fail, IInv, TypeOK
<1>3. CASE ~Unavailable(level)
  <2>1. \A f \in seen \cap Flag : level \in case.appliesIn[f]
    <3>1. SUFFICES ASSUME NEW f \in seen \cap Flag PROVE level \in case.appliesIn[f]
      OBVIOUS
    <3>2. PICK j \in 1 .. level : f \in FlagsOf(j) \cup ArgsOf(j)
      BY <1>1
    <3>3. j \in Level
      BY <1>1, DepthAssumption DEF Level
    <3>4. f \in FlagsOf(j)
      BY <3>2, <3>3, OptionAssumption DEF Flag
    <3> QED BY <1>3, <3>4 DEF Unavailable, appliesIn
  <2>2. Perform(t, Continue("after", 1))
    BY <1>3 DEF ActCommand
  <2>3. Self \in Target /\ Self \notin Flag /\ t \in Seq(UserCode)
    BY <1>1, EventsTyped, OptionAssumption DEF Target, Option
  <2>4. Calls(t) /\ panicked' \in SUBSET Level
    <3> HIDE DEF t
    <3> QED BY <2>2, <2>3, Performed DEF IInv
  <2>5. /\ ran' \in Seq(UserCode) /\ OwnActions' /\ NarrowedFlagsRespected'
        /\ Acted' = {level}
    BY <1>1, <2>1, <2>3, <2>4, ActionAllowed
  <2> HIDE DEF t
  <2>6. CASE pc' = "failed" /\ UNCHANGED <<level, i>>
    BY <1>1, <2>4, <2>5, <2>6, FailStep
  <2>7. CASE pc' = "after" /\ i' = 1 /\ UNCHANGED level
    <3>1. TypeOK'
      BY <1>1, <2>4, <2>5, <2>7 DEF IInv, TypeOK
    <3>2. Phase'
      BY <1>1, <2>5, <2>7 DEF Phase, Descending, Ascending
    <3>3. /\ openBar = level /\ openBar' = level
          /\ verdictBar = "running" /\ verdictBar' = "running"
      BY <1>1, <2>7 DEF openBar, verdictBar
    <3>4. actedBar = 0 /\ actedBar' = level
      BY <1>1, <2>5, ActedBar
    <3>5. level > 0
      BY <1>1 DEF Level
    <3>6. Nesting!Act
      BY <3>3, <3>4, <3>5 DEF Nesting!Act
    <3> QED BY <2>5, <3>1, <3>2, <3>6 DEF IInv, AbstractStep, Nesting!Next
  <2> QED BY <2>2, <2>6, <2>7 DEF Perform, Continue
<1> QED BY <1>2, <1>3

\* A command which is resumed does not act, since it is among the executed ones.
LEMMA PassThroughStep == ASSUME IInv, PassThrough PROVE IInv' /\ AbstractStep
<1>1. pc = "self"
  <2>1. SUFFICES ASSUME pc = "trigger" PROVE FALSE
    BY DEF PassThrough, Triggered
  <2>2. level \in 1 .. level - 1
    BY <2>1 DEF PassThrough, IInv, Phase, Descending
  <2> QED BY <2>2 DEF IInv, TypeOK, Level
<1>2. ran' \in Seq(UserCode) /\ Actions' = Actions
  BY DEF PassThrough, IInv, TypeOK, Actions, Ran
<1>3. Acted' = Acted /\ OwnActions' /\ NarrowedFlagsRespected'
  BY <1>2, SameActions DEF PassThrough
<1> QED BY <1>1, <1>2, <1>3, LoopStep DEF PassThrough, Continue, IInv, TypeOK

\* A sub-command is invoked inside its parent, which remembers it.
LEMMA InvokeStep == ASSUME IInv, Invoke PROVE IInv' /\ AbstractStep
<1>1. /\ pc = "trigger" /\ Acted = {} /\ level \in Level
      /\ UNCHANGED <<case, seen, panicked, ran>>
      /\ executed = 1 .. level - 1
      /\ seen \subseteq UNION {FlagsOf(j) \cup ArgsOf(j) : j \in 1 .. level}
  BY DEF Invoke, Triggering, IInv, Phase, Descending, TypeOK
<1>2. ran' \in Seq(UserCode) /\ Actions' = Actions /\ panicked' \in SUBSET Level
  BY <1>1 DEF IInv, TypeOK, Actions, Ran
<1>3. Acted' = Acted /\ OwnActions' /\ NarrowedFlagsRespected'
  BY <1>1, <1>2, SameActions
<1>4. \/ UNCHANGED executed /\ Continue("trigger", i + 1)
      \/ UNCHANGED executed /\ Fail
      \/ executed' = executed \cup {level} /\ level' = level + 1 /\ pc' = "parse" /\ i' = 1
  BY Zenon DEF Invoke, Executed
<1>5. CASE UNCHANGED executed /\ Continue("trigger", i + 1)
  BY <1>1, <1>2, <1>3, <1>5, LoopStep DEF Continue, IInv, TypeOK
<1>6. CASE UNCHANGED executed /\ Fail
  BY <1>1, <1>2, <1>3, <1>6, FailStep DEF Fail
<1>7. CASE executed' = executed \cup {level} /\ level' = level + 1 /\ pc' = "parse" /\ i' = 1
  <2>1. level < Depth
    <3>1. CommandArg(level) # Self
      BY DueOption DEF Invoke
    <3> QED BY <1>1, <3>1, DepthAssumption DEF CommandArg
  <2>2. level + 1 \in Level
    BY <1>1, <2>1, DepthAssumption DEF Level
  <2>3. TypeOK'
    BY <1>1, <1>2, <1>7, <2>2 DEF IInv, TypeOK
  <2>4. executed' = 1 .. level' - 1
    BY <1>1, <1>7 DEF Level
  <2>5. 1 .. level \subseteq 1 .. level'
    BY <1>1, <1>7 DEF Level
  <2>6. seen' \subseteq UNION {FlagsOf(j) \cup ArgsOf(j) : j \in 1 .. level'}
    BY <1>1, <2>5
  <2>7. Phase'
    BY <1>1, <1>3, <1>7, <2>4, <2>6 DEF Phase, Descending, Ascending
  <2>8. UNCHANGED <<openBar, verdictBar>>
    BY <1>1, <1>7 DEF openBar, verdictBar, Level
  <2>9. UNCHANGED actedBar
    BY <1>1, <1>3, ActedBar
  <2> QED BY <1>3, <2>3, <2>7, <2>8, <2>9 DEF IInv, AbstractStep, Nesting!vars
<1> QED BY <1>4, <1>5, <1>6, <1>7

\* The command line of a level is parsed, and its command is entered.
LEMMA ParseStep == ASSUME IInv, Parse PROVE IInv' /\ AbstractStep
<1>1. /\ pc = "parse" /\ Acted = {} /\ level \in Level
      /\ UNCHANGED <<case, executed, panicked, ran>>
      /\ executed = 1 .. level - 1
      /\ seen \subseteq UNION {FlagsOf(j) \cup ArgsOf(j) : j \in 1 .. level}
  BY DEF Parse, IInv, Phase, Descending, TypeOK
<1>2. ran' \in Seq(UserCode) /\ Actions' = Actions /\ panicked' \in SUBSET Level
  BY <1>1 DEF IInv, TypeOK, Actions, Ran
<1>3. Acted' = Acted /\ OwnActions' /\ NarrowedFlagsRespected'
  BY <1>1, <1>2, SameActions
<1>4. CASE UNCHANGED seen /\ Fail
  BY <1>1, <1>2, <1>3, <1>4, FailStep DEF Fail
<1>5. CASE /\ case.given[level] \subseteq Bound(level)
           /\ seen' = seen \cup case.given[level]
           /\ Continue("before", 1)
  <2>1. pc' = "before" /\ i' = 1 /\ level' = level
    BY <1>5 DEF Continue
  <2>2. case.given[level] \subseteq Option
    BY <1>1 DEF IInv, TypeOK, CaseType
  <2>3. TypeOK'
    BY <1>1, <1>2, <1>5, <2>1, <2>2 DEF IInv, TypeOK
  <2>4. Bound(level) \subseteq UNION {FlagsOf(j) \cup ArgsOf(j) : j \in 1 .. level}
    <3>1. /\ level \in 1 .. level
          /\ 1 .. level - 1 \subseteq 1 .. level
      BY <1>1 DEF Level
    <3> QED BY <3>1 DEF Bound, Inherited
  <2>5. seen' \subseteq UNION {FlagsOf(j) \cup ArgsOf(j) : j \in 1 .. level}
    BY <1>1, <1>5, <2>4
  <2>6. Phase'
    BY <1>1, <1>3, <2>1, <2>5 DEF Phase, Descending, Ascending
  <2>7. /\ openBar = level - 1 /\ openBar' = level
        /\ verdictBar = "running" /\ verdictBar' = "running"
    BY <1>1, <2>1 DEF openBar, verdictBar
  <2>8. actedBar = 0 /\ actedBar' = 0
    BY <1>1, <1>3, ActedBar
  <2>9. level - 1 < Depth /\ level = (level - 1) + 1
    BY <1>1, DepthAssumption DEF Level
  <2>10. Nesting!Enter
    BY <2>7, <2>8, <2>9 DEF Nesting!Enter
  <2> QED BY <1>3, <2>3, <2>6, <2>10 DEF IInv, AbstractStep, Nesting!Next
<1> QED BY <1>4, <1>5 DEF Parse

\* A command is left, and its parent resumes if there is one.
LEMMA ReturnStep == ASSUME IInv, Return PROVE IInv' /\ AbstractStep
<1>1. /\ pc = "afterOptions" /\ level \in Level
      /\ UNCHANGED <<case, seen, executed, panicked, ran>>
      /\ 1 .. level - 1 \subseteq executed
  BY DEF Return, IInv, Phase, Ascending, TypeOK
<1>2. PICK k \in Level : Acted = {k}
  BY <1>1 DEF IInv, Phase, Ascending
<1>3. ran' \in Seq(UserCode) /\ Actions' = Actions /\ panicked' \in SUBSET Level
  BY <1>1 DEF IInv, TypeOK, Actions, Ran
<1>4. Acted' = Acted /\ OwnActions' /\ NarrowedFlagsRespected'
  BY <1>1, <1>3, SameActions
<1>5. actedBar = k /\ actedBar' = k /\ k # 0
  BY <1>2, <1>4, ActedBar DEF Level
<1>6. openBar = level /\ verdictBar = "running" /\ level > 0
  BY <1>1 DEF openBar, verdictBar, Level
<1>7. CASE Fail
  BY <1>1, <1>3, <1>4, <1>7, FailStep DEF Fail
<1>8. CASE level = 1 /\ Continue("done", 1)
  <2>1. pc' = "done" /\ i' = 1 /\ level' = level
    BY <1>8 DEF Continue
  <2>2. TypeOK'
    BY <1>1, <1>3, <2>1 DEF IInv, TypeOK
  <2>3. Phase'
    BY <2>1 DEF Phase, Descending, Ascending
  <2>4. openBar' = 0 /\ verdictBar' = "done"
    BY <2>1 DEF openBar, verdictBar
  <2>5. Nesting!Leave
    BY <1>5, <1>6, <1>8, <2>4 DEF Nesting!Leave
  <2> QED BY <1>4, <2>2, <2>3, <2>5 DEF IInv, AbstractStep, Nesting!Next
<1>9. CASE level # 1 /\ level' = level - 1 /\ pc' = ResumeAt /\ i' = 1
  <2>1. pc' = "self" /\ level - 1 \in Level /\ level - 1 \in executed
        /\ 1 .. level' - 1 \subseteq executed /\ level - 1 # 0
    <3>1. level - 1 \in 1 .. level - 1 /\ 1 .. level' - 1 \subseteq 1 .. level - 1
      BY <1>1, <1>9 DEF Level
    <3> QED BY <1>1, <1>9, <3>1, DepthAssumption DEF Level, ResumeAt
  <2>2. TypeOK'
    BY <1>1, <1>3, <1>9, <2>1 DEF IInv, TypeOK
  <2>3. Phase'
    BY <1>1, <1>2, <1>4, <1>9, <2>1 DEF Phase, Descending, Ascending
  <2>4. openBar' = level - 1 /\ verdictBar' = "running"
    BY <1>9, <2>1 DEF openBar, verdictBar
  <2>5. Nesting!Leave
    BY <1>5, <1>6, <2>1, <2>4 DEF Nesting!Leave
  <2> QED BY <1>4, <2>2, <2>3, <2>5 DEF IInv, AbstractStep, Nesting!Next
<1> QED BY <1>7, <1>8, <1>9 DEF Return

-----------------------------------------------------------------------------
(* The theorems *)

\* Every step, and a step which changes nothing, preserves the invariant and
\* is a step of CommandNesting.
LEMMA EveryStep == ASSUME IInv, [Next]_vars PROVE IInv' /\ AbstractStep
<1>1. CASE Next
  BY <1>1, ParseStep, BeforeCommandStep, BeforeOptionStep, BeforeAncestorsStep,
     PassOverStep, ActOptionStep, InvokeStep, ActCommandStep, PassThroughStep,
     AfterCommandStep, AfterOptionStep, ReturnStep DEF Next
<1>2. CASE UNCHANGED vars
  <2>1. UNCHANGED <<case, pc, level, i, seen, executed, panicked, ran>>
    BY <1>2 DEF vars
  <2>2. IInv'
    BY <2>1 DEF IInv, TypeOK, Phase, Descending, Ascending, OwnActions,
                NarrowedFlagsRespected, Acted, Ran
  <2>3. UNCHANGED <<openBar, actedBar, verdictBar>>
    BY <2>1 DEF openBar, actedBar, verdictBar, Ran
  <2> QED BY <2>2, <2>3 DEF AbstractStep, Nesting!vars
<1> QED BY <1>1, <1>2

\* On the way down no command has acted and every command above this one has
\* invoked the next; on the way up exactly one command has acted.
THEOREM Invariant == Spec => []IInv
<1>1. Init => IInv
  BY Initially
<1>2. IInv /\ [Next]_vars => IInv'
  BY EveryStep
<1> QED BY <1>1, <1>2, PTL DEF Spec

\* Execute always has a level of the chain and user code of its options.
THEOREM TypeCorrect == Spec => []TypeOK
<1>1. IInv => TypeOK
  BY DEF IInv
<1> QED BY <1>1, Invariant, PTL

\* A flag narrowed by PersistentIn never acts where the filter does not match,
\* and no command acts while such a flag is used against it.
THEOREM NarrowedCorrect == Spec => []NarrowedFlagsRespected
<1>1. IInv => NarrowedFlagsRespected
  BY DEF IInv
<1> QED BY <1>1, Invariant, PTL

\* Executing a chain of commands of any length enters them from the app
\* downwards, lets one act, the innermost, and leaves them in reverse order, or
\* abandons them on an error.
THEOREM Implementation == Spec => ImplementsNesting
<1>1. Init => Nesting!Init
  BY Initially
<1>2. IInv /\ [Next]_vars => [Nesting!Next]_(Nesting!vars)
  BY EveryStep DEF AbstractStep
<1> QED BY <1>1, <1>2, Invariant, PTL DEF Spec, ImplementsNesting, Nesting!Spec

-----------------------------------------------------------------------------
(* The order of user code: Before pipelines and hooks precede the Actions, *)
(* After pipelines find everything inside them finished, and a command     *)
(* acts when its options which were used have acted.                       *)

\* The Before flow of a target of command k is complete.
Prepared(k, opt) ==
  /\ Event("before", k, opt) \in Ran
  /\ \A j \in 1 .. k : Hook("hookBefore", j, k, opt) \in Ran
  /\ ~Missing(opt)

Ready(k) == \A opt \in TargetsOf(k) : Prepared(k, opt)

\* The commands around this one are ready, and this one is when its options
\* trigger; before that, its options up to the next one are.
Preparing ==
  /\ \A k \in 1 .. level - 1 : Ready(k)
  /\ pc \in {"trigger", "self", "after", "afterOptions"} => Ready(level)
  /\ pc = "beforeOptions" =>
       /\ Event("before", level, Self) \in Ran
       /\ Hook("hookBefore", level, level, Self) \in Ran
       /\ \A n \in DOMAIN LocalOptions(level) :
            n < i => Prepared(level, LocalOptions(level)[n])

BInv == Preparing /\ BeforePrecedesAction

\* The After flow of command k is complete and recovered from no panic.
Left(k) ==
  /\ \A opt \in TargetsOf(k) : Event("after", k, opt) \in Ran
  /\ k \notin panicked

\* On the way down nothing was left and nothing is entered below; on the way up
\* the commands below were left, and so are the options up to the next one.
Unwinding ==
  /\ Descending => \A e \in Ran : e.at <= level /\ e.ev # "after"
  /\ Ascending =>
       /\ \E k \in level .. Depth : Event("act", k, Self) \in Ran
       /\ \A e \in Ran : /\ e.at > level => Left(e.at)
                         /\ e.ev = "after" => e.at >= level
  /\ pc = "afterOptions" =>
       /\ Event("after", level, Self) \in Ran
       /\ \A n \in DOMAIN LocalOptions(level) :
            n < i => Event("after", level, LocalOptions(level)[n]) \in Ran

AInv == Unwinding /\ AfterUnwinds

-----------------------------------------------------------------------------
(* What is performed *)

\* The values of sequences which are put together.
LEMMA Ranges ==
  /\ \A s, t \in Seq(UserCode) : RangeOf(s \o t) = RangeOf(s) \cup RangeOf(t)
  /\ \A x \in UserCode : RangeOf(<<x>>) = {x}
  /\ \A x, y \in UserCode : RangeOf(<<x, y>>) = {x, y}
<1>1. ASSUME NEW s \in Seq(UserCode), NEW t \in Seq(UserCode)
      PROVE  RangeOf(s \o t) = RangeOf(s) \cup RangeOf(t)
  <2>1. RangeOf(s) \subseteq RangeOf(s \o t) /\ RangeOf(s \o t) \subseteq RangeOf(s) \cup RangeOf(t)
    <3>1. s \o t \in Seq(UserCode)
      OBVIOUS
    <3> QED BY <3>1, Appended
  <2>2. ASSUME NEW n \in DOMAIN t PROVE t[n] \in RangeOf(s \o t)
    <3>1. Len(s) + n \in DOMAIN (s \o t) /\ (s \o t)[Len(s) + n] = t[n]
      OBVIOUS
    <3> QED BY <3>1 DEF RangeOf
  <2> QED BY <2>1, <2>2 DEF RangeOf
<1>2. ASSUME NEW x \in UserCode PROVE RangeOf(<<x>>) = {x}
  BY DEF RangeOf
<1>3. ASSUME NEW x \in UserCode, NEW y \in UserCode PROVE RangeOf(<<x, y>>) = {x, y}
  BY DEF RangeOf
<1> QED BY <1>1, <1>2, <1>3

\* The hooks which bubble and tunnel for a target.
LEMMA HooksOf ==
  ASSUME NEW at \in Level, NEW opt \in Target, NEW from \in 0 .. Depth
  PROVE  /\ RangeOf(Bubble(from, at, opt)) = {Hook("hookBefore", j, at, opt) : j \in 1 .. from}
         /\ RangeOf(Tunnel(from, at, opt)) = {Hook("hookAfter", j, at, opt) : j \in 1 .. from}
<1>1. DOMAIN Bubble(from, at, opt) = 1 .. from /\ DOMAIN Tunnel(from, at, opt) = 1 .. from
  BY DEF Bubble, Tunnel
<1>2. \A n \in 1 .. from : /\ Bubble(from, at, opt)[n] = Hook("hookBefore", from + 1 - n, at, opt)
                           /\ Tunnel(from, at, opt)[n] = Hook("hookAfter", n, at, opt)
  BY DEF Bubble, Tunnel
<1>3. \A n \in 1 .. from : from + 1 - n \in 1 .. from /\ from + 1 - (from + 1 - n) = n
  BY DepthAssumption
<1> QED BY <1>1, <1>2, <1>3 DEF RangeOf

\* The targets of a command are the command and its local options.
LEMMA TargetsAreLocal ==
  ASSUME NEW k \in Level
  PROVE  /\ TargetsOf(k) = {Self} \cup {LocalOptions(k)[n] : n \in DOMAIN LocalOptions(k)}
         /\ TargetsOf(k) \subseteq Target
<1>1. LocalFlags[k] \in Seq(Option) /\ LocalArgs[k] \in Seq(Option)
  <2>1. LocalFlags[k] \in Seq(Flag) /\ Flag \subseteq Option
    BY OptionAssumption DEF Option
  <2> QED BY <2>1, OptionAssumption
<1>2. ASSUME NEW s \in Seq(Option), NEW t \in Seq(Option)
      PROVE  /\ \A n \in DOMAIN s : n \in DOMAIN (s \o t) /\ (s \o t)[n] = s[n]
             /\ \A n \in DOMAIN t : /\ Len(s) + n \in DOMAIN (s \o t)
                                    /\ (s \o t)[Len(s) + n] = t[n]
             /\ \A n \in DOMAIN (s \o t) :
                  \/ n \in DOMAIN s /\ (s \o t)[n] = s[n]
                  \/ n - Len(s) \in DOMAIN t /\ (s \o t)[n] = t[n - Len(s)]
  OBVIOUS
<1>3. \A n \in DOMAIN LocalFlags[k] :
        n \in DOMAIN LocalOptions(k) /\ LocalOptions(k)[n] = LocalFlags[k][n]
  BY <1>1, <1>2 DEF LocalOptions
<1>4. /\ \A n \in DOMAIN LocalArgs[k] :
           /\ Len(LocalFlags[k]) + n \in DOMAIN LocalOptions(k)
           /\ LocalOptions(k)[Len(LocalFlags[k]) + n] = LocalArgs[k][n]
      /\ \A n \in DOMAIN LocalOptions(k) :
           \/ n \in DOMAIN LocalFlags[k] /\ LocalOptions(k)[n] = LocalFlags[k][n]
           \/ /\ n - Len(LocalFlags[k]) \in DOMAIN LocalArgs[k]
              /\ LocalOptions(k)[n] = LocalArgs[k][n - Len(LocalFlags[k])]
  BY <1>1, <1>2 DEF LocalOptions
<1>5. FlagsOf(k) \cup ArgsOf(k) = {LocalOptions(k)[n] : n \in DOMAIN LocalOptions(k)}
  BY <1>3, <1>4 DEF FlagsOf, ArgsOf
<1>6. TargetsOf(k) \subseteq Target
  BY OptionsTyped DEF TargetsOf, Target
<1> QED BY <1>5, <1>6 DEF TargetsOf

\* A step which adds user code at the level.
Adds(new) ==
  /\ UNCHANGED case /\ seen \subseteq seen'
  /\ Ran \subseteq Ran' /\ Ran' \subseteq Ran \cup new
  /\ \A e \in new : e.at = level
  /\ panicked' \subseteq panicked \cup {level}

\* Performing user code for targets at the level: what it leaves in ran, that
\* all of it is there unless it failed, and who may have panicked.
LEMMA PerformedAll ==
  ASSUME TypeOK, UNCHANGED <<case, seen>>,
         NEW t \in Seq(UserCode), \A e \in RangeOf(t) : e.at = level,
         NEW ACTION goOn, Perform(t, goOn)
  PROVE  /\ Adds(RangeOf(t))
         /\ \/ goOn /\ RangeOf(t) \subseteq Ran'
            \/ pc' = "failed" /\ UNCHANGED <<level, i>>
<1>1. Calls(t)
  BY DEF Perform, Calls
<1>2. Ran = RangeOf(ran) /\ Ran' = RangeOf(ran')
  BY DEF Ran, RangeOf
<1>3. ran \in Seq(UserCode)
  BY DEF TypeOK
<1>4. Ran \subseteq Ran' /\ Ran' \subseteq Ran \cup RangeOf(t)
  BY <1>1, <1>2, <1>3, Appended DEF Calls
<1>5. ran' = ran \o t => RangeOf(t) \subseteq Ran'
  BY <1>2, <1>3, Ranges
<1>6. \/ /\ ran' = ran \o t /\ goOn
         /\ panicked' \in {panicked} \cup
              {panicked \cup {t[n].at} : n \in {m \in DOMAIN t : t[m].opt = Self}}
      \/ pc' = "failed" /\ UNCHANGED <<level, i, panicked>>
  BY DEF Perform
<1>7. \A n \in DOMAIN t : t[n].at = level
  BY DEF RangeOf
<1>8. panicked' \subseteq panicked \cup {level}
  BY <1>6, <1>7
<1> QED BY <1>4, <1>5, <1>6, <1>8 DEF Adds

-----------------------------------------------------------------------------
(* What a step keeps *)

\* What is ready stays ready.
LEMMA StaysReady ==
  ASSUME NEW new, Adds(new)
  PROVE  \A k : (Ready(k) => Ready(k)') /\ \A opt : Prepared(k, opt) => Prepared(k, opt)'
BY DEF Adds, Ready, Prepared, Missing, TargetsOf

\* Actions are called when the commands down to their level are ready.
LEMMA ActionsAfterReady ==
  ASSUME IInv, BInv, NEW new, Adds(new),
         \A e \in new : e.ev = "act" => Ready(level)
  PROVE  BeforePrecedesAction'
<1>1. SUFFICES ASSUME NEW e \in Ran', e.ev = "act", NEW k \in 1 .. e.at
               PROVE  Ready(k)'
  BY DEF BeforePrecedesAction, Ready, Prepared
<1>2. CASE e \in Ran
  <2>1. Ready(k)
    BY <1>1, <1>2 DEF BInv, BeforePrecedesAction, Ready, Prepared
  <2> QED BY <2>1, StaysReady
<1>3. CASE e \in new
  <2>1. e.at = level /\ Ready(level) /\ level \in Int
    BY <1>1, <1>3 DEF Adds, IInv, TypeOK, Level
  <2>2. k \in 1 .. level - 1 \/ k = level
    BY <2>1
  <2>3. Ready(k)
    BY <2>1, <2>2 DEF BInv, Preparing
  <2> QED BY <2>3, StaysReady
<1> QED BY <1>2, <1>3 DEF Adds

\* At the same level, unless the options are being prepared.
LEMMA PreparingKept ==
  ASSUME BInv, NEW new, Adds(new), UNCHANGED level,
         \/ pc' \in {"failed", "done", "parse", "before"}
         \/ pc' \in {"trigger", "self", "after", "afterOptions"} /\ Ready(level)'
  PROVE  Preparing'
<1>1. \A k \in 1 .. level - 1 : Ready(k)'
  BY StaysReady DEF BInv, Preparing
<1> QED BY <1>1 DEF Preparing

\* What ran belongs to a level.
LEMMA RanHasLevels ==
  ASSUME IInv
  PROVE  level \in Int /\ \A e \in Ran : e.at \in Int
<1>1. ran \in Seq(UserCode) /\ level \in Level
  BY DEF IInv, TypeOK
<1>2. \A e \in Ran : e \in UserCode
  BY <1>1 DEF Ran
<1> QED BY <1>1, <1>2 DEF UserCode, Level

\* After pipelines find what they should on the way up.
LEMMA AfterInside ==
  ASSUME IInv, AInv, NEW new, Adds(new), pc \notin {"done", "failed"},
         \A e \in Ran' : e.ev = "after" =>
           \/ e \in Ran
           \/ /\ e.at = level /\ Ascending
              /\ \A j \in 1 .. level : Hook("hookAfter", j, level, e.opt) \in Ran'
  PROVE  AfterUnwinds'
<1>1. Descending \/ Ascending
  BY DEF IInv, TypeOK, Descending, Ascending
<1>2. SUFFICES ASSUME NEW e \in Ran', e.ev = "after"
               PROVE  /\ \A j \in 1 .. e.at : Hook("hookAfter", j, e.at, e.opt) \in Ran'
                      /\ \E k \in e.at .. Depth : Event("act", k, Self) \in Ran'
                      /\ \A k \in Entered' : k > e.at => Left(k)'
  BY DEF AfterUnwinds, Left
<1>3. Ascending /\ e.at >= level /\ e.at \in Int /\ level \in Int
  <2>1. CASE e \in Ran
    BY <1>1, <1>2, <2>1, RanHasLevels DEF AInv, Unwinding
  <2>2. CASE e \notin Ran
    BY <1>2, <2>2, RanHasLevels
  <2> QED BY <2>1, <2>2
<1>4. \A j \in 1 .. e.at : Hook("hookAfter", j, e.at, e.opt) \in Ran'
  BY <1>2 DEF AInv, AfterUnwinds, Adds
<1>5. \E k \in e.at .. Depth : Event("act", k, Self) \in Ran'
  BY <1>2, <1>3 DEF AInv, AfterUnwinds, Unwinding, Adds
<1>6. ASSUME NEW k \in Entered', k > e.at PROVE Left(k)'
  <2>1. PICK x \in Ran' : k = x.at
    BY DEF Entered
  <2>2. x \in Ran /\ k \in Int /\ k > level
    <3>1. x \in Ran \/ x.at = level
      BY DEF Adds
    <3> QED BY <1>3, <1>6, <2>1, <3>1, RanHasLevels
  <2>3. Left(k) /\ k # level
    BY <1>3, <2>1, <2>2 DEF AInv, Unwinding
  <2> QED BY <2>3 DEF Left, Adds, TargetsOf
<1> QED BY <1>4, <1>5, <1>6

\* On the way up at the same level.
LEMMA UnwindingUp ==
  ASSUME IInv, AInv, NEW new, Adds(new), UNCHANGED level, Ascending,
         pc' \in {"after", "afterOptions"},
         pc' = "afterOptions" =>
           /\ Event("after", level, Self) \in Ran'
           /\ \A n \in DOMAIN LocalOptions(level) :
                n < i' => Event("after", level, LocalOptions(level)[n]) \in Ran'
  PROVE  Unwinding'
<1>1. \E k \in level .. Depth : Event("act", k, Self) \in Ran'
  BY DEF AInv, Unwinding, Adds
<1>2. ASSUME NEW e \in Ran'
      PROVE  (e.at > level => Left(e.at)') /\ (e.ev = "after" => e.at >= level)
  <2>1. CASE e \in Ran
    <3>1. e.ev = "after" => e.at >= level
      BY <2>1 DEF AInv, Unwinding
    <3>2. ASSUME e.at > level PROVE Left(e.at)'
      <4>1. Left(e.at) /\ e.at # level
        BY <2>1, <3>2 DEF AInv, Unwinding, IInv, TypeOK, Level
      <4> QED BY <4>1 DEF Left, Adds, TargetsOf
    <3> QED BY <3>1, <3>2
  <2>2. CASE e \in new
    BY <2>2 DEF Adds, IInv, TypeOK, Level
  <2> QED BY <2>1, <2>2 DEF Adds
<1> QED BY <1>1, <1>2 DEF Unwinding, Descending, Ascending

\* On the way down, at the same level or the next.
LEMMA UnwindingDown ==
  ASSUME IInv, AInv, NEW new, Adds(new), Descending, Descending',
         level' \in {level, level + 1}, \A e \in new : e.ev # "after"
  PROVE  Unwinding'
<1>1. \A e \in Ran : e.at <= level /\ e.ev # "after" /\ e.at \in Int
  BY RanHasLevels DEF AInv, Unwinding
<1>2. level \in Int
  BY RanHasLevels
<1>3. \A e \in Ran' : e.at <= level' /\ e.ev # "after"
  BY <1>1, <1>2 DEF Adds
<1> QED BY <1>3 DEF Unwinding, Descending, Ascending

\* When the run ended there is nothing to unwind.
LEMMA UnwindingEnds == pc' \in {"failed", "done"} => Unwinding'
BY DEF Unwinding, Descending, Ascending

-----------------------------------------------------------------------------
(* The actions *)

OInv == BInv /\ AInv

\* An error ends the run, whatever ran before it.
LEMMA FailingKeeps ==
  ASSUME IInv, OInv, NEW new, Adds(new), UNCHANGED level, pc' = "failed",
         BeforePrecedesAction', AfterUnwinds'
  PROVE  OInv'
BY PreparingKept, UnwindingEnds DEF OInv, BInv, AInv

\* Steps which add no user code.
LEMMA AddsNothing ==
  ASSUME IInv, OInv, UNCHANGED <<case, panicked, ran>>, seen \subseteq seen',
         pc \notin {"done", "failed"}
  PROVE  Adds({}) /\ BeforePrecedesAction' /\ AfterUnwinds'
<1>1. Adds({})
  BY DEF Adds, Ran
<1>2. BeforePrecedesAction'
  BY <1>1, ActionsAfterReady DEF OInv
<1>3. \A e \in Ran' : e \in Ran
  BY DEF Ran
<1>4. AfterUnwinds'
  BY <1>1, <1>3, AfterInside DEF OInv
<1> QED BY <1>1, <1>2, <1>4

\* The command of the level is ready once its options trigger.
LEMMA ReadyWhenTriggering ==
  ASSUME OInv, pc \in {"trigger", "self", "after", "afterOptions"}
  PROVE  Ready(level)
BY DEF OInv, BInv, Preparing

\* The Before flow of a command up to its options.
LEMMA BeforeCommandOrder == ASSUME IInv, OInv, BeforeCommand PROVE OInv'
<1> DEFINE h == Hook("hookBefore", level, level, Self)
           e == Event("before", level, Self)
           t == <<h, e>>
<1>1. level \in Level /\ Self \in Target /\ TypeOK
  BY DEF IInv, TypeOK, Target
<1>2. h \in UserCode /\ e \in UserCode
  BY <1>1, EventsTyped
<1>3. t \in Seq(UserCode) /\ RangeOf(t) = {h, e}
  BY <1>2, Ranges
<1>4. \A x \in RangeOf(t) : x.at = level /\ x.ev # "act" /\ x.ev # "after"
  BY <1>3 DEF Hook, Event
<1>5. Perform(t, Continue("beforeOptions", 1))
  BY DEF BeforeCommand
<1> HIDE DEF t
<1>6. /\ Adds(RangeOf(t))
      /\ \/ Continue("beforeOptions", 1) /\ RangeOf(t) \subseteq Ran'
         \/ pc' = "failed" /\ UNCHANGED <<level, i>>
  BY <1>1, <1>3, <1>4, <1>5, PerformedAll DEF BeforeCommand
<1>7. BeforePrecedesAction' /\ AfterUnwinds'
  <2>1. \A x \in Ran' : x.ev = "after" => x \in Ran
    BY <1>4, <1>6 DEF Adds
  <2> QED BY <1>4, <1>6, <2>1, ActionsAfterReady, AfterInside DEF OInv, BeforeCommand
<1>8. CASE pc' = "failed" /\ UNCHANGED <<level, i>>
  BY <1>6, <1>7, <1>8, FailingKeeps
<1>9. CASE Continue("beforeOptions", 1) /\ RangeOf(t) \subseteq Ran'
  <2>1. pc' = "beforeOptions" /\ i' = 1 /\ level' = level /\ pc = "before"
    BY <1>9 DEF Continue, BeforeCommand
  <2>2. \A k \in 1 .. level - 1 : Ready(k)'
    BY <1>6, StaysReady DEF OInv, BInv, Preparing
  <2>3. \A n \in DOMAIN LocalOptions(level) : ~(n < 1)
    BY <1>1, OptionsTyped
  <2>4. Preparing'
    BY <1>3, <1>9, <2>1, <2>2, <2>3 DEF Preparing
  <2>5. Unwinding'
    BY <1>4, <1>6, <2>1, UnwindingDown DEF OInv, Descending
  <2> QED BY <1>7, <2>4, <2>5 DEF OInv, BInv, AInv
<1> QED BY <1>6, <1>8, <1>9

\* The Before flow of the next option, which fails if it is required and missing.
LEMMA BeforeOptionOrder == ASSUME IInv, OInv, BeforeOption PROVE OInv'
<1>o. PICK o : o = LocalOptions(level)[i]
  OBVIOUS
<1> DEFINE e == Event("before", level, o)
           hooks == Bubble(level, level, o)
           all == <<e>> \o hooks
<1>1. /\ level \in Level /\ level \in 0 .. Depth /\ i \in Nat \ {0} /\ TypeOK
      /\ o \in Target /\ pc = "beforeOptions"
      /\ UNCHANGED <<case, seen>>
  BY <1>o, OptionsTyped, DepthAssumption DEF IInv, TypeOK, BeforeOption, Target, Level
<1>2. /\ e \in UserCode /\ hooks \in Seq(UserCode)
      /\ RangeOf(hooks) = {Hook("hookBefore", j, level, o) : j \in 1 .. level}
  BY <1>1, EventsTyped, HooksOf
<1>3. /\ <<e>> \in Seq(UserCode) /\ all \in Seq(UserCode)
      /\ RangeOf(<<e>>) = {e} /\ RangeOf(all) = {e} \cup RangeOf(hooks)
  <2>1. /\ <<e>> \in Seq(UserCode) /\ RangeOf(<<e>>) = {e}
    <3> HIDE DEF e, hooks
    <3> QED BY <1>2, Ranges
  <2>2. all \in Seq(UserCode) /\ RangeOf(all) = RangeOf(<<e>>) \cup RangeOf(hooks)
    <3>1. \A s, r \in Seq(UserCode) : s \o r \in Seq(UserCode)
      OBVIOUS
    <3> HIDE DEF e, hooks
    <3> QED BY <1>2, <2>1, <3>1, Ranges
  <2> HIDE DEF all, hooks, e
  <2> QED BY <2>1, <2>2
<1>4. \A x \in RangeOf(all) : x.at = level /\ x.ev # "act" /\ x.ev # "after"
  BY <1>2, <1>3 DEF Hook, Event
<1>5. \/ Missing(o) /\ Perform(<<e>>, Fail)
      \/ ~Missing(o) /\ Perform(all, Continue("beforeOptions", i + 1))
  BY <1>o DEF BeforeOption
<1> HIDE DEF all, hooks, e
<1>6. CASE Missing(o) /\ Perform(<<e>>, Fail)
  <2>1. Adds(RangeOf(<<e>>)) /\ pc' = "failed" /\ UNCHANGED level
    <3>1. \A x \in RangeOf(<<e>>) : x.at = level
      BY <1>3, <1>4
    <3> QED BY <1>1, <1>3, <1>6, <3>1, PerformedAll DEF Fail
  <2>2. \A x \in RangeOf(<<e>>) : x.ev # "act" /\ x.ev # "after"
    BY <1>3, <1>4
  <2>3. BeforePrecedesAction' /\ AfterUnwinds'
    <3>1. \A x \in Ran' : x.ev = "after" => x \in Ran
      BY <2>1, <2>2 DEF Adds
    <3> QED BY <1>1, <2>1, <2>2, <3>1, ActionsAfterReady, AfterInside DEF OInv
  <2> QED BY <2>1, <2>3, FailingKeeps
<1>7. CASE ~Missing(o) /\ Perform(all, Continue("beforeOptions", i + 1))
  <2>1. /\ Adds(RangeOf(all))
        /\ \/ Continue("beforeOptions", i + 1) /\ RangeOf(all) \subseteq Ran'
           \/ pc' = "failed" /\ UNCHANGED <<level, i>>
    BY <1>1, <1>3, <1>4, <1>7, PerformedAll
  <2>2. BeforePrecedesAction' /\ AfterUnwinds'
    <3>1. \A x \in Ran' : x.ev = "after" => x \in Ran
      BY <1>4, <2>1 DEF Adds
    <3> QED BY <1>1, <1>4, <2>1, <3>1, ActionsAfterReady, AfterInside DEF OInv
  <2>3. CASE pc' = "failed" /\ UNCHANGED <<level, i>>
    BY <2>1, <2>2, <2>3, FailingKeeps
  <2>4. CASE Continue("beforeOptions", i + 1) /\ RangeOf(all) \subseteq Ran'
    <3>1. pc' = "beforeOptions" /\ i' = i + 1 /\ level' = level
      BY <2>4 DEF Continue
    <3>2. /\ \A k \in 1 .. level - 1 : Ready(k)'
          /\ \A n \in DOMAIN LocalOptions(level) :
               n < i => Prepared(level, LocalOptions(level)[n])'
          /\ Event("before", level, Self) \in Ran'
          /\ Hook("hookBefore", level, level, Self) \in Ran'
      BY <1>1, <2>1, <3>1, StaysReady DEF OInv, BInv, Preparing, Adds
    <3>3. Prepared(level, o)'
      <4>1. ~Missing(o)'
        BY <1>7, <2>1 DEF Missing, Adds
      <4>2. Event("before", level, o) \in Ran'
        BY <1>3, <2>4 DEF e
      <4>3. \A j \in 1 .. level : Hook("hookBefore", j, level, o) \in Ran'
        BY <1>2, <1>3, <2>4
      <4> QED BY <3>1, <4>1, <4>2, <4>3 DEF Prepared
    <3>4. \A n \in DOMAIN LocalOptions(level) : n < i + 1 => n < i \/ n = i
      BY <1>1, OptionsTyped
    <3>5. Preparing'
      <4>1. ASSUME NEW n \in DOMAIN LocalOptions(level), n < i + 1
            PROVE  Prepared(level, LocalOptions(level)[n])'
        <5>1. CASE n < i
          BY <3>2, <5>1
        <5>2. CASE n = i
          BY <1>o, <3>1, <3>3, <5>2
        <5> QED BY <3>4, <4>1, <5>1, <5>2
      <4> QED BY <3>1, <3>2, <4>1 DEF Preparing
    <3>6. Unwinding'
      BY <1>1, <1>4, <2>1, <3>1, UnwindingDown DEF OInv, Descending
    <3> QED BY <2>2, <3>5, <3>6 DEF OInv, BInv, AInv
  <2> QED BY <2>1, <2>3, <2>4
<1> QED BY <1>5, <1>6, <1>7

\* With the hooks of its ancestors, the Before flow of the command is complete.
LEMMA BeforeAncestorsOrder == ASSUME IInv, OInv, BeforeAncestors PROVE OInv'
<1> DEFINE t == Bubble(level - 1, level, Self)
<1>1. /\ level \in Level /\ level - 1 \in 0 .. Depth /\ i \in Nat \ {0} /\ TypeOK
      /\ Self \in Target /\ pc = "beforeOptions" /\ i > Len(LocalOptions(level))
      /\ UNCHANGED <<case, seen>>
  BY DepthAssumption DEF IInv, TypeOK, BeforeAncestors, Target, Level
<1>2. /\ t \in Seq(UserCode)
      /\ RangeOf(t) = {Hook("hookBefore", j, level, Self) : j \in 1 .. level - 1}
  BY <1>1, EventsTyped, HooksOf
<1>3. \A x \in RangeOf(t) : x.at = level /\ x.ev # "act" /\ x.ev # "after"
  BY <1>2 DEF Hook
<1>4. Perform(t, Continue("trigger", 1))
  BY DEF BeforeAncestors
<1> HIDE DEF t
<1>5. /\ Adds(RangeOf(t))
      /\ \/ Continue("trigger", 1) /\ RangeOf(t) \subseteq Ran'
         \/ pc' = "failed" /\ UNCHANGED <<level, i>>
  BY <1>1, <1>2, <1>3, <1>4, PerformedAll
<1>6. BeforePrecedesAction' /\ AfterUnwinds'
  <2>1. \A x \in Ran' : x.ev = "after" => x \in Ran
    BY <1>3, <1>5 DEF Adds
  <2> QED BY <1>1, <1>3, <1>5, <2>1, ActionsAfterReady, AfterInside DEF OInv
<1>7. CASE pc' = "failed" /\ UNCHANGED <<level, i>>
  BY <1>5, <1>6, <1>7, FailingKeeps
<1>8. CASE Continue("trigger", 1) /\ RangeOf(t) \subseteq Ran'
  <2>1. pc' = "trigger" /\ level' = level
    BY <1>8 DEF Continue
  <2>2. Prepared(level, Self)'
    <3>1. ~Missing(Self)'
      BY OptionAssumption, <1>1 DEF Missing, IInv, TypeOK, CaseType
    <3>2. Event("before", level, Self) \in Ran'
      BY <1>1, <1>5 DEF OInv, BInv, Preparing, Adds
    <3>3. \A j \in 1 .. level : j \in 1 .. level - 1 \/ j = level
      BY <1>1 DEF Level
    <3>4. \A j \in 1 .. level : Hook("hookBefore", j, level, Self) \in Ran'
      BY <1>1, <1>2, <1>5, <1>8, <3>3 DEF OInv, BInv, Preparing, Adds
    <3> QED BY <2>1, <3>1, <3>2, <3>4 DEF Prepared
  <2>3. \A n \in DOMAIN LocalOptions(level) : Prepared(level, LocalOptions(level)[n])'
    <3>1. \A n \in DOMAIN LocalOptions(level) : n < i
      BY <1>1, OptionsTyped
    <3> QED BY <1>1, <1>5, <2>1, <3>1, StaysReady DEF OInv, BInv, Preparing
  <2>4. Ready(level)'
    BY <1>1, <2>1, <2>2, <2>3, TargetsAreLocal DEF Ready
  <2>5. Preparing'
    BY <1>5, <2>1, <2>4, PreparingKept DEF OInv
  <2>6. Unwinding'
    BY <1>1, <1>3, <1>5, <2>1, UnwindingDown DEF OInv, Descending
  <2> QED BY <1>6, <2>5, <2>6 DEF OInv, BInv, AInv
<1> QED BY <1>5, <1>7, <1>8

\* Parsing runs no user code.
LEMMA ParseOrder == ASSUME IInv, OInv, Parse PROVE OInv'
<1>1. Adds({}) /\ BeforePrecedesAction' /\ AfterUnwinds'
  BY AddsNothing DEF Parse
<1>2. pc = "parse" /\ UNCHANGED level /\ pc' \in {"before", "failed"}
  BY DEF Parse, Continue, Fail
<1>3. CASE pc' = "failed"
  BY <1>1, <1>2, <1>3, FailingKeeps
<1>4. CASE pc' = "before"
  <2>1. Preparing'
    BY <1>1, <1>2, <1>4, PreparingKept DEF OInv
  <2>2. Unwinding'
    BY <1>1, <1>2, <1>4, UnwindingDown DEF OInv, Descending
  <2> QED BY <1>1, <2>1, <2>2 DEF OInv, BInv, AInv
<1> QED BY <1>2, <1>3, <1>4

\* The loop over options goes on.
LEMMA TriggerGoesOn ==
  ASSUME IInv, OInv, NEW new, Adds(new), \A e \in new : e.ev # "after",
         pc = "trigger", pc' = "trigger", UNCHANGED level
  PROVE  OInv'
<1>1. Ready(level) /\ Ready(level)'
  BY ReadyWhenTriggering, StaysReady
<1>2. BeforePrecedesAction'
  BY <1>1, ActionsAfterReady DEF OInv
<1>3. AfterUnwinds'
  <2>1. \A e \in Ran' : e.ev = "after" => e \in Ran
    BY DEF Adds
  <2> QED BY <2>1, AfterInside DEF OInv
<1>4. Preparing'
  BY <1>1, PreparingKept DEF OInv
<1>5. Unwinding'
  BY UnwindingDown DEF OInv, Descending
<1> QED BY <1>2, <1>3, <1>4, <1>5 DEF OInv, BInv, AInv

\* An option which is not due is passed over.
LEMMA PassOverOrder == ASSUME IInv, OInv, PassOver PROVE OInv'
<1>1. pc = "trigger" /\ pc' = "trigger" /\ UNCHANGED level
  BY DEF PassOver, Triggering, Continue
<1>2. Adds({})
  BY <1>1, AddsNothing DEF PassOver
<1> QED BY <1>1, <1>2, TriggerGoesOn

\* An Action is called at a level which is ready; it may return an error.
LEMMA ActionInOrder ==
  ASSUME IInv, OInv, UNCHANGED <<case, seen>>, NEW o \in Target,
         NEW ACTION goOn, Perform(<<Event("act", level, o)>>, goOn),
         pc \in {"trigger", "self"}
  PROVE  /\ Adds({Event("act", level, o)}) /\ BeforePrecedesAction' /\ AfterUnwinds'
         /\ \/ goOn /\ Event("act", level, o) \in Ran'
            \/ pc' = "failed" /\ OInv'
<1> DEFINE e == Event("act", level, o)
           t == <<e>>
<1>1. e \in UserCode /\ e.at = level /\ e.ev = "act" /\ TypeOK
  BY EventsTyped DEF IInv, TypeOK, Event
<1>2. t \in Seq(UserCode) /\ RangeOf(t) = {e}
  <2> HIDE DEF e
  <2> QED BY <1>1, Ranges
<1>3. Perform(t, goOn) /\ \A x \in RangeOf(t) : x.at = level
  BY <1>1, <1>2
<1> HIDE DEF t
<1>4. /\ Adds(RangeOf(t))
      /\ \/ goOn /\ RangeOf(t) \subseteq Ran'
         \/ pc' = "failed" /\ UNCHANGED <<level, i>>
  BY <1>1, <1>2, <1>3, PerformedAll
<1>5. Ready(level)
  BY ReadyWhenTriggering
<1>6. BeforePrecedesAction'
  BY <1>4, <1>5, ActionsAfterReady DEF OInv
<1>7. AfterUnwinds'
  <2>1. \A x \in Ran' : x.ev = "after" => x \in Ran
    BY <1>1, <1>2, <1>4 DEF Adds
  <2> QED BY <1>4, <2>1, AfterInside DEF OInv
<1>8. pc' = "failed" /\ UNCHANGED <<level, i>> => OInv'
  BY <1>4, <1>6, <1>7, FailingKeeps
<1> QED BY <1>2, <1>4, <1>6, <1>7, <1>8

\* The Action of an option which is due.
LEMMA ActOptionOrder == ASSUME IInv, OInv, ActOption PROVE OInv'
<1>1. PICK o : o = o_i
  OBVIOUS
<1>2. o \in Target /\ pc = "trigger"
  BY <1>1, DueOption DEF ActOption, Triggering, Target
<1>3. Perform(<<Event("act", level, o)>>, Continue("trigger", i + 1))
  BY <1>1 DEF ActOption
<1>4. UNCHANGED <<case, seen>>
  BY DEF ActOption
<1>5. /\ Adds({Event("act", level, o)})
      /\ Continue("trigger", i + 1) \/ OInv'
  <2>1. pc \in {"trigger", "self"}
    BY <1>2
  <2>2. /\ Adds({Event("act", level, o)})
        /\ \/ Continue("trigger", i + 1) /\ Event("act", level, o) \in Ran'
           \/ pc' = "failed" /\ OInv'
    BY <1>2, <1>3, <1>4, <2>1, ActionInOrder
  <2> QED BY <2>2
<1>6. CASE Continue("trigger", i + 1)
  <2>1. \A e \in {Event("act", level, o)} : e.ev # "after"
    BY DEF Event
  <2>2. pc' = "trigger" /\ UNCHANGED level
    BY <1>6 DEF Continue
  <2> QED BY <1>2, <1>5, <2>1, <2>2, TriggerGoesOn
<1> QED BY <1>5, <1>6

\* The sub-command begins below a command which is ready.
LEMMA InvokeOrder == ASSUME IInv, OInv, Invoke PROVE OInv'
<1>1. pc = "trigger" /\ UNCHANGED <<case, seen, panicked, ran>>
  BY DEF Invoke, Triggering
<1>2. Adds({}) /\ BeforePrecedesAction' /\ AfterUnwinds'
  BY <1>1, AddsNothing
<1>3. \/ Continue("trigger", i + 1)
      \/ Fail
      \/ level' = level + 1 /\ pc' = "parse"
  BY Zenon DEF Invoke
<1>4. CASE Continue("trigger", i + 1)
  BY <1>1, <1>2, <1>4, TriggerGoesOn DEF Continue
<1>5. CASE Fail
  BY <1>2, <1>5, FailingKeeps DEF Fail
<1>6. CASE level' = level + 1 /\ pc' = "parse"
  <2>1. \A k \in 1 .. level' - 1 : k \in 1 .. level - 1 \/ k = level
    BY <1>6, RanHasLevels
  <2>2. \A k \in 1 .. level' - 1 : Ready(k)'
    BY <1>1, <1>2, <2>1, ReadyWhenTriggering, StaysReady DEF OInv, BInv, Preparing
  <2>3. Preparing'
    BY <1>6, <2>2 DEF Preparing
  <2>4. Unwinding'
    BY <1>1, <1>2, <1>6, UnwindingDown DEF OInv, Descending
  <2> QED BY <1>2, <2>3, <2>4 DEF OInv, BInv, AInv
<1> QED BY <1>3, <1>4, <1>5, <1>6

\* The innermost command acts, and with it the way up begins.
LEMMA ActCommandOrder == ASSUME IInv, OInv, ActCommand PROVE OInv'
<1>1. pc = "trigger" /\ UNCHANGED <<case, seen>> /\ level \in level .. Depth
  BY DEF ActCommand, Triggered, IInv, Phase, TypeOK, Level
<1>2. CASE Fail /\ UNCHANGED <<panicked, ran>>
  <2>1. Adds({}) /\ BeforePrecedesAction' /\ AfterUnwinds'
    BY <1>1, <1>2, AddsNothing
  <2> QED BY <1>2, <2>1, FailingKeeps DEF Fail
<1>3. CASE Perform(<<Event("act", level, Self)>>, Continue("after", 1))
  <2> DEFINE x == Event("act", level, Self)
  <2>1. /\ Adds({x}) /\ BeforePrecedesAction' /\ AfterUnwinds'
        /\ \/ Continue("after", 1) /\ x \in Ran'
           \/ pc' = "failed" /\ OInv'
    <3>1. Self \in Target /\ pc \in {"trigger", "self"}
      BY <1>1 DEF Target
    <3> HIDE DEF x
    <3> QED BY <1>1, <1>3, <3>1, ActionInOrder DEF x
  <2>2. CASE Continue("after", 1) /\ x \in Ran'
    <3>1. pc' = "after" /\ level' = level
      BY <2>2 DEF Continue
    <3>2. Preparing'
      <4>1. Ready(level) /\ Ready(level)'
        BY <1>1, <2>1, <3>1, ReadyWhenTriggering, StaysReady
      <4> QED BY <2>1, <3>1, <4>1, PreparingKept DEF OInv
    <3>3. \A e \in Ran' : e.at <= level /\ e.ev # "after" /\ e.at \in Int
      <4>1. x.at = level /\ x.ev # "after" /\ level \in Int
        BY RanHasLevels DEF Event
      <4>2. \A e \in Ran : e.at <= level /\ e.ev # "after" /\ e.at \in Int
        BY <1>1, RanHasLevels DEF OInv, AInv, Unwinding, Descending
      <4> HIDE DEF x
      <4> QED BY <2>1, <4>1, <4>2 DEF Adds
    <3>4. Unwinding'
      <4>1. \E k \in level .. Depth : Event("act", k, Self) \in Ran'
        BY <1>1, <2>2
      <4>2. \A e \in Ran' : ~(e.at > level')
        BY <3>1, <3>3, RanHasLevels
      <4> QED BY <3>1, <3>3, <4>1, <4>2 DEF Unwinding, Descending
    <3> QED BY <2>1, <3>2, <3>4 DEF OInv, BInv, AInv
  <2> QED BY <2>1, <2>2
<1> QED BY <1>2, <1>3 DEF ActCommand

\* A command which is resumed after its sub-command does not act.
LEMMA PassThroughOrder == ASSUME IInv, OInv, PassThrough PROVE OInv'
<1>1. pc = "self"
  <2>1. SUFFICES ASSUME pc = "trigger" PROVE FALSE
    BY DEF PassThrough, Triggered
  <2>2. level \in 1 .. level - 1
    BY <2>1 DEF PassThrough, IInv, Phase, Descending
  <2> QED BY <2>2 DEF IInv, TypeOK, Level
<1>2. pc' = "after" /\ UNCHANGED level
  BY DEF PassThrough, Continue
<1>3. Adds({}) /\ BeforePrecedesAction' /\ AfterUnwinds'
  BY <1>1, AddsNothing DEF PassThrough
<1>4. Ready(level) /\ Ready(level)'
  BY <1>1, <1>2, <1>3, ReadyWhenTriggering, StaysReady
<1>5. Preparing'
  BY <1>2, <1>3, <1>4, PreparingKept DEF OInv
<1>6. Unwinding'
  BY <1>1, <1>2, <1>3, UnwindingUp DEF OInv, Ascending
<1> QED BY <1>3, <1>5, <1>6 DEF OInv, BInv, AInv

\* When the last of a piece of user code was called, all of it was.
LEMMA LastIsCalledLast ==
  ASSUME ran \in Seq(UserCode), NEW s \in Seq(UserCode), NEW x \in UserCode,
         x \notin RangeOf(s), Calls(s \o <<x>>), x \in Ran'
  PROVE  x \in Ran \/ RangeOf(s) \subseteq Ran'
<1>1. PICK t : t = s \o <<x>>
  OBVIOUS
<1>2. /\ t \in Seq(UserCode) /\ Len(t) = Len(s) + 1 /\ Len(s) \in Nat
      /\ DOMAIN t = 1 .. Len(s) + 1 /\ DOMAIN s = 1 .. Len(s)
      /\ \A m \in 1 .. Len(s) : t[m] = s[m]
  BY <1>1
<1>3. Ran = RangeOf(ran) /\ Ran' = RangeOf(ran')
  BY DEF Ran, RangeOf
<1>4. RangeOf(s) \subseteq RangeOf(t)
  BY <1>2 DEF RangeOf
<1>5. CASE ran' = ran \o t
  BY <1>2, <1>3, <1>4, <1>5, Ranges
<1>6. ASSUME NEW n \in DOMAIN t, ran' = ran \o SubSeq(t, 1, n)
      PROVE  x \in Ran \/ RangeOf(s) \subseteq Ran'
  <2>1. /\ SubSeq(t, 1, n) \in Seq(UserCode)
        /\ DOMAIN SubSeq(t, 1, n) = 1 .. n
        /\ \A m \in 1 .. n : SubSeq(t, 1, n)[m] = t[m]
    BY <1>2
  <2>2. Ran' = Ran \cup RangeOf(SubSeq(t, 1, n))
    BY <1>3, <1>6, <2>1, Ranges
  <2>3. CASE n = Len(s) + 1
    <3>1. RangeOf(s) \subseteq RangeOf(SubSeq(t, 1, n))
      <4>1. \A m \in DOMAIN s : /\ m \in DOMAIN SubSeq(t, 1, n)
                                /\ SubSeq(t, 1, n)[m] = s[m]
        BY <1>2, <2>1, <2>3
      <4> QED BY <4>1 DEF RangeOf
    <3> QED BY <2>2, <3>1
  <2>4. CASE n <= Len(s)
    <3>1. RangeOf(SubSeq(t, 1, n)) \subseteq RangeOf(s)
      <4>1. \A m \in 1 .. n : m \in 1 .. Len(s) /\ SubSeq(t, 1, n)[m] = s[m]
        BY <1>2, <2>1, <2>4
      <4> QED BY <1>2, <2>1, <4>1 DEF RangeOf
    <3> QED BY <2>2, <3>1
  <2> QED BY <1>2, <2>3, <2>4
<1>7. ran' = ran \o t \/ \E n \in DOMAIN t : ran' = ran \o SubSeq(t, 1, n)
  BY <1>1 DEF Calls
<1> QED BY <1>5, <1>6, <1>7

\* The hooks and the After pipeline of a target, on the way up.
LEMMA AfterFlow ==
  ASSUME IInv, OInv, UNCHANGED <<case, seen>>, NEW o \in Target,
         NEW ACTION goOn,
         Perform(Tunnel(level, level, o) \o <<Event("after", level, o)>>, goOn),
         Ascending, pc # "self"
  PROVE  \E new : /\ Adds(new) /\ BeforePrecedesAction' /\ AfterUnwinds'
                  /\ \/ goOn /\ Event("after", level, o) \in Ran'
                     \/ pc' = "failed" /\ OInv'
<1> DEFINE e == Event("after", level, o)
           hooks == Tunnel(level, level, o)
           t == hooks \o <<e>>
<1>1. level \in Level /\ level \in 0 .. Depth /\ TypeOK
  BY DepthAssumption DEF IInv, TypeOK, Level
<1>2. /\ e \in UserCode /\ hooks \in Seq(UserCode)
      /\ RangeOf(hooks) = {Hook("hookAfter", j, level, o) : j \in 1 .. level}
  BY <1>1, EventsTyped, HooksOf
<1>3. e.at = level /\ e.ev = "after" /\ e.opt = o
  BY DEF Event
<1>4. <<e>> \in Seq(UserCode) /\ RangeOf(<<e>>) = {e}
  <2> HIDE DEF e, hooks
  <2> QED BY <1>2, Ranges
<1>5. t \in Seq(UserCode) /\ RangeOf(t) = RangeOf(hooks) \cup {e}
  <2>1. \A s, r \in Seq(UserCode) : s \o r \in Seq(UserCode)
    OBVIOUS
  <2>2. t \in Seq(UserCode) /\ RangeOf(t) = RangeOf(hooks) \cup RangeOf(<<e>>)
    <3> HIDE DEF e, hooks
    <3> QED BY <1>2, <1>4, <2>1, Ranges
  <2> HIDE DEF e, hooks, t
  <2> QED BY <1>4, <2>2
<1>6. \A x \in RangeOf(hooks) : x.at = level /\ x.ev = "hookAfter"
  BY <1>2 DEF Hook
<1>7. \A x \in RangeOf(t) : x.at = level /\ x.ev # "act"
  <2> HIDE DEF e, hooks, t
  <2> QED BY <1>3, <1>5, <1>6
<1>8. Perform(t, goOn)
  OBVIOUS
<1> HIDE DEF t
<1>9. /\ Adds(RangeOf(t))
      /\ \/ goOn /\ RangeOf(t) \subseteq Ran'
         \/ pc' = "failed" /\ UNCHANGED <<level, i>>
  BY <1>1, <1>5, <1>7, <1>8, PerformedAll
<1>10. BeforePrecedesAction'
  BY <1>7, <1>9, ActionsAfterReady DEF OInv
<1>11. AfterUnwinds'
  <2>1. ASSUME NEW x \in Ran', x.ev = "after", x \notin Ran
        PROVE  x.at = level /\ \A j \in 1 .. level : Hook("hookAfter", j, level, x.opt) \in Ran'
    <3>1. x = e
      BY <1>5, <1>6, <1>9, <2>1 DEF Adds
    <3>2. e \notin RangeOf(hooks) /\ Calls(hooks \o <<e>>) /\ ran \in Seq(UserCode)
      <4>1. Calls(t)
        BY <1>8 DEF Perform, Calls
      <4> QED BY <1>1, <1>3, <1>6, <4>1 DEF t, TypeOK
    <3>3. RangeOf(hooks) \subseteq Ran'
      <4> HIDE DEF e, hooks
      <4> QED BY <1>2, <2>1, <3>1, <3>2, LastIsCalledLast
    <3> QED BY <1>2, <1>3, <3>1, <3>3
  <2>2. pc \notin {"done", "failed"}
    BY DEF Ascending
  <2> QED BY <1>9, <2>1, <2>2, AfterInside DEF OInv
<1>12. pc' = "failed" /\ UNCHANGED <<level, i>> => OInv'
  BY <1>9, <1>10, <1>11, FailingKeeps
<1>13. e \in RangeOf(t)
  BY <1>5
<1> QED BY <1>9, <1>10, <1>11, <1>12, <1>13

\* The After flow of the command begins the loop over its options.
LEMMA AfterCommandOrder == ASSUME IInv, OInv, AfterCommand PROVE OInv'
<1>1. pc = "after" /\ Ascending /\ pc # "self" /\ UNCHANGED <<case, seen>>
      /\ Self \in Target /\ level \in Level
  BY DEF AfterCommand, Ascending, Target, IInv, TypeOK
<1>2. Perform(Tunnel(level, level, Self) \o <<Event("after", level, Self)>>,
              Continue("afterOptions", 1))
  BY DEF AfterCommand
<1>3. PICK new : /\ Adds(new) /\ BeforePrecedesAction' /\ AfterUnwinds'
                 /\ \/ /\ Continue("afterOptions", 1)
                       /\ Event("after", level, Self) \in Ran'
                    \/ pc' = "failed" /\ OInv'
  BY <1>1, <1>2, AfterFlow
<1>4. CASE Continue("afterOptions", 1) /\ Event("after", level, Self) \in Ran'
  <2>1. pc' = "afterOptions" /\ i' = 1 /\ level' = level
    BY <1>4 DEF Continue
  <2>2. Ready(level) /\ Ready(level)'
    BY <1>1, <1>3, <2>1, ReadyWhenTriggering, StaysReady
  <2>3. Preparing'
    BY <1>3, <2>1, <2>2, PreparingKept DEF OInv
  <2>4. \A n \in DOMAIN LocalOptions(level) : ~(n < i')
    BY <1>1, <2>1, OptionsTyped
  <2>5. Unwinding'
    BY <1>1, <1>3, <1>4, <2>1, <2>4, UnwindingUp DEF OInv
  <2> QED BY <1>3, <2>3, <2>5 DEF OInv, BInv, AInv
<1> QED BY <1>3, <1>4

\* The After flow of the next option.
LEMMA AfterOptionOrder == ASSUME IInv, OInv, AfterOption PROVE OInv'
<1>1. PICK o : o = LocalOptions(level)[i]
  OBVIOUS
<1>2. /\ pc = "afterOptions" /\ Ascending /\ pc # "self" /\ UNCHANGED <<case, seen>>
      /\ level \in Level /\ i \in Nat \ {0} /\ i <= Len(LocalOptions(level))
      /\ o \in Target
  BY <1>1, OptionsTyped DEF AfterOption, Ascending, Target, IInv, TypeOK
<1>3. Perform(Tunnel(level, level, o) \o <<Event("after", level, o)>>,
              Continue("afterOptions", i + 1))
  BY <1>1 DEF AfterOption
<1>4. PICK new : /\ Adds(new) /\ BeforePrecedesAction' /\ AfterUnwinds'
                 /\ \/ /\ Continue("afterOptions", i + 1)
                       /\ Event("after", level, o) \in Ran'
                    \/ pc' = "failed" /\ OInv'
  BY <1>2, <1>3, AfterFlow
<1>5. CASE Continue("afterOptions", i + 1) /\ Event("after", level, o) \in Ran'
  <2>1. pc' = "afterOptions" /\ i' = i + 1 /\ level' = level
    BY <1>5 DEF Continue
  <2>2. Ready(level) /\ Ready(level)'
    BY <1>2, <1>4, <2>1, ReadyWhenTriggering, StaysReady
  <2>3. Preparing'
    BY <1>4, <2>1, <2>2, PreparingKept DEF OInv
  <2>4. ASSUME NEW n \in DOMAIN LocalOptions(level), n < i'
        PROVE  Event("after", level, LocalOptions(level)[n]) \in Ran'
    <3>1. n < i \/ n = i
      BY <1>2, <2>1, <2>4, OptionsTyped
    <3>2. CASE n < i
      BY <1>2, <1>4, <3>2 DEF OInv, AInv, Unwinding, Adds
    <3>3. CASE n = i
      BY <1>1, <1>5, <3>3
    <3> QED BY <3>1, <3>2, <3>3
  <2>5. Event("after", level, Self) \in Ran'
    BY <1>2, <1>4 DEF OInv, AInv, Unwinding, Adds
  <2>6. Unwinding'
    BY <1>2, <1>4, <2>1, <2>4, <2>5, UnwindingUp DEF OInv
  <2> QED BY <1>4, <2>3, <2>6 DEF OInv, BInv, AInv
<1> QED BY <1>4, <1>5

\* A command is left when its After flow is complete and nothing panicked in it.
LEMMA ReturnOrder == ASSUME IInv, OInv, Return PROVE OInv'
<1>1. /\ pc = "afterOptions" /\ level \in Level /\ i > Len(LocalOptions(level))
      /\ i \in Nat /\ UNCHANGED <<case, seen, panicked, ran>> /\ Ascending
  BY DEF Return, IInv, TypeOK, Ascending
<1>2. Adds({}) /\ BeforePrecedesAction' /\ AfterUnwinds'
  BY <1>1, AddsNothing
<1>3. CASE Fail
  BY <1>2, <1>3, FailingKeeps DEF Fail
<1>4. CASE level = 1 /\ Continue("done", 1)
  BY <1>2, <1>4, PreparingKept, UnwindingEnds DEF Continue, OInv, BInv, AInv
<1>5. CASE /\ ~(\E k \in 1 .. level : k \in panicked)
           /\ level # 1 /\ level' = level - 1 /\ pc' = ResumeAt
  <2>1. pc' = "self" /\ level - 1 \in 1 .. level - 1 /\ level \in 1 .. level
        /\ level \in Int /\ Depth \in Int
    BY <1>1, <1>5, DepthAssumption DEF ResumeAt, Level
  <2>2. Preparing'
    <3>1. \A k \in 1 .. level - 1 : Ready(k)'
      BY <1>2, StaysReady DEF OInv, BInv, Preparing
    <3>2. 1 .. level' - 1 \subseteq 1 .. level - 1 /\ level' \in 1 .. level - 1
      BY <1>5, <2>1
    <3> QED BY <2>1, <3>1, <3>2 DEF Preparing
  <2>3. Left(level)
    <3>1. \A n \in DOMAIN LocalOptions(level) : n < i
      BY <1>1, OptionsTyped
    <3>2. \A opt \in TargetsOf(level) : Event("after", level, opt) \in Ran
      BY <1>1, <3>1, TargetsAreLocal DEF OInv, AInv, Unwinding
    <3> QED BY <1>5, <2>1, <3>2 DEF Left
  <2>4. UNCHANGED Ran /\ \A k : Left(k) => Left(k)'
    BY <1>1 DEF Ran, Left, TargetsOf
  <2>5. \A e \in Ran : /\ e.at > level' => e.at = level \/ e.at > level
                       /\ e.at >= level => e.at >= level'
    BY <1>5, <2>1, RanHasLevels
  <2>6. \A e \in Ran' : /\ e.at > level' => Left(e.at)'
                        /\ e.ev = "after" => e.at >= level'
    BY <1>1, <2>3, <2>4, <2>5 DEF OInv, AInv, Unwinding
  <2>7. \E k \in level' .. Depth : Event("act", k, Self) \in Ran'
    <3>1. level .. Depth \subseteq level' .. Depth
      BY <1>5, <2>1
    <3> QED BY <1>1, <2>4, <3>1 DEF OInv, AInv, Unwinding
  <2>8. Unwinding'
    BY <2>1, <2>6, <2>7 DEF Unwinding, Descending
  <2> QED BY <1>2, <2>2, <2>8 DEF OInv, BInv, AInv
<1> QED BY <1>3, <1>4, <1>5 DEF Return

-----------------------------------------------------------------------------
(* The theorems *)

\* Nothing ran and nothing was entered.
LEMMA OrderInitially == ASSUME Init PROVE OInv
<1>1. Ran = {} /\ pc = "parse" /\ 1 .. level - 1 = {}
  BY DEF Init, Ran
<1> QED BY <1>1 DEF OInv, BInv, AInv, Preparing, Unwinding, Descending, Ascending,
                    BeforePrecedesAction, AfterUnwinds

\* Every step preserves the order.
LEMMA OrderStep == ASSUME IInv, OInv, [Next]_vars PROVE OInv'
<1>1. CASE Next
  BY <1>1, ParseOrder, BeforeCommandOrder, BeforeOptionOrder, BeforeAncestorsOrder,
     PassOverOrder, ActOptionOrder, InvokeOrder, ActCommandOrder, PassThroughOrder,
     AfterCommandOrder, AfterOptionOrder, ReturnOrder DEF Next
<1>2. CASE UNCHANGED vars
  <2>1. UNCHANGED <<case, pc, level, i, seen, panicked, ran>>
    BY <1>2 DEF vars
  <2>2. UNCHANGED <<Ran, Entered>>
    BY <2>1 DEF Ran, Entered
  <2>3. \A k : Left(k) = Left(k)' /\ Ready(k) = Ready(k)'
               /\ \A opt : Prepared(k, opt) = Prepared(k, opt)'
    BY <2>1, <2>2 DEF Left, Ready, Prepared, Missing, TargetsOf
  <2>4. Preparing'
    BY <2>1, <2>2, <2>3 DEF OInv, BInv, Preparing
  <2>5. Unwinding'
    BY <2>1, <2>2, <2>3 DEF OInv, AInv, Unwinding, Descending, Ascending
  <2>6. BeforePrecedesAction' /\ AfterUnwinds'
    BY <2>1, <2>2 DEF OInv, BInv, AInv, BeforePrecedesAction, AfterUnwinds, Missing, TargetsOf
  <2> QED BY <2>4, <2>5, <2>6 DEF OInv, BInv, AInv
<1> QED BY <1>1, <1>2

\* In every reachable state the Before flows are complete down to the level
\* which acts, and the After flows of the commands which were left.
THEOREM OrderInvariant == Spec => []OInv
<1>1. Init => OInv
  BY OrderInitially
<1>2. IInv /\ OInv /\ [Next]_vars => OInv'
  BY OrderStep
<1> QED BY <1>1, <1>2, Invariant, PTL DEF Spec

\* For chains of every length: whatever acts, the Before pipelines and hooks of
\* every command down to it and of all their options ran, and no required
\* option is missing.
THEOREM BeforeComesFirst == Spec => []BeforePrecedesAction
<1>1. OInv => BeforePrecedesAction
  BY DEF OInv, BInv
<1> QED BY <1>1, OrderInvariant, PTL

\* For chains of every length: an After pipeline finds the commands inside left
\* completely and without a panic, and some command acted.
THEOREM AfterComesLast == Spec => []AfterUnwinds
<1>1. OInv => AfterUnwinds
  BY DEF OInv, AInv
<1> QED BY <1>1, OrderInvariant, PTL

-----------------------------------------------------------------------------
(* What a command triggers *)

\* Among numbers there is a least one.
LEMMA LeastNumber ==
  ASSUME NEW S \in SUBSET Nat, S # {}
  PROVE  \E n \in S : \A m \in S : n <= m
<1> DEFINE R == OpToRel(<, Nat)
<1>1. IsWellFoundedOn(R, Nat)
  BY NatLessThanWellFounded
<1>2. \A m, n \in Nat : m < n => <<m, n>> \in R
  BY DEF OpToRel
<1> HIDE DEF R
<1>3. PICK n \in S : \A m \in S : ~(<<m, n>> \in R)
  BY <1>1, WFMin
<1>4. ASSUME NEW m \in S, m < n PROVE FALSE
  <2>1. m \in Nat /\ n \in Nat
    OBVIOUS
  <2>2. <<m, n>> \in R
    BY <2>1, <1>4, <1>2, Zenon
  <2> QED BY <2>2, <1>3
<1> QED BY <1>4

\* Option x may act before y: flags act before args, the flags of outer
\* commands first, and nothing acts twice.
Precedes(x, y) ==
  /\ x # Self /\ x # y
  /\ y \in Flag => x \in Flag /\ Owner(x) <= Owner(y)

Arranged(s) == \A m, n \in DOMAIN s : m < n => Precedes(s[m], s[n])

\* An option belongs to one command.
LEMMA OwnerIs ==
  ASSUME NEW k \in Level, NEW o \in FlagsOf(k) \cup ArgsOf(k)
  PROVE  Owner(o) = k
<1>1. ASSUME NEW j \in Level, o \in FlagsOf(j) \cup ArgsOf(j) PROVE j = k
  <2>1. o # Self /\ o \in TargetsOf(j) /\ o \in TargetsOf(k)
    BY <1>1, OptionsTyped DEF TargetsOf
  <2>2. PICK m \in DOMAIN LocalOptions(j), n \in DOMAIN LocalOptions(k) :
               LocalOptions(j)[m] = o /\ LocalOptions(k)[n] = o
    BY <2>1, TargetsAreLocal
  <2> QED BY <2>2, OptionAssumption
<1> QED BY <1>1 DEF Owner

\* The flags of a command may act in their order, and so may its args.
LEMMA LocalArranged ==
  ASSUME NEW k \in Level
  PROVE  /\ LocalFlags[k] \in Seq(Option) /\ RangeOf(LocalFlags[k]) = FlagsOf(k)
         /\ LocalArgs[k] \in Seq(Option) /\ RangeOf(LocalArgs[k]) = ArgsOf(k)
         /\ Arranged(LocalFlags[k]) /\ Arranged(LocalArgs[k])
<1>1. LocalFlags[k] \in Seq(Option) /\ LocalArgs[k] \in Seq(Option)
  <2>1. LocalFlags[k] \in Seq(Flag) /\ Flag \subseteq Option
    BY OptionAssumption DEF Option
  <2> QED BY <2>1, OptionAssumption
<1>2. RangeOf(LocalFlags[k]) = FlagsOf(k) /\ RangeOf(LocalArgs[k]) = ArgsOf(k)
  BY DEF RangeOf, FlagsOf, ArgsOf
<1>3. ASSUME NEW s \in Seq(Option), NEW t \in Seq(Option),
             \A m, n \in DOMAIN (s \o t) : (s \o t)[m] = (s \o t)[n] => m = n
      PROVE  /\ \A m, n \in DOMAIN s : s[m] = s[n] => m = n
             /\ \A m, n \in DOMAIN t : t[m] = t[n] => m = n
  <2>1. /\ \A n \in DOMAIN s : n \in DOMAIN (s \o t) /\ (s \o t)[n] = s[n]
        /\ \A n \in DOMAIN t : /\ Len(s) + n \in DOMAIN (s \o t)
                               /\ (s \o t)[Len(s) + n] = t[n]
        /\ Len(s) \in Int /\ DOMAIN t \subseteq Int
    OBVIOUS
  <2>2. \A m, n \in DOMAIN s : s[m] = s[n] => m = n
    BY <1>3, <2>1
  <2>3. ASSUME NEW m \in DOMAIN t, NEW n \in DOMAIN t, t[m] = t[n] PROVE m = n
    <3>1. Len(s) + m = Len(s) + n
      BY <1>3, <2>1, <2>3
    <3> QED BY <2>1, <3>1
  <2> QED BY <2>2, <2>3
<1>4. /\ \A m, n \in DOMAIN LocalFlags[k] : LocalFlags[k][m] = LocalFlags[k][n] => m = n
      /\ \A m, n \in DOMAIN LocalArgs[k] : LocalArgs[k][m] = LocalArgs[k][n] => m = n
  <2>1. \A m, n \in DOMAIN LocalOptions(k) : LocalOptions(k)[m] = LocalOptions(k)[n] => m = n
    BY OptionAssumption
  <2> QED BY <1>1, <1>3, <2>1 DEF LocalOptions
<1>5. /\ \A x \in FlagsOf(k) : x \in Flag /\ x # Self /\ Owner(x) = k
      /\ \A x \in ArgsOf(k) : x \notin Flag /\ x # Self
  BY OptionsTyped, OwnerIs, OptionAssumption DEF Flag
<1>6. k \in Int /\ DOMAIN LocalFlags[k] \subseteq Int /\ DOMAIN LocalArgs[k] \subseteq Int
  BY <1>1 DEF Level
<1>7. Arranged(LocalFlags[k])
  <2>1. ASSUME NEW m \in DOMAIN LocalFlags[k], NEW n \in DOMAIN LocalFlags[k], m < n
        PROVE  Precedes(LocalFlags[k][m], LocalFlags[k][n])
    <3>1. LocalFlags[k][m] \in FlagsOf(k) /\ LocalFlags[k][n] \in FlagsOf(k)
      BY <1>2 DEF RangeOf
    <3>2. LocalFlags[k][m] # LocalFlags[k][n]
      BY <1>4, <1>6, <2>1
    <3> QED BY <1>5, <1>6, <3>1, <3>2 DEF Precedes
  <2> QED BY <2>1 DEF Arranged
<1>8. Arranged(LocalArgs[k])
  <2>1. ASSUME NEW m \in DOMAIN LocalArgs[k], NEW n \in DOMAIN LocalArgs[k], m < n
        PROVE  Precedes(LocalArgs[k][m], LocalArgs[k][n])
    <3>1. LocalArgs[k][m] \in ArgsOf(k) /\ LocalArgs[k][n] \in ArgsOf(k)
      BY <1>2 DEF RangeOf
    <3>2. LocalArgs[k][m] # LocalArgs[k][n]
      BY <1>4, <1>6, <2>1
    <3> QED BY <1>5, <3>1, <3>2 DEF Precedes
  <2> QED BY <2>1 DEF Arranged
<1> QED BY <1>1, <1>2, <1>7, <1>8

\* Options of two sequences, if those of the first may act before the others.
LEMMA ArrangedTogether ==
  ASSUME NEW s \in Seq(Option), NEW t \in Seq(Option), Arranged(s), Arranged(t),
         \A x \in RangeOf(s), y \in RangeOf(t) : Precedes(x, y)
  PROVE  /\ s \o t \in Seq(Option)
         /\ RangeOf(s \o t) = RangeOf(s) \cup RangeOf(t)
         /\ Arranged(s \o t)
<1>1. PICK r : r = s \o t
  OBVIOUS
<1>2. /\ r \in Seq(Option) /\ Len(s) \in Nat
      /\ DOMAIN r \subseteq Int /\ DOMAIN s = 1 .. Len(s)
      /\ \A n \in DOMAIN s : n \in DOMAIN r /\ r[n] = s[n]
      /\ \A n \in DOMAIN t : Len(s) + n \in DOMAIN r /\ r[Len(s) + n] = t[n]
      /\ \A n \in DOMAIN r : \/ n \in DOMAIN s /\ r[n] = s[n]
                             \/ n - Len(s) \in DOMAIN t /\ n > Len(s) /\ r[n] = t[n - Len(s)]
  BY <1>1
<1>3. RangeOf(r) = RangeOf(s) \cup RangeOf(t)
  <2>1. /\ RangeOf(s) \subseteq RangeOf(r) /\ RangeOf(t) \subseteq RangeOf(r)
    BY <1>2 DEF RangeOf
  <2>2. RangeOf(r) \subseteq RangeOf(s) \cup RangeOf(t)
    BY <1>2 DEF RangeOf
  <2> QED BY <2>1, <2>2
<1>4. ASSUME NEW m \in DOMAIN r, NEW n \in DOMAIN r, m < n PROVE Precedes(r[m], r[n])
  <2>1. CASE m \in DOMAIN s /\ r[m] = s[m] /\ n \in DOMAIN s /\ r[n] = s[n]
    BY <1>4, <2>1 DEF Arranged
  <2>2. CASE m \in DOMAIN s /\ r[m] = s[m] /\ n - Len(s) \in DOMAIN t /\ r[n] = t[n - Len(s)]
    <3>1. s[m] \in RangeOf(s) /\ t[n - Len(s)] \in RangeOf(t)
      BY <2>2 DEF RangeOf
    <3> QED BY <2>2, <3>1
  <2>3. CASE /\ m - Len(s) \in DOMAIN t /\ r[m] = t[m - Len(s)]
             /\ n - Len(s) \in DOMAIN t /\ r[n] = t[n - Len(s)]
    <3>1. m - Len(s) < n - Len(s)
      BY <1>2, <1>4
    <3> QED BY <2>3, <3>1 DEF Arranged
  <2>4. ~(m > Len(s) /\ n \in DOMAIN s)
    BY <1>2, <1>4
  <2> QED BY <1>2, <2>1, <2>2, <2>3, <2>4
<1> QED BY <1>1, <1>2, <1>3, <1>4 DEF Arranged

\* A function which puts the flags of the outermost n commands together.
PutsTogether(f, n) ==
  f = [k \in 0 .. n |-> IF k = 0 THEN <<>> ELSE f[k - 1] \o LocalFlags[k]]

\* There is one for each number of commands.
LEMMA FlagsDefined == ASSUME NEW n \in Nat PROVE \E f : PutsTogether(f, n)
<1> DEFINE Open == {k \in Nat : ~ \E f : PutsTogether(f, k)}
<1>1. SUFFICES ASSUME Open # {} PROVE FALSE
  OBVIOUS
<1>2. PICK k \in Open : \A m \in Open : k <= m
  BY <1>1, LeastNumber
<1>3. CASE k = 0
  <2>1. PutsTogether([j \in 0 .. 0 |-> <<>>], 0)
    BY DEF PutsTogether
  <2> QED BY <2>1, <1>3
<1>4. CASE k > 0
  <2>1. k - 1 \in Nat /\ k - 1 \notin Open
    BY <1>2, <1>4
  <2>2. PICK g : PutsTogether(g, k - 1)
    BY <2>1
  <2> DEFINE f == [j \in 0 .. k |-> IF j = k THEN g[k - 1] \o LocalFlags[k] ELSE g[j]]
  <2>3. \A j \in 0 .. k : f[j] = IF j = 0 THEN <<>> ELSE f[j - 1] \o LocalFlags[j]
    BY <2>1, <2>2, <1>4 DEF PutsTogether
  <2>4. PutsTogether(f, k)
    BY <2>3 DEF PutsTogether
  <2> QED BY <2>4
<1> QED BY <1>3, <1>4

\* The flags of the commands down to one are those of the command around it,
\* followed by its own.
LEMMA FlagsUnfold ==
  /\ flagsInOrder[0] = <<>>
  /\ \A k \in Level : flagsInOrder[k] = flagsInOrder[k - 1] \o LocalFlags[k]
<1>1. Depth \in Nat
  BY DepthAssumption
<1>2. \E f : PutsTogether(f, Depth)
  BY <1>1, FlagsDefined
<1>3. PutsTogether(flagsInOrder, Depth)
  BY <1>2, Zenon DEF flagsInOrder, PutsTogether
<1> HIDE DEF flagsInOrder
<1>4. \A k \in 0 .. Depth :
        flagsInOrder[k] = IF k = 0 THEN <<>> ELSE flagsInOrder[k - 1] \o LocalFlags[k]
  BY <1>3 DEF PutsTogether
<1>5. 0 \in 0 .. Depth /\ \A k \in Level : k \in 0 .. Depth /\ k # 0
  BY <1>1 DEF Level
<1>6. flagsInOrder[0] = <<>>
  BY <1>4, <1>5, Zenon
<1>7. ASSUME NEW k \in Level PROVE flagsInOrder[k] = flagsInOrder[k - 1] \o LocalFlags[k]
  BY <1>4, <1>5, Zenon
<1> QED BY <1>6, <1>7

FlagsTo(k) == UNION {FlagsOf(j) : j \in 1 .. k}

\* One command more adds its flags to those of the commands around it.
LEMMA FlagsGrow ==
  ASSUME NEW n \in Level
  PROVE  FlagsTo(0) = {} /\ FlagsTo(n) = FlagsTo(n - 1) \cup FlagsOf(n)
<1>1. n \in Int /\ 1 .. 0 = {} /\ \A j : j \in 1 .. n <=> j \in 1 .. n - 1 \/ j = n
  BY DEF Level
<1>2. ASSUME NEW k, NEW x PROVE x \in FlagsTo(k) <=> \E j \in 1 .. k : x \in FlagsOf(j)
  BY DEF FlagsTo
<1>3. \A x : x \in FlagsTo(n) <=> x \in FlagsTo(n - 1) \/ x \in FlagsOf(n)
  BY <1>1, <1>2, Zenon
<1>4. \A x : x \notin FlagsTo(0)
  BY <1>1, <1>2
<1> QED BY <1>3, <1>4

\* The flags of the commands down to one, and that they may act in this order.
LEMMA FlagsArranged ==
  ASSUME NEW k \in 0 .. Depth
  PROVE  /\ flagsInOrder[k] \in Seq(Option) /\ Arranged(flagsInOrder[k])
         /\ RangeOf(flagsInOrder[k]) = FlagsTo(k)
<1> DEFINE Good(n) ==
      /\ flagsInOrder[n] \in Seq(Option) /\ Arranged(flagsInOrder[n])
      /\ RangeOf(flagsInOrder[n]) = FlagsTo(n)
<1>1. Depth \in Nat
  BY DepthAssumption
<1>2. Good(0)
  <2>1. flagsInOrder[0] = <<>> /\ DOMAIN <<>> = {} /\ FlagsTo(0) = {}
    BY FlagsUnfold, FlagsGrow, DepthAssumption DEF Level
  <2> QED BY <2>1 DEF Arranged, RangeOf
<1>3. ASSUME NEW n \in Level, Good(n - 1) PROVE Good(n)
  <2>1. n - 1 \in 0 .. Depth /\ n \in Int
    BY <1>1 DEF Level
  <2>2. PICK s : s = flagsInOrder[n - 1]
    OBVIOUS
  <2>3. flagsInOrder[n] = s \o LocalFlags[n]
    BY <2>2, FlagsUnfold
  <2>4. s \in Seq(Option) /\ Arranged(s) /\ RangeOf(s) = FlagsTo(n - 1)
    BY <1>3, <2>2
  <2>5. ASSUME NEW x \in RangeOf(s), NEW y \in FlagsOf(n) PROVE Precedes(x, y)
    <3>1. PICK j \in 1 .. n - 1 : x \in FlagsOf(j)
      BY <2>4 DEF FlagsTo
    <3>2. j \in Level /\ j < n /\ j <= n
      BY <1>1, <2>1 DEF Level
    <3>3. x \in Flag /\ x # Self /\ Owner(x) = j /\ Owner(y) = n
      BY <3>1, <3>2, OwnerIs, OptionsTyped
    <3> QED BY <3>2, <3>3 DEF Precedes
  <2>6. /\ s \o LocalFlags[n] \in Seq(Option) /\ Arranged(s \o LocalFlags[n])
        /\ RangeOf(s \o LocalFlags[n]) = RangeOf(s) \cup FlagsOf(n)
    BY <2>4, <2>5, LocalArranged, ArrangedTogether
  <2>7. FlagsTo(n) = FlagsTo(n - 1) \cup FlagsOf(n)
    BY FlagsGrow
  <2> QED BY <2>3, <2>4, <2>6, <2>7
<1> HIDE DEF Good
<1>4. \A n \in 0 .. Depth : Good(n)
  <2> DEFINE Bad == {n \in 0 .. Depth : ~Good(n)}
  <2>1. SUFFICES ASSUME Bad # {} PROVE FALSE
    OBVIOUS
  <2>2. PICK n \in Bad : \A m \in Bad : n <= m
    <3>1. Bad \in SUBSET Nat
      BY <1>1
    <3> HIDE DEF Bad
    <3> QED BY <3>1, <2>1, LeastNumber
  <2>3. n \in Level /\ n - 1 \in 0 .. Depth
    BY <1>1, <1>2 DEF Level
  <2>4. n - 1 \notin Bad
    BY <2>2, <2>3
  <2> QED BY <1>3, <2>3, <2>4
<1> QED BY <1>4 DEF Good

\* What a command triggers: the flags of the chain down to it and its args,
\* which may act in this order.
LEMMA TriggersArranged ==
  ASSUME NEW k \in Level
  PROVE  /\ Triggers(k) \in Seq(Option) /\ Arranged(Triggers(k))
         /\ RangeOf(Triggers(k)) = ArgsOf(k) \cup FlagsTo(k)
<1>1. k \in 0 .. Depth
  BY DepthAssumption DEF Level
<1>2. PICK s : s = flagsInOrder[k]
  OBVIOUS
<1>3. s \in Seq(Option) /\ Arranged(s) /\ RangeOf(s) = FlagsTo(k)
  BY <1>1, <1>2, FlagsArranged
<1>4. ASSUME NEW x \in RangeOf(s), NEW y \in ArgsOf(k) PROVE Precedes(x, y)
  <2>1. PICK j \in 1 .. k : x \in FlagsOf(j)
    BY <1>3 DEF FlagsTo
  <2>2. j \in Level
    BY DepthAssumption DEF Level
  <2>3. x \in Flag /\ x # Self /\ y \notin Flag
    BY <2>1, <2>2, OptionsTyped, OptionAssumption DEF Flag
  <2> QED BY <2>3 DEF Precedes
<1>5. /\ s \o LocalArgs[k] \in Seq(Option) /\ Arranged(s \o LocalArgs[k])
      /\ RangeOf(s \o LocalArgs[k]) = RangeOf(s) \cup ArgsOf(k)
  BY <1>3, <1>4, LocalArranged, ArrangedTogether
<1> QED BY <1>2, <1>3, <1>5 DEF Triggers

-----------------------------------------------------------------------------
(* What acted *)

\* The Actions at a level came in an order in which they may act.
ActedInOrder(k) ==
  \A m, n \in ActsAt(k) : m < n => Precedes(ran[m].opt, ran[n].opt)

\* The options which acted at a level, and those which act before its command.
ActedAt(k) == {o \in Option : Event("act", k, o) \in Ran}
UsedAt(k) == {o \in ArgsOf(k) \cup FlagsTo(k) : o # CommandArg(k) /\ Due(o, k)}
Complete(k) == Event("act", k, Self) \in Ran => ActedAt(k) = UsedAt(k)

\* Where the loop over the options of the level found one which acts.
Passed ==
  {p \in DOMAIN Triggers(level) :
     /\ p < i
     /\ Due(Triggers(level)[p], level) /\ Triggers(level)[p] # CommandArg(level)}

\* Nothing acts at the level before the loop; in the loop, what acted is what
\* the loop found so far.
Acting ==
  /\ pc \in {"parse", "before", "beforeOptions"} => ActsAt(level) = {}
  /\ pc = "trigger" => ActedAt(level) = {Triggers(level)[p] : p \in Passed}

UInv == Acting /\ \A k \in Level : Complete(k) /\ ActedInOrder(k)

\* Which options acted depends on the Actions only.
LEMMA OptionsByActions ==
  ASSUME NEW k
  PROVE  /\ ActedAt(k) = {o \in Option : Event("act", k, o) \in Actions}
         /\ ActedAt(k)' = {o \in Option : Event("act", k, o) \in Actions'}
         /\ Event("act", k, Self) \in Ran <=> Event("act", k, Self) \in Actions
         /\ Event("act", k, Self) \in Ran' <=> Event("act", k, Self) \in Actions'
BY DEF ActedAt, Actions, Event

\* What acted at a level is an option, or the command itself.
LEMMA WhoActed ==
  ASSUME IInv, NEW k \in Level, NEW n \in ActsAt(k)
  PROVE  \/ ran[n].opt \in ActedAt(k)
         \/ ran[n].opt = Self /\ k \in Acted
<1>1. ran[n] \in Ran /\ ran[n].ev = "act" /\ ran[n].at = k /\ ran[n] \in UserCode
  <2>1. ran \in Seq(UserCode)
    BY DEF IInv, TypeOK
  <2> QED BY <2>1 DEF ActsAt, Ran
<1>2. ran[n] = Event("act", k, ran[n].opt) /\ ran[n].opt \in Option \cup {Self}
  BY <1>1 DEF IInv, OwnActions, UserCode, Target
<1> QED BY <1>1, <1>2 DEF ActedAt, Acted

\* Pieces of user code without Actions add nothing to what acted.
LEMMA QuietActs ==
  ASSUME ran \in Seq(UserCode), UNCHANGED ran \/ \E t \in Quiet : Calls(t), NEW k
  PROVE  /\ ActsAt(k)' = ActsAt(k)
         /\ ActedInOrder(k) => ActedInOrder(k)'
         /\ ActedAt(k)' = ActedAt(k)
         /\ Event("act", k, Self) \in Ran' <=> Event("act", k, Self) \in Ran
<1>1. PICK u \in Seq(UserCode) : ran' = ran \o u /\ \A n \in DOMAIN u : u[n].ev # "act"
  <2>1. CASE UNCHANGED ran
    <3>1. <<>> \in Seq(UserCode) /\ ran' = ran \o <<>> /\ DOMAIN <<>> = {}
      BY <2>1
    <3> QED BY <3>1
  <2>2. ASSUME NEW t \in Quiet, Calls(t)
        PROVE  \E u \in Seq(UserCode) : ran' = ran \o u /\ \A n \in DOMAIN u : u[n].ev # "act"
    <3>1. t \in Seq(UserCode) /\ \A n \in DOMAIN t : t[n].ev # "act"
      BY DEF Quiet
    <3>2. CASE ran' = ran \o t
      BY <3>1, <3>2
    <3>3. ASSUME NEW n \in DOMAIN t, ran' = ran \o SubSeq(t, 1, n)
          PROVE  \E u \in Seq(UserCode) :
                   ran' = ran \o u /\ \A m \in DOMAIN u : u[m].ev # "act"
      <4>1. PICK v : v = SubSeq(t, 1, n)
        OBVIOUS
      <4>2. v \in Seq(UserCode) /\ \A m \in DOMAIN v : m \in DOMAIN t /\ v[m] = t[m]
        BY <3>1, <4>1
      <4> QED BY <3>1, <3>3, <4>1, <4>2
    <3> QED BY <2>2, <3>2, <3>3 DEF Calls
  <2> QED BY <2>1, <2>2
<1>2. PICK s : s = ran
  OBVIOUS
<1>3. PICK r : r = ran'
  OBVIOUS
<1>4. /\ \A n \in DOMAIN s : n \in DOMAIN r /\ r[n] = s[n]
      /\ \A n \in DOMAIN r : n \in DOMAIN s \/ r[n].ev # "act"
  <2>1. s \in Seq(UserCode) /\ r = s \o u
    BY <1>1, <1>2, <1>3
  <2>2. /\ \A n \in DOMAIN s : n \in DOMAIN r /\ r[n] = s[n]
        /\ \A n \in DOMAIN r : n \in DOMAIN s \/ (n - Len(s) \in DOMAIN u /\ r[n] = u[n - Len(s)])
    BY <2>1
  <2> QED BY <1>1, <2>2
<1>5. ActsAt(k)' = ActsAt(k) /\ \A n \in ActsAt(k) : ran'[n] = ran[n]
  BY <1>2, <1>3, <1>4 DEF ActsAt
<1>6. ActedInOrder(k) => ActedInOrder(k)'
  BY <1>5 DEF ActedInOrder
<1>7. Actions' = Actions
  BY <1>2, <1>3, <1>4 DEF Actions, Ran
<1> QED BY <1>5, <1>6, <1>7, OptionsByActions

\* r is s with one more event, e.
OneMore(s, e, r) ==
  /\ \A n \in DOMAIN s : n \in DOMAIN r /\ r[n] = s[n] /\ n < Len(s) + 1
  /\ \A n \in DOMAIN r : n \in DOMAIN s \/ (n = Len(s) + 1 /\ r[n] = e)
  /\ DOMAIN r \subseteq Int

\* Appending a sequence of one event adds this event.
LEMMA AppendedOne ==
  ASSUME NEW s \in Seq(UserCode), NEW u \in Seq(UserCode), Len(u) = 1,
         NEW r, r = s \o u
  PROVE  OneMore(s, u[1], r)
<1>1. /\ DOMAIN u = {1} /\ Len(s) \in Nat /\ DOMAIN s = 1 .. Len(s)
  OBVIOUS
<1> DEFINE Joined(v, w) ==
      /\ DOMAIN w \subseteq Int
      /\ \A n \in DOMAIN s : n \in DOMAIN w /\ w[n] = s[n]
      /\ \A n \in DOMAIN w :
           n \in DOMAIN s \/ (n - Len(s) \in DOMAIN v /\ w[n] = v[n - Len(s)])
<1>2. ASSUME NEW v \in Seq(UserCode), NEW w, w = s \o v PROVE Joined(v, w)
  BY <1>2
<1>3. Joined(u, r)
  <2> HIDE DEF Joined
  <2> QED BY <1>2
<1>4. \A n \in DOMAIN r : n \in DOMAIN s \/ (n - Len(s) = 1 /\ r[n] = u[1])
  BY <1>1, <1>3, Zenon
<1> QED BY <1>1, <1>3, <1>4 DEF OneMore

\* An Action which may follow those at its level keeps their order.
LEMMA ActionActs ==
  ASSUME ran \in Seq(UserCode), NEW e \in UserCode, e.ev = "act", Calls(<<e>>),
         NEW k, ActedInOrder(k),
         e.at = k => \A n \in ActsAt(k) : Precedes(ran[n].opt, e.opt)
  PROVE  /\ ActedInOrder(k)'
         /\ ActedAt(k)' = ActedAt(k) \cup {o \in Option : Event("act", k, o) = e}
         /\ Event("act", k, Self) \in Ran' <=>
              Event("act", k, Self) \in Ran \/ Event("act", k, Self) = e
<1>1. PICK u \in Seq(UserCode) : ran' = ran \o u /\ Len(u) = 1 /\ u[1] = e
  <2>1. PICK t : t = <<e>>
    OBVIOUS
  <2>2. t \in Seq(UserCode) /\ DOMAIN t = {1} /\ Len(t) = 1 /\ t[1] = e
    BY <2>1
  <2>3. /\ SubSeq(t, 1, 1) \in Seq(UserCode)
        /\ Len(SubSeq(t, 1, 1)) = 1 /\ SubSeq(t, 1, 1)[1] = e
    BY <2>2
  <2>4. ran' = ran \o t \/ ran' = ran \o SubSeq(t, 1, 1)
    BY <2>1, <2>2 DEF Calls
  <2> QED BY <2>2, <2>3, <2>4
<1>2. PICK s : s = ran
  OBVIOUS
<1>3. PICK r : r = ran'
  OBVIOUS
<1>4. /\ \A n \in DOMAIN s : n \in DOMAIN r /\ r[n] = s[n] /\ n < Len(s) + 1
      /\ \A n \in DOMAIN r : n \in DOMAIN s \/ (n = Len(s) + 1 /\ r[n] = e)
      /\ DOMAIN r \subseteq Int
  <2>1. s \in Seq(UserCode) /\ r = s \o u
    BY <1>1, <1>2, <1>3
  <2>2. OneMore(s, u[1], r)
    BY <1>1, <2>1, AppendedOne
  <2> QED BY <1>1, <2>2 DEF OneMore
<1>5. ASSUME NEW m \in ActsAt(k)', NEW n \in ActsAt(k)', m < n
      PROVE  Precedes(ran'[m].opt, ran'[n].opt)
  <2>1. /\ m \in DOMAIN r /\ r[m].ev = "act" /\ r[m].at = k
        /\ n \in DOMAIN r /\ r[n].ev = "act" /\ r[n].at = k
    BY <1>3 DEF ActsAt
  <2>2. m \in DOMAIN s
    <3>1. SUFFICES ASSUME m = Len(s) + 1 PROVE FALSE
      BY <1>4, <2>1
    <3>2. m \in Int /\ n \in Int /\ (n < Len(s) + 1 \/ n = Len(s) + 1)
      BY <1>4, <2>1
    <3> QED BY <1>5, <3>1, <3>2
  <2>3. m \in ActsAt(k) /\ ran'[m] = ran[m]
    BY <1>2, <1>3, <1>4, <2>1, <2>2 DEF ActsAt
  <2>4. CASE n \in DOMAIN s
    <3>1. n \in ActsAt(k) /\ ran'[n] = ran[n]
      BY <1>2, <1>3, <1>4, <2>1, <2>4 DEF ActsAt
    <3> QED BY <1>5, <2>3, <3>1 DEF ActedInOrder
  <2>5. CASE n = Len(s) + 1 /\ r[n] = e
    BY <1>3, <2>1, <2>3, <2>5
  <2> QED BY <1>4, <2>1, <2>4, <2>5
<1>6. Actions' = Actions \cup {e}
  BY ActionCalled
<1> QED BY <1>5, <1>6, OptionsByActions DEF ActedInOrder

\* A step which calls no Action.
LEMMA NothingActs ==
  ASSUME IInv, UInv, UNCHANGED case, UNCHANGED seen \/ Acted = {},
         UNCHANGED ran \/ \E t \in Quiet : Calls(t)
  PROVE  /\ \A k \in Level : Complete(k)' /\ ActedInOrder(k)'
         /\ \A k : ActsAt(k)' = ActsAt(k) /\ ActedAt(k)' = ActedAt(k)
<1>1. ran \in Seq(UserCode)
  BY DEF IInv, TypeOK
<1>2. \A k : /\ ActsAt(k)' = ActsAt(k) /\ ActedAt(k)' = ActedAt(k)
             /\ ActedInOrder(k) => ActedInOrder(k)'
             /\ Event("act", k, Self) \in Ran' <=> Event("act", k, Self) \in Ran
  BY <1>1, QuietActs
<1>3. ASSUME NEW k \in Level PROVE Complete(k)'
  <2>1. CASE UNCHANGED seen
    <3>1. UsedAt(k)' = UsedAt(k)
      BY <2>1 DEF UsedAt, Due, WasUsed, appliesIn
    <3> QED BY <1>2, <3>1 DEF UInv, Complete
  <2>2. CASE Acted = {}
    <3>1. Event("act", k, Self) \notin Ran
      BY <2>2 DEF Acted
    <3> QED BY <1>2, <3>1 DEF Complete
  <2> QED BY <2>1, <2>2
<1> QED BY <1>2, <1>3 DEF UInv

\* Steps before the loop over options, after it, and out of it on an error.
LEMMA ActingKept ==
  ASSUME IInv, UInv, UNCHANGED case, UNCHANGED seen \/ Acted = {},
         UNCHANGED ran \/ \E t \in Quiet : Calls(t),
         \/ pc' \in {"self", "after", "afterOptions", "done", "failed"}
         \/ /\ pc \in {"parse", "before", "beforeOptions"} /\ UNCHANGED level
            /\ pc' \in {"parse", "before", "beforeOptions"}
  PROVE  UInv'
<1>1. /\ \A k \in Level : Complete(k)' /\ ActedInOrder(k)'
      /\ \A k : ActsAt(k)' = ActsAt(k) /\ ActedAt(k)' = ActedAt(k)
  BY NothingActs
<1>2. Acting'
  BY <1>1 DEF UInv, Acting
<1> QED BY <1>1, <1>2 DEF UInv

\* The pipelines and hooks around the Actions call none.
LEMMA PipelinesAreQuiet ==
  ASSUME IInv, BeforeCommand \/ BeforeOption \/ BeforeAncestors \/ AfterCommand \/ AfterOption
  PROVE  \E t \in Quiet : Calls(t)
<1>1. level \in Level /\ i \in Nat \ {0} /\ Self \in Target
  BY DEF IInv, TypeOK, Target
<1>2. ASSUME NEW t \in Quiet, NEW ACTION goOn, Perform(t, goOn)
      PROVE  \E u \in Quiet : Calls(u)
  BY <1>2 DEF Perform, Calls
<1>3. CASE BeforeCommand
  <2>1. <<Hook("hookBefore", level, level, Self), Event("before", level, Self)>> \in Quiet
    BY <1>1, QuietCode
  <2> QED BY <1>2, <1>3, <2>1 DEF BeforeCommand
<1>4. CASE BeforeOption
  <2>1. PICK o : o = LocalOptions(level)[i]
    OBVIOUS
  <2>2. o \in Target
    BY <1>1, <1>4, <2>1, OptionsTyped DEF BeforeOption, Target
  <2>3. /\ <<Event("before", level, o)>> \in Quiet
        /\ <<Event("before", level, o)>> \o Bubble(level, level, o) \in Quiet
    BY <1>1, <2>2, QuietCode
  <2>4. \/ Perform(<<Event("before", level, o)>>, Fail)
        \/ Perform(<<Event("before", level, o)>> \o Bubble(level, level, o),
                   Continue("beforeOptions", i + 1))
    BY <1>4, <2>1 DEF BeforeOption
  <2> QED BY <1>2, <2>3, <2>4
<1>5. CASE BeforeAncestors
  <2>1. Bubble(level - 1, level, Self) \in Quiet
    BY <1>1, QuietCode
  <2> QED BY <1>2, <1>5, <2>1 DEF BeforeAncestors
<1>6. CASE AfterCommand
  <2>1. Tunnel(level, level, Self) \o <<Event("after", level, Self)>> \in Quiet
    BY <1>1, QuietCode
  <2> QED BY <1>2, <1>6, <2>1 DEF AfterCommand
<1>7. CASE AfterOption
  <2>1. PICK o : o = LocalOptions(level)[i]
    OBVIOUS
  <2>2. o \in Target
    BY <1>1, <1>7, <2>1, OptionsTyped DEF AfterOption, Target
  <2>3. Tunnel(level, level, o) \o <<Event("after", level, o)>> \in Quiet
    BY <1>1, <2>2, QuietCode
  <2> QED BY <1>2, <1>7, <2>1, <2>3 DEF AfterOption
<1> QED BY <1>3, <1>4, <1>5, <1>6, <1>7

-----------------------------------------------------------------------------
(* The loop over the options *)

\* The loop moves on.
LEMMA LoopMovesOn ==
  ASSUME IInv, Triggering, UNCHANGED <<case, level, seen>>, i' = i + 1
  PROVE  Passed' = Passed \cup
           (IF Due(o_i, level) /\ o_i # CommandArg(level) THEN {i} ELSE {})
<1>1. PICK s : s = Triggers(level)
  OBVIOUS
<1>2. level \in Level /\ i \in Nat /\ i \in DOMAIN s /\ DOMAIN s \subseteq Int
  <2>1. level \in Level /\ i \in Nat \ {0}
    BY DEF IInv, TypeOK
  <2>2. s \in Seq(Option)
    BY <1>1, <2>1, TriggersArranged
  <2> QED BY <1>1, <2>1, <2>2 DEF Triggering
<1>3. /\ Triggers(level)' = s /\ level' = level
      /\ \A o : Due(o, level)' <=> Due(o, level)
  BY <1>1 DEF Triggers, Due, appliesIn, WasUsed
<1>4. CommandArg(level)' = CommandArg(level)
  BY DEF CommandArg
<1>5. \A p \in DOMAIN s : p < i + 1 <=> p < i \/ p = i
  BY <1>2
<1>6. \A p \in DOMAIN s : p \in Passed' <=>
        /\ p < i + 1 /\ Due(s[p], level) /\ s[p] # CommandArg(level)
  BY <1>3, <1>4 DEF Passed
<1>7. \A p \in DOMAIN s : p \in Passed <=>
        /\ p < i /\ Due(s[p], level) /\ s[p] # CommandArg(level)
  BY <1>1 DEF Passed
<1>8. Passed \subseteq DOMAIN s /\ Passed' \subseteq DOMAIN s /\ o_i = s[i]
  BY <1>1, <1>3 DEF Passed, o_i
<1> QED BY <1>2, <1>5, <1>6, <1>7, <1>8

\* The loop passes over an option.
LEMMA LoopSkips ==
  ASSUME IInv, UInv, Triggering, UNCHANGED <<case, seen, ran>>,
         Continue("trigger", i + 1), ~(Due(o_i, level) /\ o_i # CommandArg(level))
  PROVE  UInv'
<1>1. /\ \A k \in Level : Complete(k)' /\ ActedInOrder(k)'
      /\ \A k : ActsAt(k)' = ActsAt(k) /\ ActedAt(k)' = ActedAt(k)
  BY NothingActs
<1>2. pc = "trigger" /\ pc' = "trigger" /\ i' = i + 1 /\ level' = level
  BY DEF Triggering, Continue
<1>3. Passed' = Passed
  BY <1>2, LoopMovesOn
<1>4. Triggers(level)' = Triggers(level)
  BY <1>2 DEF Triggers
<1>5. Acting'
  BY <1>1, <1>2, <1>3, <1>4 DEF UInv, Acting
<1> QED BY <1>1, <1>5 DEF UInv

\* An Action at the level of an option or the command, which may follow what
\* acted before it in the loop.
LEMMA LoopActs ==
  ASSUME IInv, UInv, pc = "trigger", UNCHANGED <<case, level, seen>>, NEW o \in Target,
         Calls(<<Event("act", level, o)>>),
         \A p \in Passed : Precedes(Triggers(level)[p], o),
         o = Self => ActedAt(level) = UsedAt(level)
  PROVE  /\ \A k \in Level : Complete(k)' /\ ActedInOrder(k)'
         /\ o # Self => ActedAt(level)' = ActedAt(level) \cup {o}
<1>1. PICK e : e = Event("act", level, o)
  OBVIOUS
<1>2. /\ level \in Level /\ ran \in Seq(UserCode) /\ Acted = {}
      /\ e \in UserCode /\ e.ev = "act" /\ e.at = level /\ e.opt = o
      /\ Calls(<<e>>)
  BY <1>1, EventsTyped DEF IInv, TypeOK, Phase, Descending, Event
<1>3. \A k, x : Event("act", k, x) = e <=> k = level /\ x = o
  BY <1>1 DEF Event
<1>4. \A n \in ActsAt(level) : Precedes(ran[n].opt, e.opt)
  <2>1. ASSUME NEW n \in ActsAt(level) PROVE Precedes(ran[n].opt, o)
    <3>1. ran[n].opt \in ActedAt(level)
      BY <1>2, WhoActed
    <3>2. PICK p \in Passed : ran[n].opt = Triggers(level)[p]
      BY <3>1 DEF UInv, Acting
    <3> QED BY <3>2
  <2> QED BY <1>2, <2>1
<1>5. ASSUME NEW k \in Level
      PROVE  /\ ActedInOrder(k)'
             /\ ActedAt(k)' = ActedAt(k) \cup {x \in Option : Event("act", k, x) = e}
             /\ Event("act", k, Self) \in Ran' <=>
                  Event("act", k, Self) \in Ran \/ Event("act", k, Self) = e
  BY <1>2, <1>4, ActionActs DEF UInv
<1>6. o # Self => ActedAt(level)' = ActedAt(level) \cup {o}
  <2>1. o # Self => {x \in Option : Event("act", level, x) = e} = {o}
    BY <1>3 DEF Target
  <2> QED BY <1>2, <1>5, <2>1
<1>7. ASSUME NEW k \in Level PROVE Complete(k)'
  <2>1. SUFFICES ASSUME Event("act", k, Self) \in Ran' PROVE ActedAt(k)' = UsedAt(k)'
    BY DEF Complete
  <2>2. Event("act", k, Self) \notin Ran
    BY <1>2 DEF Acted
  <2>3. k = level /\ o = Self
    BY <1>3, <1>5, <2>1, <2>2
  <2>4. UsedAt(k)' = UsedAt(k)
    BY DEF UsedAt, Due, WasUsed, appliesIn
  <2>5. {x \in Option : Event("act", k, x) = e} = {}
    BY <1>3, <2>3, OptionAssumption
  <2> QED BY <1>5, <2>3, <2>4, <2>5
<1> QED BY <1>5, <1>6, <1>7

\* An option which is due acts after those before it.
LEMMA ActOptionUsed == ASSUME IInv, UInv, ActOption PROVE UInv'
<1>1. PICK o : o = o_i
  OBVIOUS
<1>2. /\ pc = "trigger" /\ UNCHANGED <<case, seen>> /\ Triggering
      /\ Due(o, level) /\ o # CommandArg(level) /\ o \in Option /\ o # Self
      /\ Perform(<<Event("act", level, o)>>, Continue("trigger", i + 1))
  BY <1>1, DueOption DEF ActOption, Triggering
<1>3. o \in Target /\ level \in Level /\ i \in Nat \ {0}
  BY <1>2 DEF Target, IInv, TypeOK
<1>4. Calls(<<Event("act", level, o)>>)
  BY <1>2 DEF Perform, Calls
<1>5. PICK s : s = Triggers(level)
  OBVIOUS
<1>6. s \in Seq(Option) /\ Arranged(s) /\ i \in DOMAIN s /\ o = s[i]
  <2>1. s \in Seq(Option) /\ Arranged(s)
    BY <1>3, <1>5, TriggersArranged
  <2> QED BY <1>1, <1>2, <1>3, <1>5, <2>1 DEF Triggering, o_i
<1>7. \A p \in Passed : Precedes(Triggers(level)[p], o)
  BY <1>5, <1>6 DEF Passed, Arranged
<1>8. /\ \A k \in Level : Complete(k)' /\ ActedInOrder(k)'
      /\ ActedAt(level)' = ActedAt(level) \cup {o}
  <2>1. UNCHANGED level
    BY <1>2 DEF Perform, Continue
  <2> QED BY <1>2, <1>3, <1>4, <1>7, <2>1, LoopActs
<1>9. CASE pc' = "failed"
  BY <1>8, <1>9 DEF UInv, Acting
<1>10. CASE Continue("trigger", i + 1)
  <2>1. pc' = "trigger" /\ i' = i + 1 /\ level' = level
    BY <1>10 DEF Continue
  <2>2. Passed' = Passed \cup {i}
    BY <1>1, <1>2, <2>1, LoopMovesOn
  <2>3. Triggers(level)' = s
    BY <1>5, <2>1 DEF Triggers
  <2>4. ActedAt(level) = {s[p] : p \in Passed}
    BY <1>2, <1>5 DEF UInv, Acting
  <2>5. ActedAt(level)' = {s[p] : p \in Passed'}
    BY <1>6, <1>8, <2>1, <2>2, <2>4
  <2>6. Acting'
    BY <2>1, <2>3, <2>5 DEF Acting
  <2> QED BY <1>8, <2>6 DEF UInv
<1> QED BY <1>2, <1>9, <1>10 DEF Perform

\* After the loop all options which are due have acted; the command acts.
LEMMA ActCommandUsed == ASSUME IInv, UInv, ActCommand PROVE UInv'
<1>1. /\ pc = "trigger" /\ UNCHANGED <<case, seen>> /\ level \in Level
      /\ i \in Nat \ {0} /\ i > Len(Triggers(level)) /\ Self \in Target
  BY DEF ActCommand, Triggered, IInv, Phase, TypeOK, Target
<1>2. CASE Fail /\ UNCHANGED ran
  BY <1>1, <1>2, ActingKept DEF Fail
<1>3. CASE Perform(<<Event("act", level, Self)>>, Continue("after", 1))
  <2>1. Calls(<<Event("act", level, Self)>>)
    BY <1>3 DEF Perform, Calls
  <2>2. PICK s : s = Triggers(level)
    OBVIOUS
  <2>3. /\ s \in Seq(Option) /\ RangeOf(s) = ArgsOf(level) \cup FlagsTo(level)
        /\ \A p \in DOMAIN s : p < i
    <3>1. s \in Seq(Option) /\ RangeOf(s) = ArgsOf(level) \cup FlagsTo(level)
      BY <1>1, <2>2, TriggersArranged
    <3> QED BY <1>1, <2>2, <3>1
  <2>4. \A p \in Passed : Precedes(Triggers(level)[p], Self)
    <3>1. \A x \in Option : Precedes(x, Self)
      BY OptionAssumption DEF Precedes, Option
    <3> QED BY <2>2, <2>3, <3>1 DEF Passed
  <2>5. ActedAt(level) = UsedAt(level)
    <3>1. ActedAt(level) = {s[p] : p \in Passed}
      BY <1>1, <2>2 DEF UInv, Acting
    <3>2. \A p : p \in Passed <=> /\ p \in DOMAIN s
                                  /\ Due(s[p], level) /\ s[p] # CommandArg(level)
      BY <2>2, <2>3 DEF Passed
    <3>3. UsedAt(level) = {o \in RangeOf(s) : o # CommandArg(level) /\ Due(o, level)}
      BY <2>3 DEF UsedAt
    <3> QED BY <3>1, <3>2, <3>3 DEF RangeOf
  <2>6. \A k \in Level : Complete(k)' /\ ActedInOrder(k)'
    <3>1. UNCHANGED level
      BY <1>3 DEF Perform, Continue
    <3> QED BY <1>1, <2>1, <2>4, <2>5, <3>1, LoopActs
  <2>7. pc' \in {"after", "failed"}
    BY <1>3 DEF Perform, Continue
  <2> QED BY <2>6, <2>7 DEF UInv, Acting
<1> QED BY <1>2, <1>3 DEF ActCommand

\* Nothing acted at the level when its loop begins.
LEMMA BeforeAncestorsUsed == ASSUME IInv, UInv, BeforeAncestors PROVE UInv'
<1>1. /\ pc = "beforeOptions" /\ UNCHANGED <<case, seen>>
      /\ Perform(Bubble(level - 1, level, Self), Continue("trigger", 1))
      /\ \E t \in Quiet : Calls(t)
  BY PipelinesAreQuiet DEF BeforeAncestors
<1>2. CASE pc' = "failed"
  BY <1>1, <1>2, ActingKept
<1>3. CASE Continue("trigger", 1)
  <2>1. /\ \A k \in Level : Complete(k)' /\ ActedInOrder(k)'
        /\ \A k : ActsAt(k)' = ActsAt(k) /\ ActedAt(k)' = ActedAt(k)
    BY <1>1, NothingActs
  <2>2. pc' = "trigger" /\ i' = 1 /\ level' = level /\ level \in Level
    BY <1>3 DEF Continue, IInv, TypeOK
  <2>3. ActedAt(level) = {}
    <3>1. ActsAt(level) = {}
      BY <1>1 DEF UInv, Acting
    <3> QED BY <3>1 DEF ActedAt, ActsAt, Ran, Event
  <2>4. Passed' = {}
    <3>1. Triggers(level) \in Seq(Option)
      BY <2>2, TriggersArranged
    <3>2. \A p \in DOMAIN Triggers(level) : ~(p < 1)
      BY <3>1
    <3>3. DOMAIN Triggers(level)' = DOMAIN Triggers(level)
      BY <2>2 DEF Triggers
    <3> QED BY <2>2, <3>2, <3>3 DEF Passed
  <2>5. Acting'
    BY <2>1, <2>2, <2>3, <2>4 DEF Acting
  <2> QED BY <2>1, <2>5 DEF UInv
<1> QED BY <1>1, <1>2, <1>3 DEF Perform

\* The arg of a sub-command does not act; nothing acted below this level yet.
LEMMA InvokeUsed == ASSUME IInv, OInv, UInv, Invoke PROVE UInv'
<1>1. /\ pc = "trigger" /\ Triggering /\ UNCHANGED <<case, seen, panicked, ran>>
      /\ o_i = CommandArg(level)
  BY DEF Invoke, Triggering
<1>2. \/ Continue("trigger", i + 1)
      \/ Fail
      \/ level' = level + 1 /\ pc' = "parse"
  BY Zenon DEF Invoke
<1>3. CASE Continue("trigger", i + 1)
  BY <1>1, <1>3, LoopSkips
<1>4. CASE Fail
  BY <1>1, <1>4, ActingKept DEF Fail
<1>5. CASE level' = level + 1 /\ pc' = "parse"
  <2>1. /\ \A k \in Level : Complete(k)' /\ ActedInOrder(k)'
        /\ \A k : ActsAt(k)' = ActsAt(k)
    BY <1>1, NothingActs
  <2>2. ActsAt(level + 1) = {}
    <3>1. \A e \in Ran : e.at <= level /\ e.at \in Int /\ level \in Int
      BY <1>1, RanHasLevels DEF OInv, AInv, Unwinding, Descending
    <3>2. \A e \in Ran : e.at # level + 1
      BY <3>1
    <3> QED BY <3>2 DEF ActsAt, Ran
  <2>3. Acting'
    BY <1>5, <2>1, <2>2 DEF Acting
  <2> QED BY <2>1, <2>3 DEF UInv
<1> QED BY <1>2, <1>3, <1>4, <1>5

-----------------------------------------------------------------------------
(* Used options act first *)

\* Every step keeps what acted complete and in order.
LEMMA UsedStep == ASSUME IInv, OInv, UInv, [Next]_vars PROVE UInv'
<1>1. CASE Parse
  <2>1. Acted = {} /\ UNCHANGED <<case, ran>> /\ pc = "parse" /\ UNCHANGED level
        /\ pc' \in {"before", "failed"}
    BY <1>1 DEF Parse, IInv, Phase, Descending, Continue, Fail
  <2> QED BY <2>1, ActingKept
<1>2. CASE BeforeCommand \/ BeforeOption
  <2>1. /\ pc \in {"before", "beforeOptions"} /\ UNCHANGED <<case, level, seen>>
        /\ pc' \in {"beforeOptions", "failed"}
    BY <1>2 DEF BeforeCommand, BeforeOption, Perform, Continue, Fail
  <2> QED BY <1>2, <2>1, PipelinesAreQuiet, ActingKept
<1>3. CASE PassOver
  BY <1>3, LoopSkips DEF PassOver
<1>4. CASE AfterCommand \/ AfterOption
  <2>1. UNCHANGED <<case, seen>> /\ pc' \in {"afterOptions", "failed"}
    BY <1>4 DEF AfterCommand, AfterOption, Perform, Continue
  <2> QED BY <1>4, <2>1, PipelinesAreQuiet, ActingKept
<1>5. CASE PassThrough \/ Return
  <2>1. UNCHANGED <<case, seen, ran>> /\ pc' \in {"after", "self", "done", "failed"}
    BY <1>5 DEF PassThrough, Return, Continue, Fail, ResumeAt
  <2> QED BY <2>1, ActingKept
<1>6. CASE UNCHANGED vars
  <2>1. UNCHANGED <<case, pc, level, i, seen, ran>>
    BY <1>6 DEF vars
  <2>2. /\ \A k \in Level : Complete(k)' /\ ActedInOrder(k)'
        /\ \A k : ActsAt(k)' = ActsAt(k) /\ ActedAt(k)' = ActedAt(k)
    BY <2>1, NothingActs
  <2>3. Passed' = Passed /\ Triggers(level)' = Triggers(level)
    BY <2>1 DEF Passed, Triggers, Due, WasUsed, appliesIn, CommandArg
  <2>4. Acting'
    BY <2>1, <2>2, <2>3 DEF UInv, Acting
  <2> QED BY <2>2, <2>4 DEF UInv
<1> QED BY <1>1, <1>2, <1>3, <1>4, <1>5, <1>6, BeforeAncestorsUsed, ActOptionUsed,
        InvokeUsed, ActCommandUsed DEF Next

\* For chains of every length: when a command acts, every option it has or
\* inherits which was used and applies to it has acted at its level, and no
\* other has; whatever acts at a level does so once, flags before args and the
\* flags of outer commands before those of inner ones.
THEOREM UsedActFirst == Spec => []UsedOptionsActFirst
<1>1. Init => UInv
  <2>1. Init => Ran = {} /\ DOMAIN ran = {} /\ pc = "parse"
    BY DEF Init, Ran
  <2> QED BY <2>1 DEF UInv, Acting, Complete, ActedInOrder, ActsAt
<1>2. IInv /\ OInv /\ UInv /\ [Next]_vars => UInv'
  BY UsedStep
<1>3. UInv => UsedOptionsActFirst
  <2>1. SUFFICES ASSUME UInv, NEW k \in Level
        PROVE  /\ Event("act", k, Self) \in Ran =>
                    {o \in Option : Event("act", k, o) \in Ran}
                      = {o \in ArgsOf(k) \cup UNION {FlagsOf(j) : j \in 1 .. k} :
                           /\ o # CommandArg(k)
                           /\ o \in seen \cup case.implied
                           /\ o \in Flag => k \in case.appliesIn[o]}
               /\ \A m, n \in ActsAt(k) : m < n => Precedes(ran[m].opt, ran[n].opt)
    BY DEF UsedOptionsActFirst, Precedes
  <2>2. Complete(k) /\ ActedInOrder(k)
    BY <2>1 DEF UInv
  <2>3. UsedAt(k) = {o \in ArgsOf(k) \cup UNION {FlagsOf(j) : j \in 1 .. k} :
                       /\ o # CommandArg(k)
                       /\ o \in seen \cup case.implied
                       /\ o \in Flag => k \in case.appliesIn[o]}
    BY DEF UsedAt, FlagsTo, Due, WasUsed, appliesIn
  <2> QED BY <2>2, <2>3 DEF Complete, ActedAt, ActedInOrder
<1> QED BY <1>1, <1>2, <1>3, Invariant, OrderInvariant, PTL DEF Spec
=============================================================================
