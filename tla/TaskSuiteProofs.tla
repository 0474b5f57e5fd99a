-------------------------- MODULE TaskSuiteProofs --------------------------
(***************************************************************************)
(* Proofs about TaskSuite: published splits share nothing, the suites of a *)
(* seed are prefixes of each other, tasks are charged at the severity      *)
(* their fields show, and the rules of the prompt decide them, for any     *)
(* requests, seeds, amounts and dates and any names DrawAssumption allows. *)
(*                                                                         *)
(* The order of suites needs the past: LoopTypes and the suites alone do   *)
(* not say that the loop that runs will do again what an earlier one did.  *)
(* HistoryInv says that one function, of the number of candidates taken,   *)
(* explains every suite of a seed, also the one in the making.             *)
(***************************************************************************)
EXTENDS TaskSuite, FiniteSetTheorems, WellFoundedInduction, TLAPS

\* The verdict in domain d, as an operator of constants.
VerdictIn(d, state) ==
    CASE d = "reconciliation" -> ReconciliationVerdict(state)
      [] d = "payment_repair" -> RepairDecision(state)
      [] d = "settlement"     -> SettlementVerdict(state)

\* The tasks a generator may accept: candidates the verifier agrees with.
TasksOf(d, m) ==
    {t \in [id : Seeds \X Nat, domain : {d}, content : Drawn[d][m]] :
        VerdictIn(d, t.content.state) = t.content.gold}

LoopTypes ==
    /\ domain \in Domains /\ mix \in Mixes
    /\ attempts \in Nat
    /\ tasks \in Seq(TasksOf(domain, mix))
    /\ suites \in Seq(Seq(TasksOf(domain, mix)))
    /\ Len(suites) <= Len(Requests)
    /\ stream \in [Seeds -> Seq(Drawn[domain][mix])]

LEMMA SeedOfRequest ==
    ASSUME Wanted, Len(suites) \in Nat
    PROVE  Request \in [seed : STRING, n : Nat \ {0}] /\ Request.seed \in Seeds
<1> DEFINE Shape == [seed : STRING, n : Nat \ {0}]
<1>0. Requests \in Seq(Shape)
  BY SuiteAssumption
<1>1. Len(suites) + 1 \in 1 .. Len(Requests)
  BY SuiteAssumption DEF Wanted
<1>2. Len(suites) + 1 \in DOMAIN Requests
  BY <1>1, SuiteAssumption
<1>3. Request \in Shape
  <2> HIDE DEF Shape
  <2> QED
    BY <1>0, <1>1 DEF Request
<1>4. Requests[Len(suites) + 1].seed \in Seeds
  BY <1>2 DEF Seeds
<1> QED
  BY <1>3, <1>4 DEF Request

LEMMA TypesInit == Init => LoopTypes
  BY SuiteAssumption DEF Init, LoopTypes

LEMMA TypesDraw ==
    ASSUME LoopTypes, Draw
    PROVE  LoopTypes'
<1> DEFINE s == Request.seed
           read == stream[s]
<1>1. s \in Seeds /\ read \in Seq(Drawn[domain][mix])
  BY SeedOfRequest DEF LoopTypes, Draw
<1>2. PICK c \in IF attempts < Len(read) THEN {read[attempts + 1]} ELSE Drawn[domain][mix] :
        /\ stream' = [stream EXCEPT ![s] = IF attempts < Len(@) THEN @ ELSE Append(@, c)]
        /\ attempts' = AttemptsMade(c)
        /\ tasks' = IF Keeps(c) THEN Append(tasks, TaskOf(c)) ELSE tasks
  BY DEF Draw
<1>3. c \in Drawn[domain][mix]
  <2>1. CASE attempts < Len(read)
    BY <1>1, <1>2, <2>1 DEF LoopTypes
  <2>2. CASE ~ (attempts < Len(read))
    BY <1>2, <2>2
  <2> QED
    BY <2>1, <2>2
<1>4. Keeps(c) => TaskOf(c) \in TasksOf(domain, mix)
  <2>1. Keeps(c) => VerdictIn(domain, c.state) = c.gold
    BY DEF Keeps, Verdict, VerdictIn
  <2>2. <<s, Len(tasks)>> \in Seeds \X Nat
    BY <1>1 DEF LoopTypes
  <2> QED
    BY <1>3, <2>1, <2>2 DEF TaskOf, TasksOf
<1>5. attempts' \in Nat
  BY <1>2 DEF AttemptsMade, LoopTypes
<1>6. tasks' \in Seq(TasksOf(domain, mix))
  BY <1>2, <1>4 DEF LoopTypes
<1>7. stream' \in [Seeds -> Seq(Drawn[domain][mix])]
  <2> DEFINE C == Drawn[domain][mix]
  <2>1. stream \in [Seeds -> Seq(C)] /\ c \in C
    BY <1>3 DEF LoopTypes
  <2> HIDE DEF C
  <2>2. Append(read, c) \in Seq(C) /\ read \in Seq(C)
    BY <1>1, <2>1
  <2>3. PICK new \in Seq(C) : stream' = [stream EXCEPT ![s] = new]
    BY <1>2, <2>2
  <2>4. stream' \in [Seeds -> Seq(C)]
    BY <2>1, <2>3
  <2> QED
    BY <2>4 DEF C
<1>8. UNCHANGED <<domain, mix, suites>>
  BY DEF Draw
<1> QED
  BY <1>5, <1>6, <1>7, <1>8 DEF LoopTypes, TasksOf, Seeds

\* The suites that are complete are what was asked for.
LengthInv == \A i \in 1 .. Len(suites) : Len(suites[i]) = Requests[i].n

LEMMA TypesComplete ==
    ASSUME LoopTypes, LengthInv, Complete
    PROVE  LoopTypes' /\ LengthInv'
<1>0. Request.n \in Nat /\ Len(suites) \in Nat
  BY SeedOfRequest DEF LoopTypes, Complete
<1> DEFINE S == Seq(TasksOf(domain, mix))
<1>1. suites \in Seq(S) /\ tasks \in S /\ << >> \in S /\ domain' = domain /\ mix' = mix
  BY DEF LoopTypes, Complete
<1>2. suites' = Append(suites, tasks) /\ tasks' = << >>
  BY DEF Complete
<1>3. /\ suites' \in Seq(S) /\ tasks' \in S
      /\ Len(suites') = Len(suites) + 1
      /\ suites'[Len(suites) + 1] = tasks
      /\ \A i \in 1 .. Len(suites) : suites'[i] = suites[i]
  <2> HIDE DEF S
  <2> QED
    BY <1>1, <1>2
<1>4. Len(suites') <= Len(Requests)
  BY <1>0, <1>3, SuiteAssumption DEF Complete, Wanted
<1>5. LoopTypes'
  BY <1>1, <1>3, <1>4 DEF LoopTypes, Complete
<1>6. LengthInv'
  BY <1>0, <1>3 DEF LengthInv, Complete, Request
<1> QED
  BY <1>5, <1>6

------------------------------------------------------------------------------
\* Splits that were published were certified as they are.
CertifiedInv ==
    stage = "published" =>
        Len(suites) = Len(Requests) /\ Overlap(suites[Train], suites[Eval]) = 0

LEMMA SignaturesAreFinite ==
    ASSUME NEW S, NEW suite \in Seq(S)
    PROVE  IsFiniteSet(SignaturesOf(suite))
<1> DEFINE signatures == [i \in 1 .. Len(suite) |-> Signature(suite[i])]
<1>0. DOMAIN suite = 1 .. Len(suite)
  OBVIOUS
<1>1. signatures \in Surjection(1 .. Len(suite), SignaturesOf(suite))
  <2>1. signatures \in [1 .. Len(suite) -> SignaturesOf(suite)]
    BY <1>0 DEF SignaturesOf
  <2>2. \A x \in SignaturesOf(suite) : \E i \in 1 .. Len(suite) : signatures[i] = x
    BY <1>0 DEF SignaturesOf
  <2> QED
    BY <2>1, <2>2 DEF Surjection
<1>2. IsFiniteSet(1 .. Len(suite))
  BY FS_Interval
<1> QED
  BY <1>1, <1>2, FS_Surjection

\* No overlap by count is none at all, and the content of a task decides its
\* signature.
LEMMA NoOverlapNoContentInCommon ==
    ASSUME NEW d, NEW m, NEW train \in Seq(TasksOf(d, m)), NEW eval \in Seq(TasksOf(d, m)),
           Overlap(train, eval) = 0,
           NEW i \in 1 .. Len(train), NEW j \in 1 .. Len(eval)
    PROVE  train[i].content # eval[j].content
<1> DEFINE common == SignaturesOf(train) \intersect SignaturesOf(eval)
<1>1. IsFiniteSet(common)
  BY SignaturesAreFinite, FS_Intersection
<1>2. common = {}
  BY <1>1, FS_EmptySet DEF Overlap
<1>3. Signature(train[i]) # Signature(eval[j])
  BY <1>2 DEF SignaturesOf
<1>4. train[i] \in TasksOf(d, m) /\ eval[j] \in TasksOf(d, m)
  OBVIOUS
<1> QED
  BY <1>3, <1>4 DEF Signature, TasksOf
------------------------------------------------------------------------------
\* The tasks after one more candidate, as an operator of constants.
Turn(d, s, done, c) ==
    LET task == [id |-> <<s, Len(done)>>, domain |-> d, content |-> c]
    IN  IF VerdictIn(d, c.state) = c.gold /\ Signature(task) \notin SignaturesOf(done)
        THEN Append(done, task)
        ELSE done

\* The longer continues the shorter.
Continues(longer, shorter) ==
    /\ Len(shorter) <= Len(longer)
    /\ \A x \in 1 .. Len(shorter) : longer[x] = shorter[x]

\* made[k] is what the first k candidates of the stream of seed s yield.
Yields(d, m, s, read, made) ==
    /\ made \in [0 .. Len(read) -> Seq(TasksOf(d, m))]
    /\ made[0] = << >>
    /\ \A k \in 0 .. Len(read) : k < Len(read) => made[k + 1] = Turn(d, s, made[k], read[k + 1])
    /\ \A k, l \in 0 .. Len(read) : k <= l => Continues(made[l], made[k])

\* Every suite of the seed, and the one in the making, is a yield of one stream.
SuitesOfSeed(s, made) ==
    /\ \A i \in 1 .. Len(suites) :
         Requests[i].seed = s => \E k \in 0 .. Len(stream[s]) : suites[i] = made[k]
    /\ Len(suites) < Len(Requests) /\ Request.seed = s =>
         attempts \in 0 .. Len(stream[s]) /\ tasks = made[attempts]

HistoryInv ==
    \A s \in Seeds : \E made : Yields(domain, mix, s, stream[s], made) /\ SuitesOfSeed(s, made)

\* A draw is one turn of the loop on the candidate the stream has for it.
LEMMA TurnIsDraw ==
    ASSUME NEW c
    PROVE  Turn(domain, Request.seed, tasks, c)
             = IF Keeps(c) THEN Append(tasks, TaskOf(c)) ELSE tasks
  BY DEF Turn, VerdictIn, Keeps, Verdict, TaskOf, Seen

LEMMA TurnType ==
    ASSUME NEW d, NEW m, NEW s \in Seeds, NEW done \in Seq(TasksOf(d, m)), NEW c \in Drawn[d][m]
    PROVE  Turn(d, s, done, c) \in Seq(TasksOf(d, m)) /\ Continues(Turn(d, s, done, c), done)
<1> DEFINE task == [id |-> <<s, Len(done)>>, domain |-> d, content |-> c]
<1>1. VerdictIn(d, c.state) = c.gold => task \in TasksOf(d, m)
  BY DEF TasksOf
<1>2. \/ Turn(d, s, done, c) = done
      \/ Turn(d, s, done, c) = Append(done, task) /\ VerdictIn(d, c.state) = c.gold
  BY DEF Turn
<1> HIDE DEF task
<1>3. VerdictIn(d, c.state) = c.gold =>
        Append(done, task) \in Seq(TasksOf(d, m)) /\ Continues(Append(done, task), done)
  BY <1>1 DEF Continues
<1>4. Continues(done, done)
  BY DEF Continues
<1> QED
  BY <1>2, <1>3, <1>4

LEMMA HistoryInit == Init => HistoryInv
<1> SUFFICES ASSUME Init, NEW s \in Seeds
             PROVE  \E made : Yields(domain, mix, s, stream[s], made) /\ SuitesOfSeed(s, made)
  BY DEF HistoryInv
<1> DEFINE made == [k \in {0} |-> << >>]
<1>1. stream[s] = << >> /\ Len(stream[s]) = 0 /\ 0 .. 0 = {0}
  BY DEF Init
<1>2. Yields(domain, mix, s, stream[s], made)
  BY <1>1 DEF Yields, Continues
<1>3. SuitesOfSeed(s, made)
  BY <1>1 DEF SuitesOfSeed, Init
<1> QED
  BY <1>2, <1>3
\* more is made and what one candidate more yields.
Prolongs(more, made, d, m, s, read, c) ==
    /\ Yields(d, m, s, Append(read, c), more)
    /\ \A k \in 0 .. Len(read) : more[k] = made[k]
    /\ more[Len(read) + 1] = Turn(d, s, made[Len(read)], c)

LEMMA OneMoreCandidate ==
    ASSUME NEW d, NEW m, NEW s \in Seeds, NEW read \in Seq(Drawn[d][m]), NEW c \in Drawn[d][m],
           NEW made, Yields(d, m, s, read, made)
    PROVE  \E more : Prolongs(more, made, d, m, s, read, c)
<1> DEFINE n == Len(read)
           last == Turn(d, s, made[n], c)
           more == [k \in 0 .. n + 1 |-> IF k <= n THEN made[k] ELSE last]
           longer == Append(read, c)
<1>1. n \in Nat /\ Len(longer) = n + 1 /\ longer[n + 1] = c
      /\ \A k \in 1 .. n : longer[k] = read[k]
  OBVIOUS
<1>2. made[n] \in Seq(TasksOf(d, m)) /\ \A k \in 0 .. n : made[k] \in Seq(TasksOf(d, m))
  <2>1. made \in [0 .. n -> Seq(TasksOf(d, m))]
    BY DEF Yields
  <2> HIDE DEF n
  <2> QED
    BY <1>1, <2>1
<1>3. last \in Seq(TasksOf(d, m)) /\ Continues(last, made[n])
  BY <1>2, TurnType
<1>4. /\ \A k \in 0 .. n : more[k] = made[k]
      /\ more[n + 1] = last
      /\ DOMAIN more = 0 .. n + 1
  BY <1>1
<1> HIDE DEF last, longer
<1>5. more \in [0 .. n + 1 -> Seq(TasksOf(d, m))]
  BY <1>1, <1>2, <1>3
<1> HIDE DEF more, n
<1>6. more[0] = << >>
  BY <1>1, <1>4 DEF Yields, n
<1>7. \A k \in 0 .. n + 1 : k < n + 1 => more[k + 1] = Turn(d, s, more[k], longer[k + 1])
  <2> SUFFICES ASSUME NEW k \in 0 .. n + 1, k < n + 1
               PROVE  more[k + 1] = Turn(d, s, more[k], longer[k + 1])
    OBVIOUS
  <2>1. CASE k < n
    BY <1>1, <1>4, <2>1 DEF Yields, n
  <2>2. CASE k = n
    BY <1>1, <1>4, <2>2 DEF last
  <2> QED
    BY <1>1, <2>1, <2>2
<1>8. \A k, l \in 0 .. n + 1 : k <= l => Continues(more[l], more[k])
  <2> SUFFICES ASSUME NEW k \in 0 .. n + 1, NEW l \in 0 .. n + 1, k <= l
               PROVE  Continues(more[l], more[k])
    OBVIOUS
  <2>1. CASE l \in 0 .. n
    BY <1>1, <1>4, <2>1 DEF Yields, n
  <2>2. CASE k \in 0 .. n /\ l = n + 1
    <3>1. Continues(made[n], made[k])
      BY <1>1, <2>2 DEF Yields, n
    <3>2. Len(made[k]) \in Nat /\ Len(made[n]) \in Nat
      BY <1>2, <2>2
    <3>3. Continues(last, made[k])
      BY <1>3, <3>1, <3>2 DEF Continues
    <3> QED
      BY <1>4, <2>2, <3>3
  <2>3. CASE k = n + 1 /\ l = n + 1
    BY <1>3, <1>4, <2>3 DEF Continues
  <2> QED
    BY <1>1, <2>1, <2>2, <2>3
<1>9. Yields(d, m, s, longer, more)
  BY <1>1, <1>5, <1>6, <1>7, <1>8 DEF Yields
<1> QED
  BY <1>4, <1>9 DEF last, longer, n, Prolongs

LEMMA HistoryDraw ==
    ASSUME LoopTypes, HistoryInv, Draw
    PROVE  HistoryInv'
<1> DEFINE s == Request.seed
           read == stream[s]
<1>1. s \in Seeds /\ read \in Seq(Drawn[domain][mix]) /\ Len(read) \in Nat
  BY SeedOfRequest DEF LoopTypes, Draw
<1>2. PICK c \in IF attempts < Len(read) THEN {read[attempts + 1]} ELSE Drawn[domain][mix] :
        /\ stream' = [stream EXCEPT ![s] = IF attempts < Len(@) THEN @ ELSE Append(@, c)]
        /\ attempts' = AttemptsMade(c)
        /\ tasks' = IF Keeps(c) THEN Append(tasks, TaskOf(c)) ELSE tasks
  BY DEF Draw
<1>3. UNCHANGED <<domain, mix, suites>> /\ Request' = Request /\ s' = s
  BY DEF Draw, Request
<1>4. attempts' = attempts + 1 /\ tasks' = Turn(domain, s, tasks, c)
  BY <1>2, TurnIsDraw DEF AttemptsMade
<1>5. stream' \in [Seeds -> Seq(Drawn[domain][mix])]
  BY <1>3, TypesDraw DEF LoopTypes
<1> SUFFICES ASSUME NEW seed \in Seeds
             PROVE  \E made : /\ Yields(domain, mix, seed, stream'[seed], made)
                              /\ SuitesOfSeed(seed, made)'
  BY <1>3 DEF HistoryInv
<1>6. PICK made : Yields(domain, mix, seed, stream[seed], made) /\ SuitesOfSeed(seed, made)
  BY DEF HistoryInv
<1>7. CASE seed # s
  <2>1. stream'[seed] = stream[seed]
    BY <1>2, <1>7 DEF LoopTypes
  <2>2. SuitesOfSeed(seed, made)'
    BY <1>3, <1>6, <1>7, <2>1 DEF SuitesOfSeed
  <2> QED
    BY <1>6, <2>1, <2>2
<1>8. CASE seed = s
  <2>1. attempts \in 0 .. Len(read) /\ tasks = made[attempts]
    BY <1>6, <1>8 DEF SuitesOfSeed, Draw, Wanted
  <2>2. CASE attempts < Len(read)
    <3>1. c = read[attempts + 1] /\ stream'[s] = read
      BY <1>1, <1>2, <2>2 DEF LoopTypes
    <3>2. made[attempts + 1] = Turn(domain, s, tasks, c)
      BY <1>6, <1>8, <2>1, <2>2, <3>1 DEF Yields
    <3>3. attempts' \in 0 .. Len(read) /\ tasks' = made[attempts']
      BY <1>1, <1>4, <2>1, <2>2, <3>2
    <3>4. SuitesOfSeed(seed, made)'
      BY <1>3, <1>6, <1>8, <3>1, <3>3 DEF SuitesOfSeed
    <3> QED
      BY <1>6, <1>8, <3>1, <3>4
  <2>3. CASE ~ (attempts < Len(read))
    <3>1. attempts = Len(read) /\ stream'[s] = Append(read, c)
      BY <1>1, <1>2, <2>1, <2>3 DEF LoopTypes
    <3>2. c \in Drawn[domain][mix]
      BY <1>2, <2>3 DEF LoopTypes
    <3>3. PICK more : Prolongs(more, made, domain, mix, s, read, c)
      <4>1. Yields(domain, mix, s, read, made)
        BY <1>6, <1>8
      <4> HIDE DEF s, read
      <4> QED
        BY <1>1, <3>2, <4>1, OneMoreCandidate
    <3>4. /\ attempts' \in 0 .. Len(Append(read, c)) /\ tasks' = more[attempts']
          /\ Len(Append(read, c)) = Len(read) + 1
      BY <1>1, <1>4, <2>1, <3>1, <3>2, <3>3 DEF Prolongs
    <3>5. SuitesOfSeed(seed, more)'
      BY <1>1, <1>3, <1>6, <1>8, <3>1, <3>3, <3>4 DEF SuitesOfSeed, Prolongs
    <3> QED
      BY <1>8, <3>1, <3>3, <3>5 DEF Prolongs
  <2> QED
    BY <2>2, <2>3
<1> QED
  BY <1>7, <1>8
LEMMA HistoryComplete ==
    ASSUME LoopTypes, LengthInv, HistoryInv, Complete
    PROVE  HistoryInv'
<1>1. Request.seed \in Seeds /\ Len(suites) \in Nat
  BY SeedOfRequest DEF LoopTypes, Complete
<1>2. UNCHANGED <<domain, mix, stream>> /\ attempts' = 0 /\ tasks' = << >>
  BY DEF Complete
<1>3. /\ Len(suites') = Len(suites) + 1
      /\ suites'[Len(suites) + 1] = tasks
      /\ \A i \in 1 .. Len(suites) : suites'[i] = suites[i]
  <2> DEFINE S == Seq(TasksOf(domain, mix))
  <2>1. suites \in Seq(S) /\ tasks \in S /\ suites' = Append(suites, tasks)
    BY DEF LoopTypes, Complete
  <2> HIDE DEF S
  <2> QED
    BY <2>1
<1> SUFFICES ASSUME NEW s \in Seeds
             PROVE  \E made : Yields(domain, mix, s, stream[s], made) /\ SuitesOfSeed(s, made)'
  BY <1>2 DEF HistoryInv
<1>4. PICK made : Yields(domain, mix, s, stream[s], made) /\ SuitesOfSeed(s, made)
  BY DEF HistoryInv
<1>5. Len(stream[s]) \in Nat
  BY DEF LoopTypes
<1>6. ASSUME NEW i \in 1 .. Len(suites'), Requests[i].seed = s
      PROVE  \E k \in 0 .. Len(stream[s]) : suites'[i] = made[k]
  <2>1. CASE i \in 1 .. Len(suites)
    BY <1>3, <1>4, <1>6, <2>1 DEF SuitesOfSeed
  <2>2. CASE i = Len(suites) + 1
    BY <1>3, <1>4, <1>6, <2>2 DEF SuitesOfSeed, Request, Complete, Wanted
  <2> QED
    BY <1>1, <1>3, <2>1, <2>2
<1>7. attempts' \in 0 .. Len(stream[s]) /\ tasks' = made[attempts']
  BY <1>2, <1>4, <1>5 DEF Yields
<1> QED
  BY <1>2, <1>4, <1>6, <1>7 DEF SuitesOfSeed

------------------------------------------------------------------------------
SuiteInv == LoopTypes /\ LengthInv /\ CertifiedInv /\ HistoryInv

LEMMA SuiteInit == Init => SuiteInv
  BY TypesInit, HistoryInit DEF Init, SuiteInv, LengthInv, CertifiedInv

LEMMA SuiteStep == SuiteInv /\ [Next]_vars => SuiteInv'
<1> SUFFICES ASSUME SuiteInv, [Next]_vars
             PROVE  SuiteInv'
  OBVIOUS
<1>1. ASSUME Draw
      PROVE  SuiteInv'
  <2>1. LoopTypes' /\ HistoryInv'
    BY <1>1, TypesDraw, HistoryDraw DEF SuiteInv
  <2>2. LengthInv' /\ CertifiedInv'
    BY <1>1 DEF SuiteInv, Draw, Wanted, LengthInv, CertifiedInv
  <2> QED
    BY <2>1, <2>2 DEF SuiteInv
<1>2. ASSUME Complete
      PROVE  SuiteInv'
  <2>1. LoopTypes' /\ LengthInv' /\ HistoryInv'
    BY <1>2, TypesComplete, HistoryComplete DEF SuiteInv
  <2>2. CertifiedInv'
    BY <1>2 DEF Complete, Wanted, CertifiedInv
  <2> QED
    BY <2>1, <2>2 DEF SuiteInv
<1>3. ASSUME UNCHANGED <<domain, mix, stream, attempts, tasks, suites>>
      PROVE  LoopTypes' /\ LengthInv' /\ HistoryInv'
  <2>1. LoopTypes' /\ LengthInv'
    BY <1>3 DEF SuiteInv, LoopTypes, LengthInv
  <2>2. \A s, made : SuitesOfSeed(s, made) => SuitesOfSeed(s, made)'
    BY <1>3 DEF SuitesOfSeed, Request
  <2>3. HistoryInv'
    BY <1>3, <2>2 DEF SuiteInv, HistoryInv
  <2> QED
    BY <2>1, <2>3
<1>4. ASSUME DrawRaises \/ Exhausted
      PROVE  SuiteInv'
  <2>1. CertifiedInv'
    BY <1>4 DEF DrawRaises, Exhausted, CertifiedInv
  <2> QED
    BY <1>3, <1>4, <2>1 DEF DrawRaises, Exhausted, SuiteInv
<1>5. ASSUME Certify
      PROVE  SuiteInv'
  <2>1. CertifiedInv'
    BY <1>5 DEF Certify, CertifiedInv
  <2> QED
    BY <1>3, <1>5, <2>1 DEF Certify, SuiteInv
<1>6. ASSUME UNCHANGED vars
      PROVE  SuiteInv'
  <2>1. CertifiedInv'
    BY <1>6 DEF vars, SuiteInv, CertifiedInv
  <2> QED
    BY <1>3, <1>6, <2>1 DEF vars, SuiteInv
<1> QED
  BY <1>1, <1>2, <1>4, <1>5, <1>6 DEF Next

LEMMA SuiteInvariant == Spec => []SuiteInv
  BY SuiteInit, SuiteStep, PTL DEF Spec

\* Whatever the domain, the requests, their seeds and what is drawn: the splits
\* that are published have no task in common (build_payload()).
THEOREM PublishedSplitsAreDisjoint == Spec => []PublishedSplitsShareNothing
<1>1. SuiteInv => PublishedSplitsShareNothing
  <2> SUFFICES ASSUME SuiteInv, stage = "published",
                      NEW i \in DOMAIN suites[Train], NEW j \in DOMAIN suites[Eval]
               PROVE  suites[Train][i].content # suites[Eval][j].content
    BY DEF PublishedSplitsShareNothing
  <2> DEFINE S == Seq(TasksOf(domain, mix))
  <2>1. suites \in Seq(S) /\ Len(suites) = Len(Requests)
    BY DEF SuiteInv, LoopTypes, CertifiedInv
  <2>2. Train \in 1 .. Len(suites) /\ Eval \in 1 .. Len(suites)
    BY <2>1, SuiteAssumption
  <2>3. suites[Train] \in S /\ suites[Eval] \in S
    <3> HIDE DEF S
    <3> QED
      BY <2>1, <2>2
  <2>4. i \in 1 .. Len(suites[Train]) /\ j \in 1 .. Len(suites[Eval])
    BY <2>3
  <2>5. Overlap(suites[Train], suites[Eval]) = 0
    BY DEF SuiteInv, CertifiedInv
  <2> QED
    BY <2>3, <2>4, <2>5, NoOverlapNoContentInCommon
<1> QED
  BY <1>1, SuiteInvariant, PTL

------------------------------------------------------------------------------
LEMMA ContinuesIsPrefix ==
    ASSUME NEW S, NEW shorter \in Seq(S), NEW longer \in Seq(S), Continues(longer, shorter)
    PROVE  IsPrefix(shorter, longer)
<1>1. SubSeq(shorter, 1, Len(shorter)) = SubSeq(longer, 1, Len(shorter))
  BY DEF Continues
<1> QED
  BY <1>1 DEF IsPrefix, Continues

\* Two yields of one stream: the one that is not longer is a prefix, whichever
\* took more candidates.
LEMMA YieldsAreNested ==
    ASSUME NEW S, NEW a \in Seq(S), NEW b \in Seq(S), Len(a) <= Len(b),
           Continues(a, b) \/ Continues(b, a)
    PROVE  IsPrefix(a, b)
<1>1. Continues(b, a)
  BY DEF Continues
<1> QED
  BY <1>1, ContinuesIsPrefix

\* Of two suites of one seed the shorter is a prefix of the longer, for any
\* number of suites, tasks and attempts and any candidates: rejected and
\* repeated candidates and the suites in between shift nothing
\* (generate_suite_internal()).
THEOREM SuitesOfASeedAreNested == Spec => []SameSeedSamePrefix
<1>1. SuiteInv => SameSeedSamePrefix
  <2> SUFFICES ASSUME SuiteInv, NEW i \in DOMAIN suites, NEW j \in DOMAIN suites,
                      Requests[i].seed = Requests[j].seed, Requests[i].n <= Requests[j].n
               PROVE  IsPrefix(suites[i], suites[j])
    BY DEF SameSeedSamePrefix
  <2> DEFINE S == Seq(TasksOf(domain, mix))
             s == Requests[i].seed
  <2>1. suites \in Seq(S) /\ Len(suites) <= Len(Requests)
    BY DEF SuiteInv, LoopTypes
  <2>2. i \in 1 .. Len(suites) /\ j \in 1 .. Len(suites)
    BY <2>1
  <2>3. suites[i] \in S /\ suites[j] \in S
    <3> HIDE DEF S
    <3> QED
      BY <2>1, <2>2
  <2>4. i \in DOMAIN Requests
    BY <2>1, <2>2, SuiteAssumption
  <2>5. s \in Seeds
    BY <2>4 DEF Seeds
  <2>6. PICK made : Yields(domain, mix, s, stream[s], made) /\ SuitesOfSeed(s, made)
    BY <2>5 DEF SuiteInv, HistoryInv
  <2>7. PICK k \in 0 .. Len(stream[s]) : suites[i] = made[k]
    BY <2>2, <2>6 DEF SuitesOfSeed
  <2>8. PICK l \in 0 .. Len(stream[s]) : suites[j] = made[l]
    BY <2>2, <2>6 DEF SuitesOfSeed
  <2>9. Continues(suites[j], suites[i]) \/ Continues(suites[i], suites[j])
    BY <2>6, <2>7, <2>8 DEF Yields
  <2>10. Len(suites[i]) <= Len(suites[j])
    BY <2>2 DEF SuiteInv, LengthInv
  <2> QED
    BY <2>3, <2>9, <2>10, YieldsAreNested
<1> QED
  BY <1>1, SuiteInvariant, PTL
------------------------------------------------------------------------------
\* A verdict is what the first rule that holds says.
LEMMA TheFirstRuleDecides ==
    ASSUME NEW rules, \E n \in Nat : DOMAIN rules = 1 .. n,
           NEW i \in DOMAIN rules, rules[i].when,
           \A j \in DOMAIN rules : j < i => ~ rules[j].when
    PROVE  FirstMatch(rules) = rules[i].then
<1> DEFINE Fires(k) == rules[k].when /\ \A j \in 1 .. k - 1 : ~ rules[j].when
           first == CHOOSE k \in DOMAIN rules : Fires(k)
<1>1. first \in DOMAIN rules /\ Fires(first)
  OBVIOUS
<1>2. first = i
  BY <1>1
<1>3. FirstMatch(rules) = rules[first].then
  BY DEF FirstMatch
<1> QED
  BY <1>2, <1>3

\* A repair names its signal, and a payment on hold is no automatic one.
LEMMA RepairShowsItsSignal ==
    ASSUME NEW p
    PROVE  /\ RepairDecision(p).exception_type = p.signal
           /\ OnHold(p) => RepairDecision(p).verdict = "EXCEPTION"
<1> DEFINE rules == RepairRules(p)
<1>1. RepairDecision(p) = Repair(FirstMatch(rules)[1], p.signal, FirstMatch(rules)[2])
  BY DEF RepairDecision
<1>2. DOMAIN rules = 1 .. 9 /\ \E n \in Nat : DOMAIN rules = 1 .. n
  BY DEF RepairRules
<1>3. (OnHold(p) => rules[1].when) /\ rules[1].then[1] = "EXCEPTION"
  BY DEF RepairRules, Rule
<1> HIDE DEF rules
<1>4. OnHold(p) => FirstMatch(rules) = rules[1].then
  BY <1>2, <1>3, TheFirstRuleDecides
<1> QED
  BY <1>1, <1>3, <1>4 DEF Repair

\* A settlement names its signal, and principal risk goes to a human.
LEMMA SettlementShowsItsSignal ==
    ASSUME NEW t
    PROVE  /\ t.signal = "ON_TIME" => SettlementVerdict(t).exception_type = "null"
           /\ t.signal # "ON_TIME" => SettlementVerdict(t).exception_type = t.signal
           /\ t.signal = "HERSTATT_EXPOSURE" => SettlementVerdict(t).verdict = "HITL"
<1> DEFINE rules == SettlementRules(t)
<1>1. DOMAIN rules = 1 .. 3 /\ \E n \in Nat : DOMAIN rules = 1 .. n
  BY DEF SettlementRules
<1>2. /\ rules[1].when <=> t.signal = "ON_TIME"
      /\ rules[1].then.exception_type = "null"
      /\ rules[2].when <=> ExposureClass(t) \in {"HIGH", "CRITICAL"}
      /\ rules[2].then.exception_type = t.signal /\ rules[2].then.verdict = "HITL"
      /\ rules[3].then.exception_type = t.signal /\ rules[3].when
  BY DEF SettlementRules, Rule, Otherwise
<1>3. SettlementVerdict(t) = FirstMatch(rules)
  BY DEF SettlementVerdict
<1> HIDE DEF rules
<1>4. CASE t.signal = "ON_TIME"
  BY <1>1, <1>2, <1>3, <1>4, TheFirstRuleDecides
<1>5. CASE t.signal # "ON_TIME" /\ ExposureClass(t) \in {"HIGH", "CRITICAL"}
  <2>1. FirstMatch(rules) = rules[2].then
    BY <1>1, <1>2, <1>5, TheFirstRuleDecides
  <2> QED
    BY <1>2, <1>3, <1>5, <2>1
<1>6. CASE t.signal # "ON_TIME" /\ ExposureClass(t) \notin {"HIGH", "CRITICAL"}
  <2>1. FirstMatch(rules) = rules[3].then
    BY <1>1, <1>2, <1>6, TheFirstRuleDecides
  <2>2. t.signal = "HERSTATT_EXPOSURE" => ExposureClass(t) = "CRITICAL"
    <3> DEFINE classes == ExposureRules(t)
    <3>1. DOMAIN classes = 1 .. 4 /\ \E n \in Nat : DOMAIN classes = 1 .. n
      BY DEF ExposureRules
    <3>2. (t.signal = "HERSTATT_EXPOSURE" => classes[1].when) /\ classes[1].then = "CRITICAL"
      BY DEF ExposureRules, Rule
    <3>3. ExposureClass(t) = FirstMatch(classes)
      BY DEF ExposureClass
    <3> HIDE DEF classes
    <3> QED
      BY <3>1, <3>2, <3>3, TheFirstRuleDecides
  <2> QED
    BY <1>2, <1>3, <1>6, <2>1, <2>2
<1> QED
  BY <1>4, <1>5, <1>6
------------------------------------------------------------------------------
\* What SeverityFitsTheFields says of the content of a task in domain d.
Fits(d, severities, c) ==
    LET shown == VerdictIn(d, c.state).exception_type IN
    /\ c.severity =
        CASE shown = "null"            -> "LOW"
          [] shown \in ExceptionTypes /\ d = "reconciliation" -> ExceptionSeverity[shown]
          [] shown \in PaymentSignals /\ d = "payment_repair" -> SignalSeverity[shown]
          [] shown \in SettlementSignals /\ d = "settlement" -> SettlementSeverity[shown]
    /\ severities # {} => c.severity \in severities \/ c.gold = Match
    /\ c.severity = "CRITICAL" =>
         c.gold.verdict \notin {"MATCH", "REPAIR_SAFE", "ESCALATE"}

\* Which classes are CRITICAL, and that none is called null.
LEMMA SeverityTables ==
    /\ "null" \notin ExceptionTypes /\ "null" \notin PaymentSignals
    /\ \A t \in ExceptionTypes : ExceptionSeverity[t] # "CRITICAL"
    /\ \A g \in PaymentSignals : SignalSeverity[g] = "CRITICAL" => g = "FRAUD_HOLD"
    /\ \A g \in SettlementSignals : SettlementSeverity[g] = "CRITICAL" => g = "HERSTATT_EXPOSURE"
    /\ SettlementSeverity["ON_TIME"] = "LOW"
    /\ "null" \notin SettlementSignals
<1>1. "null" \notin ExceptionTypes /\ \A t \in ExceptionTypes : ExceptionSeverity[t] # "CRITICAL"
  BY DEF ExceptionTypes, ExceptionSeverity
<1>2. /\ "null" \notin PaymentSignals
      /\ \A g \in PaymentSignals : SignalSeverity[g] = "CRITICAL" => g = "FRAUD_HOLD"
  BY DEF PaymentSignals, SignalSeverity
<1>3. /\ \A g \in SettlementSignals : SettlementSeverity[g] = "CRITICAL" => g = "HERSTATT_EXPOSURE"
      /\ SettlementSeverity["ON_TIME"] = "LOW"
      /\ "null" \notin SettlementSignals
  BY DEF SettlementSignals, SettlementSeverity
<1> QED
  BY <1>1, <1>2, <1>3

\* The class that was injected is the one the verifier reads off the pair.
LEMMA ReconciliationFits ==
    ASSUME NEW m, NEW c \in ReconciliationTasks(m),
           ReconciliationVerdict(c.state) = c.gold
    PROVE  Fits("reconciliation", m, c)
<1>1. \/ \E pair, d : c = Candidate(pair, Match, "LOW", d)
      \/ \E pair, d : \E type \in Drawable(ExceptionSeverity, m) :
           c = Candidate(pair, Exception(type), ExceptionSeverity[type], d)
  BY DEF ReconciliationTasks
<1>2. VerdictIn("reconciliation", c.state) = c.gold
  BY DEF VerdictIn
<1>3. CASE \E pair, d : c = Candidate(pair, Match, "LOW", d)
  <2>1. c.gold = Match /\ c.severity = "LOW" /\ Match.exception_type = "null"
    BY <1>3 DEF Candidate, Match
  <2> QED
    BY <1>2, <2>1, SeverityTables DEF Fits
<1>4. ASSUME NEW pair, NEW d, NEW type \in Drawable(ExceptionSeverity, m),
             c = Candidate(pair, Exception(type), ExceptionSeverity[type], d)
      PROVE  Fits("reconciliation", m, c)
  <2>1. /\ type \in ExceptionTypes
        /\ m # {} => ExceptionSeverity[type] \in m
    BY DEF Drawable, ExceptionTypes
  <2>2. c.gold.exception_type = type /\ c.severity = ExceptionSeverity[type]
    BY <1>4 DEF Candidate, Exception
  <2> QED
    BY <1>2, <2>1, <2>2, SeverityTables DEF Fits
<1> QED
  BY <1>1, <1>3, <1>4

\* A signalled payment keeps its signal.
LEMMA PaymentFits ==
    ASSUME NEW m, NEW c \in PaymentTasks(m)
    PROVE  Fits("payment_repair", m, c)
<1>1. PICK signal \in Drawable(SignalSeverity, m), d \in Difficulties["payment_repair"] :
        c \in {Candidate(q, RepairDecision(q), SignalSeverity[signal], d) :
                q \in UNION {Signalled(p, d = "hard") : p \in Payments(signal)}}
  BY DEF PaymentTasks
<1>2. PICK p \in Payments(signal) : \E q \in Signalled(p, d = "hard") :
        c = Candidate(q, RepairDecision(q), SignalSeverity[signal], d)
  BY <1>1
<1>3. PICK q \in Signalled(p, d = "hard") :
        c = Candidate(q, RepairDecision(q), SignalSeverity[signal], d)
  BY <1>2
<1>4. q.signal = signal
  <2>1. p.signal = signal
    BY DEF Payments
  <2>2. DOMAIN p = {"signal", "creditor", "creditor_name", "source_name", "amount",
                    "source_amount", "moved", "instruction"}
    BY DEF Payments
  <2> QED
    BY <2>1, <2>2 DEF Signalled
<1>5. signal \in PaymentSignals /\ (m # {} => SignalSeverity[signal] \in m)
  BY DEF Drawable, PaymentSignals
<1>6. /\ VerdictIn("payment_repair", c.state).exception_type = signal
      /\ c.severity = SignalSeverity[signal]
      /\ signal = "FRAUD_HOLD" => c.gold.verdict = "EXCEPTION"
  BY <1>3, <1>4, RepairShowsItsSignal DEF Candidate, VerdictIn, OnHold
<1> QED
  BY <1>5, <1>6, SeverityTables DEF Fits

\* A trade keeps the signal it was made under.
LEMMA SettlementFits ==
    ASSUME NEW m, NEW c \in SettlementTasks(m)
    PROVE  Fits("settlement", m, c)
<1>1. PICK signal \in Drawable(SettlementSeverity, m) :
        \E t \in Trades(signal), d \in Difficulties["settlement"] :
          c = Candidate(t, SettlementVerdict(t), SettlementSeverity[t.signal], d)
  BY DEF SettlementTasks
<1>2. PICK t \in Trades(signal), d \in Difficulties["settlement"] :
        c = Candidate(t, SettlementVerdict(t), SettlementSeverity[t.signal], d)
  BY <1>1
<1>3. t.signal = signal
  BY DEF Trades
<1>4. signal \in SettlementSignals /\ (m # {} => SettlementSeverity[signal] \in m)
  BY <1>2 DEF Drawable, SettlementSignals
<1>5. /\ VerdictIn("settlement", c.state) = SettlementVerdict(t) /\ c.gold = SettlementVerdict(t)
      /\ c.severity = SettlementSeverity[signal]
  BY <1>2, <1>3 DEF Candidate, VerdictIn
<1> QED
  BY <1>3, <1>4, <1>5, SettlementShowsItsSignal, SeverityTables DEF Fits

\* A task that is accepted was drawn, and the verifier agreed.
LEMMA AcceptedAreVerified ==
    ASSUME LoopTypes, NEW t \in Accepted
    PROVE  t \in TasksOf(domain, mix)
<1> DEFINE T == TasksOf(domain, mix)
<1>1. tasks \in Seq(T) /\ suites \in Seq(Seq(T))
  BY DEF LoopTypes
<1>2. ToSet(tasks) \subseteq T /\ \A i \in DOMAIN suites : ToSet(suites[i]) \subseteq T
  <2> HIDE DEF T
  <2> QED
    BY <1>1 DEF ToSet
<1> QED
  BY <1>2 DEF Accepted

\* The severity a task is charged at is the one its fields deserve, for any
\* names, amounts and dates: whatever class was injected, a task is only kept
\* when the verifier reads its gold off the fields (verifier_reconciliation()),
\* and no task of a CRITICAL severity has an automatic answer.
THEOREM SeveritiesFit == Spec => []SeverityFitsTheFields
<1>1. LoopTypes => SeverityFitsTheFields
  <2> SUFFICES ASSUME LoopTypes, NEW t \in Accepted
               PROVE  Fits(domain, mix, t.content)
    BY DEF SeverityFitsTheFields, Fits, Verdict, VerdictIn
  <2>3. t \in TasksOf(domain, mix)
    BY AcceptedAreVerified
  <2>4. /\ t.content \in Drawn[domain][mix]
        /\ VerdictIn(domain, t.content.state) = t.content.gold
    BY <2>3 DEF TasksOf
  <2>5. domain \in Domains /\ mix \in Mixes
    BY DEF LoopTypes
  <2>6. CASE domain = "reconciliation"
    BY <2>4, <2>5, <2>6, ReconciliationFits DEF Drawn, VerdictIn
  <2>7. CASE domain = "payment_repair"
    BY <2>4, <2>5, <2>7, PaymentFits DEF Drawn
  <2>8. CASE domain = "settlement"
    BY <2>4, <2>5, <2>8, SettlementFits DEF Drawn
  <2> QED
    BY <2>5, <2>6, <2>7, <2>8, SuiteAssumption
<1> QED
  BY <1>1, SuiteInvariant, PTL DEF SuiteInv
------------------------------------------------------------------------------
\* Any set of natural numbers that is not empty has a least one.
LEMMA LeastNumber ==
    ASSUME NEW T, T \subseteq Nat, T # {}
    PROVE  \E n \in T : \A m \in T : n <= m
<1> DEFINE Less == OpToRel(<, Nat)
<1>1. IsWellFoundedOn(Less, Nat)
  BY NatLessThanWellFounded
<1>2. PICK n \in T : \A m \in T : ~ (<<m, n>> \in Less)
  <2> HIDE DEF Less
  <2> QED
    BY <1>1, WFMin
<1>3. \A m \in T : ~ (m < n)
  BY <1>2 DEF OpToRel
<1> QED
  BY <1>3

\* Rules of which the last holds decide, and for one of their results.
LEMMA SomeRuleDecides ==
    ASSUME NEW rules, NEW n \in Nat \ {0}, DOMAIN rules = 1 .. n, rules[n].when,
           NEW Results, \A i \in 1 .. n : rules[i].when => rules[i].then \in Results
    PROVE  FirstMatch(rules) \in Results
<1> DEFINE T == {k \in 1 .. n : rules[k].when}
<1>1. T \subseteq Nat /\ n \in T
  OBVIOUS
<1>2. PICK i \in T : \A m \in T : i <= m
  <2> HIDE DEF T
  <2> QED
    BY <1>1, LeastNumber
<1>3. \A j \in 1 .. n : j < i => ~ rules[j].when
  BY <1>2
<1>4. FirstMatch(rules) = rules[i].then
  BY <1>2, <1>3, TheFirstRuleDecides
<1> QED
  BY <1>2, <1>4

\* The prompt's rules for a payment are the code's where the two tests they
\* word in their own way agree.
LEMMA TestsThatAgreeDecideAlike ==
    ASSUME NEW p,
           DeviatesTooMuch(p) <=> ~ (100 * Distance(p.amount, p.source_amount) <= 2 * p.source_amount),
           OverlapsTooLittle(p) <=> ~ (2 * Shared(p.creditor_name, p.source_name)
                                         >= Cardinality(ToSet(p.creditor_name)))
    PROVE  StatedOutcome(p) = FirstMatch(RepairRules(p))
<1> DEFINE within == 100 * Distance(p.amount, p.source_amount) <= 2 * p.source_amount
           half   == 2 * Shared(p.creditor_name, p.source_name) >= Cardinality(ToSet(p.creditor_name))
           D == DeviatesTooMuch(p)
           O == OverlapsTooLittle(p)
<1>1. D \in BOOLEAN /\ O \in BOOLEAN /\ within = ~ D /\ half = ~ O
  BY DEF DeviatesTooMuch, OverlapsTooLittle
<1>2. StatedOutcome(p) = FirstMatch(<<
          Rule(p.signal = "FRAUD_HOLD", <<"EXCEPTION", "hold_hitl">>),
          Rule(p.creditor = "" \/ p.creditor_name = << >>, <<"HITL", "hold_hitl">>),
          Rule(p.signal = "AMOUNT_MISMATCH" /\ ~ D, <<"REPAIR_SAFE", "amend_amount">>),
          Rule(D, <<"HITL", "hold_hitl">>),
          Rule(p.signal = "BENEFICIARY_MISMATCH" /\ ~ O, <<"REPAIR_SAFE", "amend_beneficiary">>),
          Rule(O, <<"HITL", "hold_hitl">>),
          Rule(p.signal = "DUPLICATE_ALERT", <<"HITL", "hold_hitl">>),
          Rule(p.signal = "VALUE_DATE", <<"REPAIR_SAFE", "resubmit">>),
          Rule(Otherwise, <<"REPAIR_SAFE", "approve">>) >>)
  <2>1. (~ within) = D /\ (~ half) = O
    BY <1>1
  <2> HIDE DEF within, half, D, O
  <2>2. StatedOutcome(p) = FirstMatch(<<
          Rule(p.signal = "FRAUD_HOLD", <<"EXCEPTION", "hold_hitl">>),
          Rule(p.creditor = "" \/ p.creditor_name = << >>, <<"HITL", "hold_hitl">>),
          Rule(p.signal = "AMOUNT_MISMATCH" /\ within, <<"REPAIR_SAFE", "amend_amount">>),
          Rule(~ within, <<"HITL", "hold_hitl">>),
          Rule(p.signal = "BENEFICIARY_MISMATCH" /\ half, <<"REPAIR_SAFE", "amend_beneficiary">>),
          Rule(~ half, <<"HITL", "hold_hitl">>),
          Rule(p.signal = "DUPLICATE_ALERT", <<"HITL", "hold_hitl">>),
          Rule(p.signal = "VALUE_DATE", <<"REPAIR_SAFE", "resubmit">>),
          Rule(Otherwise, <<"REPAIR_SAFE", "approve">>) >>)
    BY DEF StatedOutcome, within, half
  <2> QED
    BY <1>1, <2>1, <2>2
<1> QED
  BY <1>2 DEF RepairRules, OnHold

\* The words of drawn names, and those a signal puts in them.
Words == STRING \union {"HOLDING", "OTHER", "OY"}

\* The share of all tokens and the share of the name's own tokens are on the
\* same side of a half if the name has the source's words or none of them.
LEMMA SharesAgree ==
    ASSUME NEW own \in Seq(Words), NEW source \in Seq(Words),
           \/ ToSet(source) \subseteq ToSet(own)
           \/ own # << >> /\ ToSet(own) \intersect ToSet(source) = {}
    PROVE  2 * Shared(own, source) < AllTokens(own, source)
             <=> ~ (2 * Shared(own, source) >= Cardinality(ToSet(own)))
<1>1. \A s \in Seq(Words) : IsFiniteSet(ToSet(s))
  <2> SUFFICES ASSUME NEW s \in Seq(Words)
               PROVE  IsFiniteSet(ToSet(s))
    OBVIOUS
  <2>1. DOMAIN s = 1 .. Len(s) /\ IsFiniteSet(1 .. Len(s))
    BY FS_Interval
  <2>2. s \in Surjection(1 .. Len(s), ToSet(s))
    BY <2>1 DEF Surjection, ToSet
  <2> QED
    BY <2>1, <2>2, FS_Surjection
<1>2. /\ IsFiniteSet(ToSet(own)) /\ IsFiniteSet(ToSet(own) \union ToSet(source))
      /\ IsFiniteSet(ToSet(own) \intersect ToSet(source))
  BY <1>1, FS_Union, FS_Intersection
<1>3. Cardinality(ToSet(own)) \in Nat /\ AllTokens(own, source) \in Nat /\ Shared(own, source) \in Nat
  BY <1>2, FS_CardinalityType DEF AllTokens, Shared
<1>4. CASE ToSet(source) \subseteq ToSet(own)
  <2>1. ToSet(own) \union ToSet(source) = ToSet(own)
    BY <1>4
  <2>2. AllTokens(own, source) = Cardinality(ToSet(own))
    BY <2>1 DEF AllTokens
  <2> QED
    BY <1>3, <2>2
<1>5. CASE own # << >> /\ ToSet(own) \intersect ToSet(source) = {}
  <2>1. Shared(own, source) = 0
    BY <1>5, FS_EmptySet DEF Shared
  <2>2. ToSet(own) # {}
    <3>1. DOMAIN own = 1 .. Len(own) /\ Len(own) \in Nat /\ Len(own) # 0
      BY <1>5
    <3>2. 1 \in DOMAIN own
      BY <3>1
    <3> QED
      BY <3>2 DEF ToSet
  <2>3. Cardinality(ToSet(own)) # 0 /\ AllTokens(own, source) # 0
    BY <1>2, <2>2, FS_EmptySet DEF AllTokens
  <2> QED
    BY <1>3, <2>1, <2>3
<1> QED
  BY <1>4, <1>5

\* What a drawn payment looks like once its signal is in.
LEMMA SignalledPayment ==
    ASSUME NEW signal, NEW p \in Payments(signal), NEW hard, NEW q \in Signalled(p, hard)
    PROVE  /\ q.signal = signal
           /\ q.amount \in Int /\ q.source_amount \in Nat
           /\ \/ signal = "MISSING_FIELD" /\ q.creditor_name = << >>
              \/ /\ q.creditor_name \in Seq(Words) /\ q.source_name \in Seq(Words)
                 /\ \/ ToSet(q.source_name) \subseteq ToSet(q.creditor_name)
                    \/ /\ q.creditor_name # << >>
                       /\ ToSet(q.creditor_name) \intersect ToSet(q.source_name) = {}
<1>1. PICK name \in Names, amount \in Amounts :
        p = [signal |-> signal, creditor |-> "BIC", creditor_name |-> name, source_name |-> name,
             amount |-> amount, source_amount |-> amount, moved |-> 0, instruction |-> "pacs.008"]
  BY DEF Payments
<1>2. amount \in Nat /\ name \in Seq(STRING \ {"OTHER", "OY"}) /\ name \in Seq(Words)
  <2>1. amount \in Nat /\ name \in Seq(STRING \ {"OTHER", "OY"})
    BY DrawAssumption
  <2>2. STRING \ {"OTHER", "OY"} \subseteq Words
    BY DEF Words
  <2> DEFINE S == STRING \ {"OTHER", "OY"}
  <2> HIDE DEF S
  <2>3. name \in Seq(S) /\ S \subseteq Words
    BY <2>1, <2>2 DEF S
  <2>4. name \in Seq(Words)
    BY <2>3
  <2> QED
    BY <2>1, <2>4
<1>3. CASE signal = "AMOUNT_MISMATCH"
  <2>1. PICK more \in {1, 12} : q = [p EXCEPT !.amount = @ + (@ * more) \div 100]
    BY <1>1, <1>3 DEF Signalled
  <2>2. (amount * more) \div 100 \in Int
    BY <1>2
  <2>3. q.signal = signal /\ q.amount = amount + ((amount * more) \div 100) /\ q.source_amount = amount
        /\ q.creditor_name = name /\ q.source_name = name
    BY <1>1, <2>1
  <2> QED
    BY <1>2, <2>2, <2>3
<1>4. CASE signal = "BENEFICIARY_MISMATCH"
  <2>1. PICK new \in {Append(name, "HOLDING"), <<"OTHER", "OY">>} : q = [p EXCEPT !.creditor_name = new]
    BY <1>1, <1>4 DEF Signalled
  <2>2. q.signal = signal /\ q.amount = amount /\ q.source_amount = amount
        /\ q.creditor_name = new /\ q.source_name = name
    BY <1>1, <2>1
  <2>3. CASE new = Append(name, "HOLDING")
    <3>1. /\ new \in Seq(Words) /\ DOMAIN name = 1 .. Len(name)
          /\ DOMAIN new = 1 .. Len(name) + 1
          /\ \A i \in 1 .. Len(name) : new[i] = name[i]
      <4>1. \A h \in Words : /\ Append(name, h) \in Seq(Words)
                           /\ DOMAIN Append(name, h) = 1 .. Len(name) + 1
                           /\ \A i \in 1 .. Len(name) : Append(name, h)[i] = name[i]
        BY <1>2
      <4>2. "HOLDING" \in Words
        BY DEF Words
      <4>3. DOMAIN name = 1 .. Len(name)
        BY <1>2
      <4> QED
        BY <2>3, <4>1, <4>2, <4>3
    <3>2. ToSet(name) \subseteq ToSet(new)
      BY <1>2, <3>1 DEF ToSet
    <3> QED
      BY <1>2, <2>2, <3>1, <3>2
  <2>4. CASE new = <<"OTHER", "OY">>
    <3>1. new \in Seq(Words) /\ new # << >>
      <4>1. "OTHER" \in Words /\ "OY" \in Words
        BY DEF Words
      <4>2. <<"OTHER", "OY">> # << >>
        OBVIOUS
      <4>3. <<"OTHER", "OY">> \in Seq(Words)
        BY <4>1
      <4> QED
        BY <2>4, <4>2, <4>3
    <3>3. DOMAIN new = {1, 2} /\ new[1] = "OTHER" /\ new[2] = "OY"
      BY <2>4
    <3>4. ToSet(new) = {"OTHER", "OY"}
      BY <3>3 DEF ToSet
    <3>2. ToSet(name) \subseteq STRING \ {"OTHER", "OY"}
      BY <1>2 DEF ToSet
    <3> QED
      BY <1>2, <2>2, <3>1, <3>2, <3>4
  <2> QED
    BY <2>1, <2>3, <2>4
<1>5. CASE signal = "MISSING_FIELD"
  <2>1. q = [p EXCEPT !.creditor_name = << >>] \/ q = [p EXCEPT !.instruction = ""]
    BY <1>1, <1>5 DEF Signalled
  <2>2. /\ q.signal = signal /\ q.amount = amount /\ q.source_amount = amount
        /\ q.source_name = name /\ q.creditor_name \in {<< >>, name}
    BY <1>1, <2>1
  <2> QED
    BY <1>2, <1>5, <2>2
<1>6. CASE signal = "VALUE_DATE"
  <2>1. PICK days : q = [p EXCEPT !.moved = days]
    BY <1>1, <1>6 DEF Signalled
  <2> QED
    BY <1>1, <1>2, <2>1
<1>7. CASE signal \notin {"AMOUNT_MISMATCH", "BENEFICIARY_MISMATCH", "MISSING_FIELD", "VALUE_DATE"}
  <2>1. q = p
    BY <1>1, <1>7 DEF Signalled
  <2> QED
    BY <1>1, <1>2, <2>1
<1> QED
  BY <1>3, <1>4, <1>5, <1>6, <1>7

\* What StatedRulesDecide says of the content of a task in domain d.
RulesDecide(d, c) ==
    LET s == c.state
        g == c.gold
    IN  CASE d = "payment_repair" ->
               /\ StatedRepair(s) = g
               /\ g \in AnswersPayment
          [] d = "settlement" ->
               /\ StatedSettlement(s) = g
               /\ g \in AnswersSettlement
          [] d = "reconciliation" ->
               /\ \/ StatedAnswers(s) = {g}
                  \/ g = Match /\ Distance(s.ledger.amount, s.statement.amount) = 1
                  \/ g = Exception("DUPLICATE")
                  \/ g \in StatedAnswers(s) /\ s.ledger.beneficiary # s.statement.beneficiary
               /\ g \in AnswersReconciliation

\* A repair is a verdict and a verb, whichever rule decides.
LEMMA RepairIsAnAnswer ==
    ASSUME NEW p, p.signal \in PaymentSignals
    PROVE  RepairDecision(p) \in AnswersPayment
<1> DEFINE rules == RepairRules(p)
           Outcomes == {"REPAIR_SAFE", "EXCEPTION", "HITL"} \X
                         {"approve", "amend_amount", "amend_beneficiary", "resubmit", "hold_hitl", "reject"}
<1>1. DOMAIN rules = 1 .. 9 /\ rules[9].when
  BY DEF RepairRules, Rule, Otherwise
<1>2. RepairDecision(p) = Repair(FirstMatch(rules)[1], p.signal, FirstMatch(rules)[2])
  BY DEF RepairDecision
<1>6. \A i \in 1 .. 9 : rules[i].then \in Outcomes
  <2>1. /\ rules[1].then \in Outcomes /\ rules[2].then \in Outcomes /\ rules[3].then \in Outcomes
        /\ rules[4].then \in Outcomes /\ rules[5].then \in Outcomes /\ rules[6].then \in Outcomes
        /\ rules[7].then \in Outcomes /\ rules[8].then \in Outcomes /\ rules[9].then \in Outcomes
    BY DEF RepairRules, Rule
  <2> HIDE DEF rules, Outcomes
  <2> QED
    BY <2>1
<1> HIDE DEF rules
<1>3. FirstMatch(rules) \in Outcomes
  <2>1. 9 \in Nat \ {0}
    OBVIOUS
  <2> HIDE DEF Outcomes
  <2> QED
    BY <1>1, <1>6, <2>1, SomeRuleDecides, Zenon
<1> QED
  BY <1>2, <1>3 DEF Repair, AnswersPayment

\* What a signal does to a payment leaves the two tests of the prompt with the
\* verdict of the code's, or the payment without a creditor's name.
LEMMA PaymentRulesDecide ==
    ASSUME NEW m, NEW c \in PaymentTasks(m)
    PROVE  RulesDecide("payment_repair", c)
<1>1. PICK signal \in Drawable(SignalSeverity, m), d \in Difficulties["payment_repair"] :
        c \in {Candidate(q, RepairDecision(q), SignalSeverity[signal], d) :
                q \in UNION {Signalled(p, d = "hard") : p \in Payments(signal)}}
  BY DEF PaymentTasks
<1>2. PICK p \in Payments(signal) : \E q \in Signalled(p, d = "hard") :
        c = Candidate(q, RepairDecision(q), SignalSeverity[signal], d)
  BY <1>1
<1>3. PICK q \in Signalled(p, d = "hard") :
        c = Candidate(q, RepairDecision(q), SignalSeverity[signal], d)
  BY <1>2
<1>4. q.signal = signal /\ q.signal \in PaymentSignals
  BY SignalledPayment DEF Drawable, PaymentSignals
<1>5. StatedOutcome(q) = FirstMatch(RepairRules(q))
  <2>1. DeviatesTooMuch(q) <=> ~ (100 * Distance(q.amount, q.source_amount) <= 2 * q.source_amount)
    <3>1. q.amount \in Int /\ q.source_amount \in Int
      BY SignalledPayment
    <3> QED
      BY <3>1 DEF DeviatesTooMuch, Distance
  <2>2. CASE signal = "MISSING_FIELD" /\ q.creditor_name = << >>
    <3> DEFINE code == RepairRules(q)
               within == 100 * Distance(q.amount, q.source_amount) <= 2 * q.source_amount
               half == 2 * Shared(q.creditor_name, q.source_name) >= Cardinality(ToSet(q.creditor_name))
               prompt == <<
          Rule(q.signal = "FRAUD_HOLD", <<"EXCEPTION", "hold_hitl">>),
          Rule(q.creditor = "" \/ q.creditor_name = << >>, <<"HITL", "hold_hitl">>),
          Rule(q.signal = "AMOUNT_MISMATCH" /\ within, <<"REPAIR_SAFE", "amend_amount">>),
          Rule(~ within, <<"HITL", "hold_hitl">>),
          Rule(q.signal = "BENEFICIARY_MISMATCH" /\ half, <<"REPAIR_SAFE", "amend_beneficiary">>),
          Rule(~ half, <<"HITL", "hold_hitl">>),
          Rule(q.signal = "DUPLICATE_ALERT", <<"HITL", "hold_hitl">>),
          Rule(q.signal = "VALUE_DATE", <<"REPAIR_SAFE", "resubmit">>),
          Rule(Otherwise, <<"REPAIR_SAFE", "approve">>) >>
    <3>0. q.signal # "FRAUD_HOLD" /\ q.creditor_name = << >>
      BY <1>4, <2>2
    <3>6. 2 \in 1 .. 9
      OBVIOUS
    <3>1. /\ DOMAIN code = 1 .. 9 /\ \E n \in Nat : DOMAIN code = 1 .. n
      BY DEF RepairRules
    <3>7. /\ code[2].then = <<"HITL", "hold_hitl">>
          /\ code[1].when => q.signal = "FRAUD_HOLD"
          /\ q.creditor_name = << >> => code[2].when
      BY DEF RepairRules, Rule, OnHold
    <3>2. /\ DOMAIN prompt = 1 .. 9 /\ \E n \in Nat : DOMAIN prompt = 1 .. n
      OBVIOUS
    <3>8. /\ prompt[2].then = <<"HITL", "hold_hitl">>
          /\ prompt[1].when => q.signal = "FRAUD_HOLD"
          /\ q.creditor_name = << >> => prompt[2].when
      BY DEF Rule
    <3>3. StatedOutcome(q) = FirstMatch(prompt)
      BY DEF StatedOutcome
    <3> HIDE DEF code, prompt
    <3>4. FirstMatch(code) = code[2].then
      <4>1. code[2].when
        BY <3>0, <3>7, Zenon
      <4>3. 2 \in DOMAIN code
        BY <3>6, <3>1, Zenon
      <4>2. \A j \in DOMAIN code : j < 2 => ~ code[j].when
        BY <3>0, <3>1, <3>7
      <4> QED
        BY <3>1, <4>1, <4>2, <4>3, TheFirstRuleDecides
    <3>5. FirstMatch(prompt) = prompt[2].then
      <4>1. prompt[2].when
        BY <3>0, <3>8, Zenon
      <4>3. 2 \in DOMAIN prompt
        BY <3>6, <3>2, Zenon
      <4>2. \A j \in DOMAIN prompt : j < 2 => ~ prompt[j].when
        BY <3>0, <3>2, <3>8
      <4> QED
        BY <3>2, <4>1, <4>2, <4>3, TheFirstRuleDecides
    <3> QED
      BY <3>3, <3>4, <3>5, <3>7, <3>8 DEF code
  <2>3. CASE ~ (signal = "MISSING_FIELD" /\ q.creditor_name = << >>)
    <3>1. OverlapsTooLittle(q) <=> ~ (2 * Shared(q.creditor_name, q.source_name)
                                        >= Cardinality(ToSet(q.creditor_name)))
      BY <2>3, SignalledPayment, SharesAgree DEF OverlapsTooLittle
    <3> QED
      BY <2>1, <3>1, TestsThatAgreeDecideAlike
  <2> QED
    BY <2>2, <2>3
<1>6. c.state = q /\ c.gold = RepairDecision(q)
  BY <1>3 DEF Candidate
<1>7. StatedRepair(q) = RepairDecision(q)
  BY <1>5 DEF StatedRepair, RepairDecision
<1> QED
  BY <1>4, <1>6, <1>7, RepairIsAnAnswer DEF RulesDecide

\* The class and the verdict of a trade, whichever rules decide.
LEMMA SettlementRulesDecide ==
    ASSUME NEW m, NEW c \in SettlementTasks(m)
    PROVE  RulesDecide("settlement", c)
<1>1. PICK signal \in Drawable(SettlementSeverity, m) :
        \E t \in Trades(signal), d \in Difficulties["settlement"] :
          c = Candidate(t, SettlementVerdict(t), SettlementSeverity[t.signal], d)
  BY DEF SettlementTasks
<1>2. PICK t \in Trades(signal), d \in Difficulties["settlement"] :
        c = Candidate(t, SettlementVerdict(t), SettlementSeverity[t.signal], d)
  BY <1>1
<1>3. t.signal = signal /\ signal \in SettlementSignals
  BY DEF Trades, Drawable, SettlementSignals
<1> DEFINE Class == CASE t.signal = "HERSTATT_EXPOSURE" -> "CRITICAL"
                      [] t.signal = "LIMIT_BREACH" -> IF t.exposure > t.limit THEN "HIGH" ELSE "LOW"
                      [] t.signal \in {"DELAYED", "MISSING_CONFIRMATION"} ->
                           IF t.days > 2 THEN "HIGH" ELSE "LOW"
                      [] OTHER -> "LOW"
<1>4. ExposureClass(t) = Class
  <2> DEFINE rules == ExposureRules(t)
             Breach == t.signal = "LIMIT_BREACH" /\ t.exposure > t.limit
             Late == t.signal \in {"DELAYED", "MISSING_CONFIRMATION"} /\ t.days > 2
  <2>1. DOMAIN rules = 1 .. 4 /\ \E n \in Nat : DOMAIN rules = 1 .. n
    BY DEF ExposureRules
  <2>2. /\ rules[1].when <=> t.signal = "HERSTATT_EXPOSURE"
        /\ rules[2].when <=> Breach
        /\ rules[3].when <=> Late
        /\ rules[4].when
    BY DEF ExposureRules, Rule, Otherwise, Grace
  <2>3. /\ rules[1].then = "CRITICAL" /\ rules[2].then = "HIGH"
        /\ rules[3].then = "HIGH" /\ rules[4].then = "LOW"
    BY DEF ExposureRules, Rule
  <2>4. ExposureClass(t) = FirstMatch(rules)
    BY DEF ExposureClass
  <2> HIDE DEF rules
  <2>5. CASE t.signal = "HERSTATT_EXPOSURE"
    <3>1. FirstMatch(rules) = rules[1].then
      BY <2>1, <2>2, <2>5, TheFirstRuleDecides
    <3> QED
      BY <2>3, <2>4, <2>5, <3>1
  <2>6. CASE Breach
    <3>1. FirstMatch(rules) = rules[2].then
      BY <2>1, <2>2, <2>6, TheFirstRuleDecides
    <3> QED
      BY <2>3, <2>4, <2>6, <3>1
  <2>7. CASE Late
    <3>1. FirstMatch(rules) = rules[3].then
      BY <2>1, <2>2, <2>7, TheFirstRuleDecides
    <3> QED
      BY <2>3, <2>4, <2>7, <3>1
  <2>8. CASE ~ (t.signal = "HERSTATT_EXPOSURE" \/ Breach \/ Late)
    <3>1. FirstMatch(rules) = rules[4].then
      <4>1. \A j \in 1 .. 4 : j < 4 => ~ rules[j].when
        <5>1. ~ rules[1].when /\ ~ rules[2].when /\ ~ rules[3].when
          BY <2>2, <2>8, Zenon
        <5> QED
          BY <5>1
      <4>2. 4 \in 1 .. 4
        OBVIOUS
      <4> QED
        BY <2>1, <2>2, <4>1, <4>2, TheFirstRuleDecides
    <3> QED
      BY <2>3, <2>4, <2>8, <3>1
  <2> QED
    BY <2>5, <2>6, <2>7, <2>8
<1> DEFINE g == SettlementVerdict(t)
           rules == SettlementRules(t)
<1>5. /\ Class \in {"LOW", "HIGH", "CRITICAL"}
      /\ t.signal = "ON_TIME" => Class = "LOW"
  OBVIOUS
<1>6. StatedSettlement(t) =
        [verdict |-> CASE t.signal = "ON_TIME" -> "MATCH"
                       [] t.signal # "ON_TIME" /\ Class = "LOW" -> "ESCALATE"
                       [] OTHER -> "HITL",
         exception_type |-> IF t.signal = "ON_TIME" THEN "null" ELSE t.signal,
         exposure_class |-> Class]
  BY DEF StatedSettlement
<1>7. DOMAIN rules = 1 .. 3 /\ \E n \in Nat : DOMAIN rules = 1 .. n
  BY DEF SettlementRules
<1> HIDE DEF Class
<1>8. /\ rules[1].when <=> t.signal = "ON_TIME"
      /\ rules[2].when <=> Class \in {"HIGH", "CRITICAL"}
      /\ rules[3].when
  BY <1>4 DEF SettlementRules, Rule, Otherwise
<1>9. /\ rules[1].then = [verdict |-> "MATCH", exception_type |-> "null", exposure_class |-> Class]
      /\ rules[2].then = [verdict |-> "HITL", exception_type |-> t.signal, exposure_class |-> Class]
      /\ rules[3].then = [verdict |-> "ESCALATE", exception_type |-> t.signal, exposure_class |-> Class]
  BY <1>4 DEF SettlementRules, Rule
<1>10. g = FirstMatch(rules)
  BY DEF SettlementVerdict
<1> HIDE DEF g, rules
<1>11. StatedSettlement(t) = g /\ g \in AnswersSettlement
  <2>1. CASE t.signal = "ON_TIME"
    <3>1. FirstMatch(rules) = rules[1].then
      BY <1>7, <1>8, <2>1, TheFirstRuleDecides
    <3> QED
      BY <1>5, <1>6, <1>9, <1>10, <2>1, <3>1 DEF AnswersSettlement
  <2>2. CASE t.signal # "ON_TIME" /\ Class \in {"HIGH", "CRITICAL"}
    <3>1. FirstMatch(rules) = rules[2].then
      BY <1>7, <1>8, <2>2, TheFirstRuleDecides
    <3> QED
      BY <1>3, <1>6, <1>9, <1>10, <2>2, <3>1 DEF AnswersSettlement
  <2>3. CASE t.signal # "ON_TIME" /\ Class = "LOW"
    <3>1. FirstMatch(rules) = rules[3].then
      BY <1>7, <1>8, <2>3, TheFirstRuleDecides
    <3> QED
      BY <1>3, <1>6, <1>9, <1>10, <2>3, <3>1 DEF AnswersSettlement
  <2> QED
    BY <1>5, <2>1, <2>2, <2>3
<1>12. c.state = t /\ c.gold = g
  BY <1>2 DEF Candidate, g
<1> QED
  BY <1>11, <1>12 DEF RulesDecide

\* What the verdict says of a field is so.
LEMMA VerdictShows ==
    ASSUME NEW s
    PROVE  LET v == ReconciliationVerdict(s) IN
           /\ v = Exception("FIELD_CORRUPTION") => IllFormed(s.ledger) \/ IllFormed(s.statement)
           /\ v \in {Exception("PARTIAL_MATCH"), Exception("BENEFICIARY_MISMATCH")} =>
                s.ledger.beneficiary # s.statement.beneficiary
<1> DEFINE l == s.ledger
           t == s.statement
           rules == <<
          Rule(t = NoStatement, Exception("MISSING_MESSAGE")),
          Rule(IllFormed(l) \/ IllFormed(t), Exception("FIELD_CORRUPTION")),
          Rule(l.currency # t.currency, Exception("FX_CONVERSION_ERROR")),
          Rule(Distance(l.amount, t.amount) > Tolerance, Exception("AMOUNT_MISMATCH")),
          Rule(t.reference \in s.prior_bookings, Exception("DUPLICATE")),
          Rule(l.beneficiary # t.beneficiary /\ Shared(l.beneficiary, t.beneficiary) > 0,
               Exception("PARTIAL_MATCH")),
          Rule(l.beneficiary # t.beneficiary, Exception("BENEFICIARY_MISMATCH")),
          Rule(l.counterparty # t.counterparty, Exception("COUNTERPARTY_MISMATCH")),
          Rule(/\ l.value_date # t.value_date
               /\ Weekend(t.value_date) \/ t.value_date - l.booking_date > 2,
               Exception("VALUE_DATE_MISMATCH")),
          Rule(Otherwise, Match) >>
           Results ==
             {Exception("MISSING_MESSAGE"), Exception("FX_CONVERSION_ERROR"),
              Exception("AMOUNT_MISMATCH"), Exception("DUPLICATE"),
              Exception("COUNTERPARTY_MISMATCH"), Exception("VALUE_DATE_MISMATCH"), Match}
             \union {v \in {Exception("FIELD_CORRUPTION")} : IllFormed(l) \/ IllFormed(t)}
             \union {v \in {Exception("PARTIAL_MATCH"), Exception("BENEFICIARY_MISMATCH")} :
                       l.beneficiary # t.beneficiary}
<1>1. ReconciliationVerdict(s) = FirstMatch(rules)
  BY DEF ReconciliationVerdict
<1>2. DOMAIN rules = 1 .. 10 /\ rules[10].when
  BY DEF Rule, Otherwise
<1>3. /\ rules[1].then = Exception("MISSING_MESSAGE") /\ rules[3].then = Exception("FX_CONVERSION_ERROR")
      /\ rules[4].then = Exception("AMOUNT_MISMATCH") /\ rules[5].then = Exception("DUPLICATE")
      /\ rules[8].then = Exception("COUNTERPARTY_MISMATCH")
      /\ rules[9].then = Exception("VALUE_DATE_MISMATCH") /\ rules[10].then = Match
  BY DEF Rule
<1>4. /\ rules[2].then = Exception("FIELD_CORRUPTION")
      /\ rules[2].when => IllFormed(l) \/ IllFormed(t)
  BY DEF Rule
<1>5. /\ rules[6].then = Exception("PARTIAL_MATCH") /\ rules[7].then = Exception("BENEFICIARY_MISMATCH")
      /\ rules[6].when => l.beneficiary # t.beneficiary
      /\ rules[7].when => l.beneficiary # t.beneficiary
  BY DEF Rule
<1>6. \A i \in 1 .. 10 : rules[i].when => rules[i].then \in Results
  <2> HIDE DEF rules
  <2>1. /\ rules[1].then \in Results /\ rules[3].then \in Results /\ rules[4].then \in Results
        /\ rules[5].then \in Results /\ rules[8].then \in Results /\ rules[9].then \in Results
        /\ rules[10].then \in Results
    BY <1>3
  <2>2. rules[2].when => rules[2].then \in Results
    BY <1>4
  <2>3. /\ rules[6].when => rules[6].then \in Results
        /\ rules[7].when => rules[7].then \in Results
    BY <1>5
  <2> HIDE DEF Results
  <2> QED
    BY <2>1, <2>2, <2>3
<1>7. FirstMatch(rules) \in Results
  <2>1. 10 \in Nat \ {0}
    OBVIOUS
  <2> HIDE DEF rules, Results
  <2> QED
    BY <1>2, <1>6, <2>1, SomeRuleDecides, Zenon
<1> HIDE DEF rules
<1> QED
  BY <1>1, <1>7 DEF Exception, Match

\* A clean record is well formed.
LEMMA DrawnRecords ==
    ASSUME NEW d, NEW r \in CleanRecords(d)
    PROVE  /\ r.reference = "REF" /\ r.currency = "USD" /\ r.counterparty = "BIC"
           /\ r.amount \in Nat /\ r.beneficiary # << >>
           /\ r.booking_date \in Nat /\ r.value_date \in {r.booking_date + 1, r.booking_date + 2}
           /\ r = [reference |-> r.reference, amount |-> r.amount, currency |-> r.currency,
                   counterparty |-> r.counterparty, beneficiary |-> r.beneficiary,
                   booking_date |-> r.booking_date, value_date |-> r.value_date]
           /\ ~ IllFormed(r)
<1>1. PICK amount \in Amounts, name \in Names, day \in Bookings, k \in {1, 2} :
        r = [reference |-> "REF", amount |-> amount, currency |-> "USD", counterparty |-> "BIC",
             beneficiary |-> name, booking_date |-> day,
             value_date |-> IF d = "hard" /\ ~ Weekend(day + k) THEN day + 1 ELSE day + k]
  BY DEF CleanRecords
<1>2. amount \in Nat /\ day \in Nat /\ name # << >>
  BY DrawAssumption
<1>3. /\ r.reference = "REF" /\ r.currency = "USD" /\ r.counterparty = "BIC"
      /\ r.amount \in Nat /\ r.beneficiary # << >>
      /\ r.booking_date \in Nat /\ r.value_date \in {r.booking_date + 1, r.booking_date + 2}
      /\ r = [reference |-> r.reference, amount |-> r.amount, currency |-> r.currency,
              counterparty |-> r.counterparty, beneficiary |-> r.beneficiary,
              booking_date |-> r.booking_date, value_date |-> r.value_date]
  BY <1>1, <1>2
<1>4. ~ IllFormed(r)
  BY <1>3 DEF IllFormed, NotANumber
<1> QED
  BY <1>3, <1>4

\* A record whose fields are none of those of NoStatement is well formed.
LEMMA WellFormed ==
    ASSUME NEW c, c.reference # "", c.currency # "", c.counterparty # "",
           c.beneficiary # << >>, c.amount # NotANumber
    PROVE  ~ IllFormed(c) /\ c # NoStatement
<1>1. ~ IllFormed(c)
  BY DEF IllFormed
<1>2. NoStatement.currency = ""
  BY DEF NoStatement
<1> QED
  BY <1>1, <1>2

\* The two sides of a clean pair agree, or are a cent apart.
LEMMA CleanRulesDecide ==
    ASSUME NEW d, NEW pair \in CleanPairs(d)
    PROVE  \/ StatedAnswers(pair) = {Match}
           \/ Distance(pair.ledger.amount, pair.statement.amount) = 1
<1>1. PICK r \in CleanRecords(d) : \E a \in NearMiss(r.amount) : pair = Pair([r EXCEPT !.amount = a], r)
  BY DEF CleanPairs
<1>2. PICK a \in NearMiss(r.amount) : pair = Pair([r EXCEPT !.amount = a], r)
  BY <1>1
<1>3. r.amount \in Nat /\ a \in {r.amount, r.amount - 1, r.amount + 1}
  BY DrawnRecords DEF NearMiss
<1>4. CASE a = r.amount
  <2>1. [r EXCEPT !.amount = a] = r
    BY <1>4, DrawnRecords
  <2> QED
    BY <1>2, <2>1 DEF Pair, StatedAnswers
<1>5. CASE a # r.amount
  <2>1. [r EXCEPT !.amount = a].amount = a
    BY DrawnRecords
  <2>2. pair.ledger.amount = a /\ pair.statement.amount = r.amount
    BY <1>2, <2>1 DEF Pair
  <2> QED
    BY <1>3, <1>5, <2>2 DEF Distance
<1> QED
  BY <1>4, <1>5

\* Where one class fits two records that differ it is the only answer.
LEMMA TheClassThatFits ==
    ASSUME NEW s, NEW type \in ExceptionTypes,
           s.ledger # s.statement, s.statement # NoStatement, s.prior_bookings = {},
           s.ledger.beneficiary = s.statement.beneficiary,
           type = "FIELD_CORRUPTION" <=> IllFormed(s.ledger) \/ IllFormed(s.statement),
           type = "FX_CONVERSION_ERROR" <=> s.ledger.currency # s.statement.currency,
           type = "AMOUNT_MISMATCH" <=>
             s.ledger.amount # s.statement.amount /\ NotANumber \notin {s.ledger.amount, s.statement.amount},
           type = "COUNTERPARTY_MISMATCH" <=> s.ledger.counterparty # s.statement.counterparty,
           type = "VALUE_DATE_MISMATCH" <=> s.ledger.value_date # s.statement.value_date,
           type \in {"FIELD_CORRUPTION", "FX_CONVERSION_ERROR", "AMOUNT_MISMATCH",
                     "COUNTERPARTY_MISMATCH", "VALUE_DATE_MISMATCH"}
    PROVE  StatedAnswers(s) = {Exception(type)}
<1>1. FittingClasses(s) = {type}
  BY DEF FittingClasses
<1> QED
  BY <1>1 DEF StatedAnswers

\* An exception the verifier confirms is what the prompt's rules come to, or
\* one of the two kinds they leave out or leave open.
LEMMA ExceptionRulesDecide ==
    ASSUME NEW d, NEW r \in CleanRecords(d), NEW type \in ExceptionTypes,
           NEW pair \in PairsWith(type, r),
           ReconciliationVerdict(pair) = Exception(type)
    PROVE  \/ StatedAnswers(pair) = {Exception(type)}
           \/ type = "DUPLICATE"
           \/ /\ Exception(type) \in StatedAnswers(pair)
              /\ pair.ledger.beneficiary # pair.statement.beneficiary
<1>1. CASE type = "MISSING_MESSAGE"
  <2>1. pair = Pair(r, NoStatement)
    BY <1>1 DEF PairsWith
  <2>2. pair.ledger = r /\ pair.statement = NoStatement
    BY <2>1 DEF Pair
  <2>3. r.reference = "REF" /\ NoStatement.reference = ""
    BY DrawnRecords DEF NoStatement
  <2>4. FittingClasses(pair) = {type}
    BY <1>1, <2>2 DEF FittingClasses
  <2> QED
    BY <2>2, <2>3, <2>4 DEF StatedAnswers
<1>2. CASE type = "FIELD_CORRUPTION"
  <2>1. PICK c \in Corrupted(r) : pair = Pair(r, c) \/ pair = Pair(c, r)
    BY <1>2 DEF PairsWith
  <2>2. /\ pair.prior_bookings = {}
        /\ \/ pair.ledger = r /\ pair.statement = c
           \/ pair.ledger = c /\ pair.statement = r
    BY <2>1 DEF Pair
  <2>3. IllFormed(c)
    BY <1>2, <2>2, VerdictShows, DrawnRecords
  <2>4. c # [r EXCEPT !.beneficiary = <<"X">>]
    <3> DEFINE x == [r EXCEPT !.beneficiary = <<"X">>]
    <3>1. /\ x.reference = "REF" /\ x.currency = "USD" /\ x.counterparty = "BIC"
          /\ x.amount = r.amount /\ x.beneficiary = <<"X">>
      BY DrawnRecords
    <3>2. x.amount # NotANumber /\ x.beneficiary # << >>
      BY <3>1, DrawnRecords DEF NotANumber
    <3> HIDE DEF x
    <3>3. ~ IllFormed(x)
      BY <3>1, <3>2, WellFormed
    <3> QED
      BY <2>3, <3>3 DEF x
  <2>5. c = [r EXCEPT !.amount = NotANumber] \/ c = [r EXCEPT !.reference = ""]
    BY <2>4 DEF Corrupted
  <2>6. /\ c.currency = "USD" /\ c.counterparty = "BIC" /\ c.beneficiary = r.beneficiary
        /\ c.value_date = r.value_date
        /\ c.amount \in {r.amount, NotANumber}
        /\ c # r
    <3>1. CASE c = [r EXCEPT !.amount = NotANumber]
      <4>1. c.amount = NotANumber /\ r.amount # NotANumber
        BY <3>1, DrawnRecords DEF NotANumber
      <4> QED
        BY <3>1, <4>1, DrawnRecords
    <3>2. CASE c = [r EXCEPT !.reference = ""]
      <4> DEFINE e == [r EXCEPT !.reference = ""]
      <4>1. /\ e.currency = r.currency /\ e.counterparty = r.counterparty
            /\ e.beneficiary = r.beneficiary /\ e.value_date = r.value_date
            /\ e.amount = r.amount
        BY DrawnRecords
      <4>2. e.reference = ""
        BY DrawnRecords
      <4>3. r.reference # ""
        BY DrawnRecords
      <4>4. c = e
        BY <3>2
      <4> HIDE DEF e
      <4> QED
        BY <4>1, <4>2, <4>3, <4>4, DrawnRecords
    <3> QED
      BY <2>5, <3>1, <3>2
  <2>7. c # NoStatement /\ r # NoStatement
    <3>1. NoStatement.currency = ""
      BY DEF NoStatement
    <3> QED
      BY <2>6, <3>1, DrawnRecords
  <2> QED
    BY <1>2, <2>2, <2>3, <2>6, <2>7, DrawnRecords, TheClassThatFits
<1>3. ASSUME NEW c, pair = Pair(r, c), type # "FIELD_CORRUPTION", ~ IllFormed(c),
             c.beneficiary = r.beneficiary,
             type = "FX_CONVERSION_ERROR" <=> c.currency # r.currency,
             type = "AMOUNT_MISMATCH" <=> c.amount # r.amount,
             type = "COUNTERPARTY_MISMATCH" <=> c.counterparty # r.counterparty,
             type = "VALUE_DATE_MISMATCH" <=> c.value_date # r.value_date,
             type \in {"FX_CONVERSION_ERROR", "AMOUNT_MISMATCH", "COUNTERPARTY_MISMATCH",
                       "VALUE_DATE_MISMATCH"}
      PROVE  StatedAnswers(pair) = {Exception(type)}
  <2>1. pair.ledger = r /\ pair.statement = c /\ pair.prior_bookings = {}
    BY <1>3 DEF Pair
  <2>2. c # r
    BY <1>3
  <2>3. c # NoStatement
    <3>1. IllFormed(NoStatement)
      BY DEF IllFormed, NoStatement
    <3> QED
      BY <1>3, <3>1
  <2>4. NotANumber \notin {r.amount, c.amount} /\ ~ IllFormed(r)
    BY <1>3, DrawnRecords DEF IllFormed
  <2> QED
    BY <1>3, <2>1, <2>2, <2>3, <2>4, TheClassThatFits
<1>4. CASE type = "FX_CONVERSION_ERROR"
  <2> DEFINE c == [r EXCEPT !.currency = "EUR"]
  <2>1. pair = Pair(r, c)
    BY <1>4 DEF PairsWith
  <2>2. /\ c.currency = "EUR" /\ c.amount = r.amount /\ c.counterparty = r.counterparty
        /\ c.beneficiary = r.beneficiary /\ c.value_date = r.value_date /\ c.reference = r.reference
    BY DrawnRecords
  <2>3. ~ IllFormed(c)
    BY <2>2, DrawnRecords DEF IllFormed
  <2> HIDE DEF c
  <2> QED
    BY <1>3, <1>4, <2>1, <2>2, <2>3, DrawnRecords
<1>5. CASE type = "AMOUNT_MISMATCH"
  <2> DEFINE c == [r EXCEPT !.amount = @ + 1237]
  <2>1. pair = Pair(r, c)
    BY <1>5 DEF PairsWith
  <2>2. /\ c.currency = r.currency /\ c.amount = r.amount + 1237 /\ c.counterparty = r.counterparty
        /\ c.beneficiary = r.beneficiary /\ c.value_date = r.value_date /\ c.reference = r.reference
    BY DrawnRecords
  <2>3. c.amount # NotANumber /\ c.amount # r.amount
    BY <2>2, DrawnRecords DEF NotANumber
  <2> HIDE DEF c
  <2>4. ~ IllFormed(c)
    <3>1. /\ c.currency # "" /\ c.counterparty # "" /\ c.reference # ""
          /\ c.beneficiary # << >>
      <4>1. /\ r.reference = "REF" /\ r.currency = "USD" /\ r.counterparty = "BIC"
            /\ r.beneficiary # << >>
        BY DrawnRecords
      <4> QED
        BY <2>2, <4>1
    <3> QED
      BY <2>3, <3>1, WellFormed
  <2> QED
    BY <1>3, <1>5, <2>1, <2>2, <2>3, <2>4
<1>6. CASE type = "COUNTERPARTY_MISMATCH"
  <2> DEFINE c == [r EXCEPT !.counterparty = "OTHERBIC"]
  <2>1. pair = Pair(r, c)
    BY <1>6 DEF PairsWith
  <2>2. /\ c.currency = r.currency /\ c.amount = r.amount /\ c.counterparty = "OTHERBIC"
        /\ c.beneficiary = r.beneficiary /\ c.value_date = r.value_date /\ c.reference = r.reference
    BY DrawnRecords
  <2>3. ~ IllFormed(c)
    BY <2>2, DrawnRecords DEF IllFormed
  <2> HIDE DEF c
  <2> QED
    BY <1>3, <1>6, <2>1, <2>2, <2>3, DrawnRecords
<1>7. CASE type = "VALUE_DATE_MISMATCH"
  <2> DEFINE c == [r EXCEPT !.value_date = r.booking_date + 5]
  <2>1. pair = Pair(r, c)
    BY <1>7 DEF PairsWith
  <2>2. /\ c.currency = r.currency /\ c.amount = r.amount /\ c.counterparty = r.counterparty
        /\ c.beneficiary = r.beneficiary /\ c.value_date = r.booking_date + 5
        /\ c.reference = r.reference
    BY DrawnRecords
  <2>3. c.value_date # r.value_date
    BY <2>2, DrawnRecords
  <2>4. ~ IllFormed(c)
    <3>1. c.amount # NotANumber
      BY <2>2, DrawnRecords DEF NotANumber
    <3> QED
      BY <2>2, <3>1, DrawnRecords, WellFormed
  <2> HIDE DEF c
  <2> QED
    BY <1>3, <1>7, <2>1, <2>2, <2>3, <2>4
<1>8. CASE type \in {"PARTIAL_MATCH", "BENEFICIARY_MISMATCH"}
  <2>1. pair.ledger.beneficiary # pair.statement.beneficiary
    BY <1>8, VerdictShows
  <2>2. PICK name : pair = Pair(r, [r EXCEPT !.beneficiary = name])
    BY <1>8 DEF PairsWith
  <2>3. pair.statement.currency = "USD"
    BY <2>2, DrawnRecords DEF Pair
  <2>4. pair.statement # NoStatement
    <3>1. NoStatement.currency = ""
      BY DEF NoStatement
    <3> QED
      BY <2>3, <3>1
  <2>5. type \in FittingClasses(pair)
    BY <1>8, <2>1, <2>4 DEF FittingClasses
  <2>6. pair.ledger # pair.statement
    BY <2>1
  <2> QED
    BY <2>1, <2>5, <2>6 DEF StatedAnswers
<1>9. type \in {"MISSING_MESSAGE", "FIELD_CORRUPTION", "FX_CONVERSION_ERROR", "AMOUNT_MISMATCH",
                "COUNTERPARTY_MISMATCH", "VALUE_DATE_MISMATCH", "PARTIAL_MATCH",
                "BENEFICIARY_MISMATCH", "DUPLICATE"}
  BY DEF ExceptionTypes, ExceptionSeverity
<1> QED
  BY <1>1, <1>2, <1>4, <1>5, <1>6, <1>7, <1>8, <1>9

\* The answer to a pair is the one the rules leave, but for the three kinds.
LEMMA ReconciliationRulesDecide ==
    ASSUME NEW m, NEW c \in ReconciliationTasks(m),
           ReconciliationVerdict(c.state) = c.gold
    PROVE  RulesDecide("reconciliation", c)
<1>1. \/ \E d : \E pair \in CleanPairs(d) : c = Candidate(pair, Match, "LOW", d)
      \/ \E d : \E r \in CleanRecords(d), type \in Drawable(ExceptionSeverity, m) :
           \E pair \in PairsWith(type, r) :
             c = Candidate(pair, Exception(type), ExceptionSeverity[type], d)
  BY DEF ReconciliationTasks
<1>2. ASSUME NEW d, NEW pair \in CleanPairs(d), c = Candidate(pair, Match, "LOW", d)
      PROVE  RulesDecide("reconciliation", c)
  <2>1. c.state = pair /\ c.gold = Match
    BY <1>2 DEF Candidate
  <2>2. Match \in AnswersReconciliation
    BY DEF Match, AnswersReconciliation
  <2> QED
    BY <2>1, <2>2, CleanRulesDecide DEF RulesDecide
<1>3. ASSUME NEW d, NEW r \in CleanRecords(d), NEW type \in Drawable(ExceptionSeverity, m),
             NEW pair \in PairsWith(type, r),
             c = Candidate(pair, Exception(type), ExceptionSeverity[type], d)
      PROVE  RulesDecide("reconciliation", c)
  <2>1. c.state = pair /\ c.gold = Exception(type)
    BY <1>3 DEF Candidate
  <2>2. type \in ExceptionTypes
    BY DEF Drawable, ExceptionTypes
  <2>3. c.gold \in AnswersReconciliation
    BY <2>1, <2>2 DEF Exception, AnswersReconciliation
  <2> QED
    BY <2>1, <2>2, <2>3, ExceptionRulesDecide DEF RulesDecide
<1> QED
  BY <1>1, <1>2, <1>3

\* The rules a model is told leave every payment and settlement task one
\* answer, the verifier's, in each field that is graded; and every task of
\* reconciliation, but for an amount a cent off, a reference booked before and
\* another beneficiary; for any amounts and dates and for all names that have
\* no word of the one that stands for somebody else (the verdicts of
\* verifier_*() and the rules of generate/prompt.py).
THEOREM ThePromptSaysEnough == Spec => []StatedRulesDecide
<1>1. LoopTypes => StatedRulesDecide
  <2> SUFFICES ASSUME LoopTypes, NEW t \in Accepted
               PROVE  RulesDecide(domain, t.content)
    BY DEF StatedRulesDecide, RulesDecide
  <2>1. t \in TasksOf(domain, mix)
    BY AcceptedAreVerified
  <2>2. /\ t.content \in Drawn[domain][mix]
        /\ VerdictIn(domain, t.content.state) = t.content.gold
    BY <2>1 DEF TasksOf
  <2>3. domain \in Domains /\ mix \in Mixes
    BY DEF LoopTypes
  <2>4. CASE domain = "reconciliation"
    BY <2>2, <2>3, <2>4, ReconciliationRulesDecide DEF Drawn, VerdictIn
  <2>5. CASE domain = "payment_repair"
    BY <2>2, <2>3, <2>5, PaymentRulesDecide DEF Drawn
  <2>6. CASE domain = "settlement"
    BY <2>2, <2>3, <2>6, SettlementRulesDecide DEF Drawn
  <2> QED
    BY <2>3, <2>4, <2>5, <2>6, SuiteAssumption
<1> QED
  BY <1>1, SuiteInvariant, PTL DEF SuiteInv
=============================================================================
