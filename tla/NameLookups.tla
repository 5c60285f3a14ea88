---------------------------- MODULE NameLookups ----------------------------
(***************************************************************************)
(* mdig, the resolver of domain lists (mdig.c): threads take lines from    *)
(* the input, look the names up, and write addresses, logs and statistics. *)
(* One lock guards reading and writing, another the counters.              *)
(*                                                                         *)
(* A line is [kind, family, bits]: "blank", "domain", "bad" (not a name)   *)
(* or "address" with the length of its mask (-1 with none, -2 unreadable). *)
(* A line longer than the buffer is read as several lines.                 *)
(***************************************************************************)
EXTENDS Integers, Sequences, FiniteSets, SequencesExt

CONSTANTS Threads,     \* glob.threads
          Lines,       \* what a line may be
          MaxLines,    \* bound: lines of the input
          Families,    \* glob.family: subset of {4, 6}
          Attempts,    \* glob.eagain
          Resolved     \* EAI results that may come: subset of {"ok", "again", "fail"}
ASSUME LookupAssumption ==
  /\ Attempts \in Nat \ {0} /\ Threads # {} /\ Resolved \subseteq {"ok", "again", "fail"}
  /\ \A l \in Lines : l.kind \in {"blank", "domain", "bad", "address"}

VARIABLES input,       \* lines not yet written by who feeds the input, or not yet read
          fed,         \* lines that have arrived
          eof,         \* is the input closed?
          flock,       \* thread that holds the lock of the streams, or "free"
          thread,      \* per thread: [pc, line, tries, left, ok]
          printed,     \* addresses and subnets on stdout: line of each
          logged,      \* [ok |-> lines in F_log_resolved, fail |-> in F_log_failed]
          stats,       \* [ct, ok]
          reports,     \* statistics printed: sequence of <<ct, ok>>
          main,        \* run_threads: "create", "failed", "join" or what it returns
          answersTo    \* ghost: what the last lookup of each line returned

lookups == <<input, fed, eof, flock, thread, printed, logged, stats, reports, main, answersTo>>

StatsEvery == 2   \* glob.stats_every

Idle == [pc |-> "read", line |-> 0, tries |-> 0, left |-> 0, ok |-> FALSE]
LookupsInit ==
  /\ input \in UNION {[1..n -> Lines] : n \in 0..MaxLines}
  /\ fed = 0 /\ eof = FALSE /\ flock = "free"
  /\ thread = [t \in Threads |-> [Idle EXCEPT !.pc = "none"]] /\ main = "create"
  /\ printed = <<>> /\ logged = [ok |-> <<>>, fail |-> <<>>]
  /\ stats = [ct |-> 0, ok |-> 0] /\ reports = <<>>
  /\ answersTo = [i \in DOMAIN input |-> "none"]

Is(t, pc) == thread[t].pc = pc
LineOf(t) == input[thread[t].line]
Goes(t, r) == thread' = [thread EXCEPT ![t] = r]
GoesTo(t, pc) == Goes(t, [thread[t] EXCEPT !.pc = pc])

\* run_threads: threads are created while those before already work; when one
\* cannot be, the rest is left. main then waits for all to end.
Others == <<input, fed, eof, flock, printed, logged, stats, answersTo>>
CreateThread(t) ==
  /\ main = "create" /\ Is(t, "none")
  /\ GoesTo(t, "read")
  /\ UNCHANGED <<main, reports, Others>>
AllCreated == /\ main = "create" /\ \A t \in Threads : ~Is(t, "none")
              /\ main' = "join"
              /\ UNCHANGED <<thread, reports, Others>>
CreateFails == /\ main = "create" /\ \E t \in Threads : Is(t, "none")
               /\ main' = "failed"
               /\ UNCHANGED <<thread, reports, Others>>
\* The message about it needs the lock of the streams.
TellFailure == /\ main = "failed" /\ flock = "free" /\ main' = "join"
               /\ UNCHANGED <<thread, reports, Others>>
Created == {t \in Threads : ~Is(t, "none")}
JoinAll ==
  /\ main = "join" /\ \A t \in Created : Is(t, "ended")
  /\ reports' = Append(reports, <<stats.ct, stats.ok>>)
  /\ main' = (IF Created = {} THEN "12" ELSE "0")
  /\ UNCHANGED <<thread, Others>>

\* The input arrives line by line and ends.
Feed == /\ fed < Len(input) /\ ~eof /\ fed' = fed + 1
        /\ UNCHANGED <<input, eof, flock, thread, printed, logged, stats, reports, main, answersTo>>
CloseInput == /\ fed = Len(input) /\ ~eof /\ eof' = TRUE
              /\ UNCHANGED <<input, fed, flock, thread, printed, logged, stats, reports, main, answersTo>>

\* interlocked_get_dom: the lock is held while fgets waits for a line.
TakeLock(t) ==
  /\ Is(t, "read") /\ flock = "free"
  /\ flock' = t /\ GoesTo(t, "reading")
  /\ UNCHANGED <<input, fed, eof, printed, logged, stats, reports, main, answersTo>>
LinesRead == Cardinality({i \in DOMAIN answersTo : answersTo[i] # "none"})
GetLine(t) ==
  /\ Is(t, "reading")
  /\ \/ /\ LinesRead < fed
        /\ Goes(t, [Idle EXCEPT !.pc = "line", !.line = LinesRead + 1])
        /\ answersTo' = [answersTo EXCEPT ![LinesRead + 1] = "read"]
     \/ LinesRead = fed /\ eof /\ GoesTo(t, "ended") /\ UNCHANGED answersTo
  /\ flock' = "free"
  /\ UNCHANGED <<input, fed, eof, printed, logged, stats, reports, main>>

\* An address of an allowed family is printed as it is unless its mask is bad.
GoodAddress(l) ==
  /\ l.family \in Families
  /\ l.bits = -1 \/ (l.bits >= 0 /\ l.bits <= IF l.family = 4 THEN 32 ELSE 128)
Look(t) ==
  /\ Is(t, "line")
  /\ LET l == LineOf(t)
     IN CASE l.kind = "blank" -> GoesTo(t, "stat")
          [] l.kind = "address" ->
               IF GoodAddress(l) THEN Goes(t, [thread[t] EXCEPT !.pc = "print", !.left = 1, !.ok = TRUE])
               ELSE GoesTo(t, "log")
          [] l.kind = "domain" -> Goes(t, [thread[t] EXCEPT !.pc = "lookup"])
          [] l.kind = "bad" -> GoesTo(t, "log")
  /\ UNCHANGED <<input, fed, eof, flock, printed, logged, stats, reports, main, answersTo>>
\* getaddrinfo: a temporary failure is tried again until the attempts are
\* used up, any other is final. Mutant: the log forgets a name given up.
TriedEnough(r) == r.tries + 1 >= Attempts
AfterLookupUnlogged(r, res) ==
  IF res = "ok" THEN {[r EXCEPT !.pc = "print", !.left = n, !.ok = TRUE] : n \in 1..2}
  ELSE IF res = "again" THEN {[r EXCEPT !.tries = @ + 1, !.pc = IF TriedEnough(r) THEN "stat" ELSE @]}
  ELSE {[r EXCEPT !.pc = "log"]}
AfterLookup(r, res) ==
  IF res = "ok" THEN {[r EXCEPT !.pc = "print", !.left = n, !.ok = TRUE] : n \in 1..2}
  ELSE IF res = "again" /\ ~TriedEnough(r) THEN {[r EXCEPT !.tries = @ + 1]}
  ELSE {[r EXCEPT !.pc = "log"]}
Lookup(t) ==
  /\ Is(t, "lookup")
  /\ \E res \in Resolved : \E r \in AfterLookup(thread[t], res) :
       /\ Goes(t, r)
       /\ answersTo' = [answersTo EXCEPT ![thread[t].line] = res]
  /\ UNCHANGED <<input, fed, eof, flock, printed, logged, stats, reports, main>>
\* print_addrinfo and the logs: each line is written under the lock.
WriteAddress(t) ==
  /\ Is(t, "print") /\ flock = "free"
  /\ printed' = Append(printed, thread[t].line)
  /\ Goes(t, [thread[t] EXCEPT !.left = @ - 1, !.pc = IF thread[t].left = 1 THEN "log" ELSE @])
  /\ UNCHANGED <<input, fed, eof, flock, logged, stats, reports, main, answersTo>>
Log(t) ==
  /\ Is(t, "log") /\ flock = "free"
  /\ LET file == IF thread[t].ok THEN "ok" ELSE "fail"
     IN logged' = [logged EXCEPT ![file] = Append(@, thread[t].line)]
  /\ GoesTo(t, "stat")
  /\ UNCHANGED <<input, fed, eof, flock, printed, stats, reports, main, answersTo>>
\* stat_plus: blank lines count too, as errors.
StatPlus(t) ==
  /\ Is(t, "stat")
  /\ stats' = [ct |-> stats.ct + 1, ok |-> stats.ok + (IF thread[t].ok THEN 1 ELSE 0)]
  /\ IF stats'.ct % StatsEvery = 0
     THEN Goes(t, [thread[t] EXCEPT !.pc = "report", !.tries = stats'.ct, !.left = stats'.ok])
     ELSE Goes(t, Idle)
  /\ UNCHANGED <<input, fed, eof, flock, printed, logged, reports, main, answersTo>>
StatPrint(t) ==
  /\ Is(t, "report") /\ flock = "free"
  /\ reports' = Append(reports, <<thread[t].tries, thread[t].left>>)
  /\ Goes(t, Idle)
  /\ UNCHANGED <<input, fed, eof, flock, printed, logged, stats, main, answersTo>>

ThreadNext(t) ==
  TakeLock(t) \/ GetLine(t) \/ Look(t) \/ Lookup(t) \/ WriteAddress(t) \/ Log(t) \/ StatPlus(t) \/ StatPrint(t)
RunThreads == AllCreated \/ CreateFails \/ TellFailure \/ JoinAll \/ \E t \in Threads : CreateThread(t)
LookupsNext == RunThreads \/ Feed \/ CloseInput \/ \E t \in Threads : ThreadNext(t)

\* --dns-make-query and --dns-parse-query. A name is the lengths of its labels;
\* dns_mk_query_blob returns the size of the question, 0 for a bad name.
QuerySize(labels) ==
  LET l == FoldLeft(+, Len(labels) - 1, labels)
  IN IF l > 253 \/ \E i \in DOMAIN labels : labels[i] \notin 1..63 THEN 0
     ELSE IF labels = <<>> THEN 17 ELSE 18 + l
\* dns_parse_print on a reply [len, response, questions, answers]: what is left
\* of it after each part, -1 when the part does not fit.
SkipLabel(len, n) == IF n + 1 > len THEN -1 ELSE len - n - 1
SkipQuestion(len, labels) ==
  LET l == FoldLeft(SkipLabel, len, labels) IN IF l < 5 THEN -1 ELSE l - 5
PrintsAddress(a) == a.in /\ ((a.type = 1 /\ a.dlen = 4) \/ (a.type = 28 /\ a.dlen = 16))
TakeAnswer(r, a) ==
  IF r.len < 12 \/ ~a.pointer \/ r.len < a.dlen + 12 THEN [r EXCEPT !.len = -1]
  ELSE [len |-> r.len - 12 - a.dlen, printed |-> r.printed + (IF PrintsAddress(a) THEN 1 ELSE 0)]
DnsParse(reply) ==
  LET body == IF reply.len < 12 \/ ~reply.response THEN -1
              ELSE FoldLeft(SkipQuestion, reply.len - 12, reply.questions)
      r == FoldLeft(TakeAnswer, [len |-> body, printed |-> 0], reply.answers)
  IN [ok |-> r.len >= 0, printed |-> r.printed]
\* A reply as long as its parts.
WholeReply(questions, answers) ==
  FoldLeft(LAMBDA n, q : n + FoldLeft(LAMBDA m, l : m + l + 1, 5, q), 12, questions)
    + FoldLeft(LAMBDA n, a : n + 12 + a.dlen, 0, answers)
\* A whole reply is understood and gives each of its addresses, and one that
\* was cut short is refused.
RepliesParsed(Questions, Answers) ==
  \A q \in Questions, a \in Answers :
    LET n == WholeReply(q, a)
        reply(len) == [len |-> len, response |-> TRUE, questions |-> q, answers |-> a]
    IN /\ DnsParse(reply(n)) =
            [ok |-> TRUE, printed |-> Cardinality({i \in DOMAIN a : PrintsAddress(a[i])})]
       /\ \A cut \in 0..(n - 1) : ~DnsParse(reply(cut)).ok

-----------------------------------------------------------------------------
Ok(i) == \/ input[i].kind = "address" /\ GoodAddress(input[i])
         \/ input[i].kind = "domain" /\ answersTo[i] = "ok"
\* Nothing is lost between the threads: when mdig returns success, however
\* many of its threads it could create, every line that was fed has been
\* answered once, in the log of its outcome and with its addresses on stdout,
\* and the statistics reported last count all lines and all successes
\* (t_resolver and run_threads, mdig.c:192-327).
LinesAnswered ==
  main = "0" =>
    LET ok == {i \in DOMAIN input : Ok(i)}
        bad == {i \in DOMAIN input : input[i].kind # "blank" /\ ~Ok(i)}
    IN /\ IsInjective(logged.ok) /\ ToSet(logged.ok) = ok
       /\ IsInjective(logged.fail) /\ ToSet(logged.fail) = bad
       /\ ToSet(printed) = ok
       /\ Last(reports) = <<Len(input), Cardinality(ok)>>
=============================================================================
