--------------------------- MODULE Iqs9151Console ---------------------------
(***************************************************************************)
(* What the commands "tp ..." work with: the table of parameters           *)
(* (iqs9151_params.h, .c), the splitting of a line into words and the      *)
(* execution of a command (iqs9151_cmd.c), the statistics it shows         *)
(* (iqs9151.c), and the packing of an attempt summary for the other half   *)
(* of a split keyboard (iqs9151_summary_codec.c).                          *)
(*                                                                         *)
(* Each of these runs in one thread, or under one lock, from beginning to  *)
(* end: they are operators, checked over bounded inputs.  What concurrent  *)
(* commands do to shared parameters and to flash is in the modules         *)
(* Iqs9151IcParams and Iqs9151Settings, what "tp live" does to the         *)
(* throttle in Iqs9151Live.                                                *)
(***************************************************************************)
EXTENDS Integers, Sequences, FiniteSets, SequencesExt

CONSTANTS
  MaxTokens,   \* IQS9151_CMD_MAX_TOKENS
  MaxChars,    \* longest line tried
  HistoryMax,  \* IQS9151_INERTIA_MOTION_HISTORY_SIZE
  Byte,        \* values of a byte of a packed word
  MaxEvents    \* longest run of statistics events tried

ASSUME ConsoleAssumption ==
  /\ MaxTokens \in Nat /\ MaxChars \in Nat /\ HistoryMax \in Nat /\ MaxEvents \in Nat
  /\ Byte \in Nat /\ Byte > 2

-----------------------------------------------------------------------------
(* The table of parameters: the range of each, and what it is narrowed to  *)
(* before it is used.  The IC parameters are written to registers.         *)

U8  == 0..255
U16 == 0..65535
Signed(max) == (0 - max - 1)..max
I16 == Signed(32767)
I32 == Signed(2147483647)
Samples == 0..HistoryMax

Row(kind, min, max, to) == [kind |-> kind, min |-> min, max |-> max, to |-> to]

Times(n, row) == [i \in 1..n |-> row]

Flag       == Row("driver_bool", 0, 1, I32)
Num(lo, hi) == Row("driver", lo, hi, I32)

\* IQS9151_PARAM_IC_COUNT rows: bytes, sampling periods, timeouts, ATI target,
\* filter speeds.
IcRows ==
  Times(9, Row("ic_u8", 0, 255, U8))
  \o Times(5, Row("ic_u16", 1, 65535, U16))
  \o Times(4, Row("ic_u16", 0, 65535, U16))
  \o <<Row("ic_u16", 0, 1000, U16)>>
  \o Times(2, Row("ic_u16", 0, 2047, U16))

\* tap_enable, tap_max_ms, tap_move, presshold_enable, tapdrag_gap_max_ms
TapRows == <<Flag, Num(1, 1000), Num(1, 1000), Flag, Num(1, 1000)>>

\* Mutant: more samples can be asked for than the ring can hold.
SampleRowWide == Row("driver", 1, 20, Samples)
SampleRow     == Row("driver", 1, 12, Samples)

\* enable, decay, recent_window_ms, stale_gap_ms, min_samples, min_avg_speed
InertiaRows ==
  <<Flag, Row("driver", 0, 1000, U16), Row("driver", 1, 500, U16),
    Row("driver", 1, 500, U16), SampleRow, Row("driver", 1, 500, I16)>>

\* Speeds and gains of the cursor, or of the scroll.
GainRows == Times(2, Num(0, 500)) \o Times(2, Num(0, 400))

DriverRows ==
  TapRows \o <<Num(0, 500), Num(0, 1000)>>
  \o TapRows \o <<Flag, Flag, Num(1, 2000)>> \o GainRows
             \o <<Flag, Num(1, 2000), Num(1, 100)>>
  \o TapRows \o <<Num(0, 1000)>>
  \o InertiaRows \o InertiaRows
  \o Times(2, Num(0, 100)) \o <<Num(5, 50)>> \o GainRows

ParamTable == IcRows \o DriverRows

IsIc(row) == row.kind \in {"ic_u8", "ic_u16"}

-----------------------------------------------------------------------------
(* A line and its words.  A character is a blank, or it is not.            *)

Blank == " "

\* Mutant: a word too many is dropped without a word.
WordStartsDropping(a, c) ==
  IF Len(a.argv) >= MaxTokens THEN [a EXCEPT !.in = TRUE]
  ELSE [a EXCEPT !.argv = Append(@, <<c>>), !.in = TRUE]

WordStarts(a, c) ==
  IF Len(a.argv) >= MaxTokens THEN [a EXCEPT !.big = TRUE]
  ELSE [a EXCEPT !.argv = Append(@, <<c>>), !.in = TRUE]

\* tokenize_line, a character at a time.
Scan(a, c) ==
  IF a.big THEN a
  ELSE IF c = Blank THEN [a EXCEPT !.in = FALSE]
  ELSE IF a.in THEN [a EXCEPT !.argv[Len(a.argv)] = Append(@, c)]
  ELSE WordStarts(a, c)

Tokens(line) == FoldLeft(Scan, [argv |-> <<>>, in |-> FALSE, big |-> FALSE], line)

-----------------------------------------------------------------------------
(* The execution of a command.  Its state is what it changes.              *)

\* Two parameters stand for the table; "reati" and "nosuch" are no parameters.
Params == {"1f_tap_enable", "1f_tap_max_ms"}
Lo     == [p \in Params |-> IF p = "1f_tap_enable" THEN 0 ELSE 1]
Hi     == [p \in Params |-> IF p = "1f_tap_enable" THEN 1 ELSE 1000]
Def    == [p \in Params |-> IF p = "1f_tap_enable" THEN 1 ELSE 250]

\* What strtol makes of a word, if it is a number at all.
Numerals  == {"-1", "0", "1", "100", "101", "65537"}
Number(w) == CASE w = "-1" -> -1 [] w = "0" -> 0 [] w = "1" -> 1
               [] w = "100" -> 100 [] w = "101" -> 101 [] w = "65537" -> 65537

States ==
  [par : {q \in [Params -> {0, 1, 250}] : \A p \in Params : q[p] \in Lo[p]..Hi[p]},
   trace : BOOLEAN, summary : BOOLEAN, live : BOOLEAN, hz : {1, 60, 100},
   reati : BOOLEAN]

Answer(ret, st) == [ret |-> ret, st |-> st]

\* ok: the device is ready; saves: iqs9151_settings_save succeeds.
Env == [ready : BOOLEAN, saves : BOOLEAN]

\* Mutant: only the upper bound is checked.
InRangeBelow(p, v) == v <= Hi[p]

\* iqs9151_params_set
InRange(p, v) == v \in Lo[p]..Hi[p]

CmdSet(st, argv) ==
  CASE argv[3] \notin Numerals -> Answer("EINVAL", st)
    [] argv[3] \in Numerals /\ argv[2] \notin Params -> Answer("ENOENT", st)
    [] OTHER -> IF InRange(argv[2], Number(argv[3]))
                THEN Answer("OK", [st EXCEPT !.par[argv[2]] = Number(argv[3])])
                ELSE Answer("ERANGE", st)

\* Mutant: the view is turned on before hz is looked at.
LiveOnFirst(st, hz) ==
  IF hz \notin 1..100 THEN Answer("ERANGE", [st EXCEPT !.live = TRUE])
  ELSE Answer("OK", [st EXCEPT !.live = TRUE, !.hz = hz])

\* iqs9151_dev_live_enable(true, hz)
LiveOn(st, hz) ==
  IF hz \notin 1..100 THEN Answer("ERANGE", st)
  ELSE Answer("OK", [st EXCEPT !.live = TRUE, !.hz = hz])

\* IQS9151_LIVE_HZ_DEFAULT unless given; what is given is cast to 16 bits first.
CmdLive(st, argv) ==
  CASE argv[2] = "on" /\ Len(argv) = 2 -> LiveOn(st, 60)
    [] argv[2] = "on" /\ Len(argv) = 3 ->
         IF argv[3] \in Numerals THEN LiveOn(st, Number(argv[3]) % 65536)
         ELSE Answer("ERANGE", st)
    [] argv[2] = "off" /\ Len(argv) = 2 -> Answer("OK", [st EXCEPT !.live = FALSE])
    [] OTHER -> Answer("EINVAL", st)

\* cmd_trace and cmd_summary
CmdSwitch(st, argv) ==
  IF argv[2] \notin {"on", "off"} THEN Answer("EINVAL", st)
  ELSE Answer("OK", IF argv[1] = "trace" THEN [st EXCEPT !.trace = argv[2] = "on"]
                    ELSE [st EXCEPT !.summary = argv[2] = "on"])

Takes == [info |-> {1}, list |-> {1}, get |-> {2}, set |-> {3}, reset |-> {1},
          save |-> {1}, reati |-> {1}, trace |-> {2}, summary |-> {2}, live |-> {2, 3},
          stats |-> {1, 2}]

NeedsDevice == {"list", "get", "set", "reset", "save", "reati"}

\* iqs9151_cmd_exec_argv
ExecArgv(env, st, argv) ==
  IF argv = <<>> THEN Answer("EINVAL", st)
  ELSE IF argv[1] \notin DOMAIN Takes THEN Answer("ENOENT", st)
  ELSE IF Len(argv) \notin Takes[argv[1]] THEN Answer("EINVAL", st)
  ELSE IF argv[1] \in NeedsDevice /\ ~env.ready THEN Answer("ENODEV", st)
  ELSE CASE argv[1] \in {"info", "list"} -> Answer("OK", st)
         [] argv[1] = "get" -> Answer(IF argv[2] \in Params THEN "OK" ELSE "ENOENT", st)
         [] argv[1] = "set" -> CmdSet(st, argv)
         [] argv[1] = "reset" -> Answer("OK", [st EXCEPT !.par = Def])
         [] argv[1] = "save" -> Answer(IF env.saves THEN "OK" ELSE "EIO", st)
         [] argv[1] = "reati" -> Answer("OK", [st EXCEPT !.reati = TRUE])
         [] argv[1] \in {"trace", "summary"} -> CmdSwitch(st, argv)
         [] argv[1] = "live" -> CmdLive(st, argv)
         [] argv[1] = "stats" ->
              Answer(IF Len(argv) = 2 /\ argv[2] # "noreset" THEN "EINVAL" ELSE "OK", st)

\* iqs9151_cmd_exec, once the line is in words.
Exec(env, st, words) ==
  IF Len(words) > MaxTokens THEN Answer("E2BIG", st)
  ELSE ExecArgv(env, st, IF words # <<>> /\ words[1] = "tp" THEN Tail(words) ELSE words)

-----------------------------------------------------------------------------
(* Statistics, all of them under one spinlock.  A frame is the time it     *)
(* took, the time since the one before, and its fingers.                   *)

NoStats == [n |-> 0, max |-> 0, avg |-> 0, sum |-> 0, gap |-> 0, errors |-> 0]

\* Between frames; it survives a reset of the statistics.
NoFrameYet == [has |-> FALSE, fingers |-> 0]

\* iqs9151_stats_record_frame
RecordFrame(a, e) ==
  LET sum == a.st.sum + e.us
      n   == a.st.n + 1
  IN  [st |-> [a.st EXCEPT !.n = n, !.sum = sum, !.avg = sum \div n,
                 !.max = IF e.us > @ THEN e.us ELSE @,
                 !.gap = IF a.last.has /\ a.last.fingers > 0 /\ e.fingers > 0 /\ e.after > @
                         THEN e.after ELSE @],
       last |-> [has |-> TRUE, fingers |-> e.fingers]]

\* Mutant: the sums are kept.
ClearedButSum(st) == [NoStats EXCEPT !.sum = st.sum]

\* iqs9151_dev_stats_get with reset
ClearedStats(st) == NoStats

Record(a, e) ==
  CASE e.kind = "frame" -> RecordFrame(a, e)
    [] e.kind = "error" -> [a EXCEPT !.st.errors = @ + 1]
    [] e.kind = "get"   -> [a EXCEPT !.st = ClearedStats(@)]

Recorded(run) == FoldLeft(Record, [st |-> NoStats, last |-> NoFrameYet], run)

-----------------------------------------------------------------------------
(* The summary in words of four bytes (here in digits to the base Byte).   *)

Half == Byte * Byte
Short(v) == IF v < Half THEN v ELSE Half - 1

\* Mutant: a long time spills over into the other half of its word.
PackTimesWide(down, gap) == (down + Half * Short(gap)) % (Half * Half)
PackTimes(down, gap) == Short(down) + Half * Short(gap)

\* iqs9151_summary_pack; the words that hold one value each are left out.
Pack(s) ==
  <<s.contacts + Byte * s.fingers + Half * s.mode2f + Half * Byte * s.hold,
    PackTimes(s.down, s.gap),
    s.press + Byte * s.release + Half * s.wheel,
    s.rel + Half * s.drops>>

\* iqs9151_summary_unpack
Unpack(w) ==
  LET Digit(x, unit) == (x \div unit) % Byte
      Low(x)  == x % Half
      High(x) == (x \div Half) % Half
  IN  [contacts |-> Digit(w[1], 1), fingers |-> Digit(w[1], Byte),
       mode2f |-> Digit(w[1], Half), hold |-> Digit(w[1], Half * Byte),
       down |-> Low(w[2]), gap |-> High(w[2]),
       press |-> Digit(w[3], 1), release |-> Digit(w[3], Byte), wheel |-> High(w[3]),
       rel |-> Low(w[4]), drops |-> High(w[4])]

-----------------------------------------------------------------------------
(* Properties.                                                             *)

\* No value a parameter may take is cut off where the driver narrows it: to a
\* register, to the 16 bits of the inertia gates, to the samples that the ring
\* of recent movement can supply; and the pending bits of the IC parameters,
\* which are their places in the table, fit the word they are kept in.
TableFits ==
  /\ \A i \in DOMAIN ParamTable :
       /\ IsIc(ParamTable[i]) <=> i <= Len(IcRows)
       /\ ParamTable[i].min \in ParamTable[i].to
       /\ ParamTable[i].max \in ParamTable[i].to
  /\ Len(IcRows) = 21 /\ Len(ParamTable) = 68

\* A word is a stretch without blanks, from where it starts to the next blank or
\* to the end; words are counted by where they start.
Starts(line) == {i \in DOMAIN line : line[i] # Blank /\ (i = 1 \/ line[i - 1] = Blank)}
Nth(line, i) == Cardinality({k \in Starts(line) : k <= i})
IsWord(line, i, j) ==
  /\ \A k \in i..j : line[k] # Blank
  /\ j = Len(line) \/ line[j + 1] = Blank

Split(line) ==
  LET t == Tokens(line)
      n == Cardinality(Starts(line))
  IN  IF n > MaxTokens THEN t.big
      ELSE /\ ~t.big /\ Len(t.argv) = n
           /\ \A i \in Starts(line) : \A j \in i..Len(line) :
                IsWord(line, i, j) => t.argv[Nth(line, i)] = SubSeq(line, i, j)

\* A line is split into exactly its words, or refused when they are too many:
\* no argument of a command is lost or cut in two.
LineIsSplit == \A line \in BoundedSeq({Blank, "x", "y"}, MaxChars) : Split(line)

Vocabulary == {"tp", "on", "off", "noreset", "nosuch"} \cup DOMAIN Takes
              \cup Params \cup Numerals

\* Lines are tried in full for the commands that take arguments.
Lines ==
  {<<>>} \cup {<<a>> : a \in Vocabulary} \cup (Vocabulary \X Vocabulary)
    \cup ({"tp", "set", "live", "trace", "get"} \X Vocabulary \X Vocabulary)
    \cup ({"tp"} \X {"set", "live", "get"} \X Vocabulary \X Vocabulary)

\* What differs between two states; the live view and its rate are one thing.
Touched(st, after) ==
  {f \in {"par", "trace", "summary", "reati"} : after[f] # st[f]}
    \cup {f \in {"live"} : after.live # st.live \/ after.hz # st.hz}

\* A command that is answered with an error has changed nothing, and no command
\* changes more than one of the things it could.
RefusedIsHarmless ==
  \A env \in Env, words \in Lines, st \in {s \in States : s.trace /\ ~s.reati} :
    LET a == Exec(env, st, words)
    IN  (a.ret # "OK" => a.st = st) /\ Cardinality(Touched(st, a.st)) <= 1

\* After any line the parameters are within their ranges and the live view has
\* a rate to divide by, whatever numbers were given.
RangesHold ==
  \A words \in Lines, st \in {s \in States : s.trace /\ s.summary /\ ~s.reati} :
    LET a == Exec([ready |-> TRUE, saves |-> TRUE], st, words)
    IN  /\ \A p \in Params : a.st.par[p] \in Lo[p]..Hi[p]
        /\ a.st.hz \in 1..100

Events ==
  {[kind |-> "error"], [kind |-> "get"]}
    \cup {[kind |-> "frame", us |-> us, after |-> 10 + us, fingers |-> n] :
            us \in {1, 4, 9}, n \in {0, 1}}

\* An error belongs to the frame recorded after it.
InOrder(run) ==
  \A i, j \in DOMAIN run :
    i < j /\ run[i].kind = "error" /\ run[j].kind = "error" =>
      \E k \in i..j : run[k].kind = "frame"

\* The frames of a run since the statistics were last reset.
FramesSince(run) ==
  {i \in DOMAIN run : /\ run[i].kind = "frame"
                      /\ \A j \in i..Len(run) : run[j].kind # "get"}

\* The statistics that a run leaves agree with each other.
Agree(run) ==
  LET st    == Recorded(run).st
      since == FramesSince(run)
      us    == {run[i].us : i \in since}
  IN  /\ st.n = Cardinality(since)
      /\ since # {} => (\E u \in us : u <= st.avg) /\ st.avg <= st.max /\ st.max \in us
      /\ st.errors <= st.n + 1
      /\ st.gap # 0 => \E i \in since : /\ run[i].after = st.gap
                                        /\ run[i].fingers > 0

\* Whenever the statistics are read, in the middle of a frame too, they agree:
\* the average lies between the shortest and the longest frame since the last
\* reset, errors are at most one ahead of the frames, and the longest gap is one
\* between two frames with fingers.
StatsAgree == \A run \in {r \in BoundedSeq(Events, MaxEvents) : InOrder(r)} : Agree(run)

Summaries ==
  [contacts : 0..1, fingers : {0, Byte - 1}, mode2f : {0, 2}, hold : 0..1,
   down : {0, Half - 1, Half + 1}, gap : {0, 5, Half}, press : {0, Byte - 1},
   release : 0..1, wheel : {0, Half - 1}, rel : {0, Half - 1}, drops : 0..1]

\* The other half of the keyboard unpacks the summary that was packed, with times
\* cut off at what 16 bits can tell and no field spilling over into the next.
SummaryTravels ==
  \A s \in Summaries :
    Unpack(Pack(s)) = [s EXCEPT !.down = Short(@), !.gap = Short(@)]
=============================================================================
