------------------------------- MODULE Logging -------------------------------
(***************************************************************************)
(* A log.Logger: events at some level, a threshold, and a writer that may  *)
(* have a scrubWriter in front of it.  An event is one line, a JSON object *)
(* whose fields may repeat a key, and may be malformed, where a caller put *)
(* raw JSON into it.  scrubWriter rewrites a line that has a denied field  *)
(* and passes every other on; what it wraps takes the line whole, takes    *)
(* part of it and fails, or takes part of it and says nothing.             *)
(*                                                                         *)
(* A name is a sequence of pieces, so that one may occur within another    *)
(* and be written in either case.  Only the size of a line is counted,     *)
(* not its text: a redacted value is longer than another.                  *)
(***************************************************************************)
EXTENDS Config, Integers, SequencesExt

CONSTANTS
    Lines,          \* what callers log: [fields, malformed]
    CustomLists,    \* the ScrubFields given to log.New other than by obs.Init
    MaxEvents       \* bound on the events logged

Redacted == "[REDACTED]"
Values == {"clear", "private"}
Fields == [key : Seq(STRING), value : Values \union {Redacted}]

ASSUME LinesAssumption == Lines \subseteq [fields : Seq(Fields), malformed : BOOLEAN]
ASSUME MaxEventsAssumption == MaxEvents \in Nat

VARIABLES
    threshold,  \* the level of the logger
    given,      \* its ScrubFields, as configured: [on, names]
    denylist,   \* as the scrubWriter holds them
    alive,      \* FALSE once an event at fatal has ended the process
    events,     \* history: every event logged, and its level
    sink        \* history: what the wrapped writer took of an event, and
                \* what Write returned for it

vars == <<threshold, given, denylist, alive, events, sink>>

(* strings.ToLower on the pieces of names. *)
LowerPiece(piece) == CASE piece = "Password" -> "password"
                       [] piece = "Key" -> "key"
                       [] piece = "Tenant" -> "tenant"
                       [] OTHER -> piece
Lower(name) == [i \in DOMAIN name |-> LowerPiece(name[i])]

(* strings.Contains *)
Occurs(part, name) ==
    \E k \in 0..Len(name) - Len(part) : SubSeq(name, k + 1, k + Len(part)) = part

DefaultDenylist ==
    {<<"password">>, <<"passwd">>, <<"secret">>, <<"token">>, <<"authorization">>,
     <<"cookie">>, <<"email">>, <<"phone">>, <<"ssn">>, <<"credit", "_", "card">>,
     <<"card", "_", "number">>, <<"api", "_", "key">>}

(* obs.Init scrubs unless it is in DevMode. *)
ObsScrubFields(devMode) ==
    [on |-> ~devMode, names |-> IF devMode THEN {} ELSE DefaultDenylist]

(* Mutant: entries are kept as they were given. *)
LoweredNot(names) == names

(* newScrubWriter *)
Lowered(names) == {Lower(name) : name \in names}

Rank == [debug |-> 0, info |-> 1, warn |-> 2, error |-> 3, fatal |-> 4]

(* A field counts one, three where its value is redacted; a brace, one.    *)
Size(fields) == Len(fields) + 2 * Cardinality({i \in DOMAIN fields : fields[i].value = Redacted})
WholeSize(line) == Size(line.fields) + 1

Result == [n : Nat, err : {"nil", "write", "short"}]

TypeOK ==
    /\ threshold \in ValidLevels
    /\ given.on \in BOOLEAN
    /\ alive \in BOOLEAN
    /\ events \in Seq([level : ValidLevels, line : Lines]) /\ Len(events) <= MaxEvents
    /\ sink \in Seq([of : DOMAIN events, got : Seq(Fields),
                     whole : BOOLEAN, result : Result])

Init ==
    /\ \E text \in {"", "info", "INFO", "error"} : threshold = ParseLevel(text)
    /\ given \in {ObsScrubFields(devMode) : devMode \in BOOLEAN}
                 \union {[on |-> TRUE, names |-> names] : names \in CustomLists}
    /\ denylist = Lowered(given.names)
    /\ alive = TRUE
    /\ events = <<>>
    /\ sink = <<>>

-----------------------------------------------------------------------------
IsDenied(key) == \E d \in denylist : Occurs(d, Lower(key))

Keys(fields) == {fields[i].key : i \in DOMAIN fields}
LastWith(fields, key) == SelectLastInSeq(fields, LAMBDA f : f.key = key)
LastValue(fields, key) == fields[LastWith(fields, key)].value

(* Mutant: the first value of a repeated key is kept. *)
UnmarshalFirst(fields) ==
    [key \in Keys(fields) |-> fields[SelectInSeq(fields, LAMBDA f : f.key = key)].value]

(* json.Unmarshal into a map: the last value of a repeated key stays. *)
Unmarshal(fields) == [key \in Keys(fields) |-> LastValue(fields, key)]

(* json.Marshal writes every key once, in an order of its own. *)
Marshal(event) == SetToSeq({[key |-> key, value |-> event[key]] : key \in DOMAIN event})

(* Mutant: a denied value is emptied. *)
RedactedEmpty(event) ==
    [key \in DOMAIN event |-> IF IsDenied(key) THEN "" ELSE event[key]]

Scrub(event) ==
    [key \in DOMAIN event |-> IF IsDenied(key) THEN Redacted ELSE event[key]]

Changed(line) ==
    given.on /\ ~line.malformed /\ \E key \in Keys(line.fields) : IsDenied(key)

(* The line that is handed to the wrapped writer. *)
Outgoing(line) ==
    IF Changed(line) THEN [line EXCEPT !.fields = Marshal(Scrub(Unmarshal(@)))]
                     ELSE line

(* What the wrapped writer may make of a line. *)
Taken(line) ==
    {[got |-> line.fields, n |-> WholeSize(line), err |-> "nil"]}
    \union {[got |-> SubSeq(line.fields, 1, k), n |-> Size(SubSeq(line.fields, 1, k)),
             err |-> e] : k \in 0..Len(line.fields), e \in {"nil", "write"}}

(* Mutant: a short write is not noticed. *)
ReturnedUnchecked(line, taken) ==
    IF ~Changed(line) \/ taken.err # "nil"
    THEN [n |-> taken.n, err |-> taken.err]
    ELSE [n |-> WholeSize(line), err |-> "nil"]

(* What scrubWriter.Write returns for it. *)
Returned(line, taken) ==
    IF ~Changed(line) \/ taken.err # "nil"
    THEN [n |-> taken.n, err |-> taken.err]
    ELSE IF taken.n # WholeSize(Outgoing(line))
         THEN [n |-> 0, err |-> "short"]
         ELSE [n |-> WholeSize(line), err |-> "nil"]

(* zerolog logs an event at or above the level of its logger. *)
Enabled(level) == Rank[level] >= Rank[threshold]

(* Msg on an event: filter, scrub, write; at fatal the process exits.      *)
Log(level, line) ==
    /\ alive /\ Len(events) < MaxEvents
    /\ events' = Append(events, [level |-> level, line |-> line])
    /\ IF Enabled(level)
       THEN \E taken \in Taken(Outgoing(line)) :
               sink' = Append(sink, [of |-> Len(events'), got |-> taken.got,
                                     whole |-> taken.n = WholeSize(Outgoing(line)),
                                     result |-> Returned(line, taken)])
       ELSE UNCHANGED sink
    /\ alive' = (level # "fatal")
    /\ UNCHANGED <<threshold, given, denylist>>

Ended == ~alive \/ Len(events) = MaxEvents

Next ==
    \/ \E level \in ValidLevels, line \in Lines : Log(level, line)
    \/ Ended /\ UNCHANGED vars

Spec == Init /\ [][Next]_vars

-----------------------------------------------------------------------------
Of(w) == events[w.of].line
Sensitive(key) == \E name \in given.names : Occurs(Lower(name), Lower(key))

(* While scrubbing is on, no value of a field whose name contains a name   *)
(* of the denylist, in any case, reaches the writer, neither in a line     *)
(* that was cut off nor twice under one key; only a malformed line is let  *)
(* through as it is (scrub.go:19-23, 43-58).                               *)
NoDeniedValueWritten ==
    \A i \in DOMAIN sink :
        given.on /\ ~Of(sink[i]).malformed =>
            \A j \in DOMAIN sink[i].got :
                Sensitive(sink[i].got[j].key) => sink[i].got[j].value = Redacted

(* A reader of a whole line finds every field of the event, each with its  *)
(* last value unless that is denied (scrub.go:48-64).                      *)
OthersKept ==
    \A i \in DOMAIN sink : sink[i].whole =>
        LET was == Of(sink[i]).fields  is == sink[i].got IN
        /\ Keys(is) = Keys(was)
        /\ \A key \in Keys(was) :
              ~Sensitive(key) => LastValue(is, key) = LastValue(was, key)

(* Write says that it took all of its argument exactly when the whole line *)
(* reached the writer, though the line that did may be longer or shorter   *)
(* (scrub.go:64-72).                                                       *)
WriteHonest ==
    \A i \in DOMAIN sink :
        sink[i].whole <=> sink[i].result = [n |-> WholeSize(Of(sink[i])), err |-> "nil"]
=============================================================================
