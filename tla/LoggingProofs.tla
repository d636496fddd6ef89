----------------------------- MODULE LoggingProofs -----------------------------
(***************************************************************************)
(* What Logging does for any lines, any denylist and any number of events. *)
(* The first part is about the operators on lists of fields: a prefix is   *)
(* no larger than the list, the last of the fields of a key exists, and    *)
(* Marshal writes the keys it was given.  The second part follows one      *)
(* event to the writer; what it established there stays, because events    *)
(* and writes are only ever appended.                                      *)
(***************************************************************************)
EXTENDS Logging, FiniteSetTheorems, SequenceTheorems, WellFoundedInduction, TLAPS

(* The redacted fields of a list; Size counts them double.                 *)
RedactedIn(fields) == {i \in DOMAIN fields : fields[i].value = Redacted}

LEMMA RedactedCount ==
  ASSUME NEW fields \in Seq(Fields)
  PROVE  IsFiniteSet(RedactedIn(fields)) /\ Cardinality(RedactedIn(fields)) \in Nat
<1>1. DOMAIN fields = 1..Len(fields) /\ Len(fields) \in Nat
  BY LenProperties
<1>2. IsFiniteSet(DOMAIN fields)
  BY <1>1, FS_Interval
<1>3. RedactedIn(fields) \in SUBSET DOMAIN fields
  BY DEF RedactedIn
<1>4. IsFiniteSet(RedactedIn(fields))
  BY <1>2, <1>3, FS_Subset
<1> QED
  BY <1>4, FS_CardinalityType

LEMMA SizeType ==
  ASSUME NEW fields \in Seq(Fields)
  PROVE  Size(fields) \in Nat
<1>1. Size(fields) = Len(fields) + 2 * Cardinality(RedactedIn(fields))
  BY DEF Size, RedactedIn
<1> QED
  BY <1>1, RedactedCount, LenProperties

(* What a writer that was cut off has taken.                               *)
LEMMA PrefixOf ==
  ASSUME NEW fields \in Seq(Fields), NEW k \in 0..Len(fields)
  PROVE  /\ SubSeq(fields, 1, k) \in Seq(Fields)
         /\ DOMAIN SubSeq(fields, 1, k) = 1..k
         /\ \A i \in 1..k : SubSeq(fields, 1, k)[i] = fields[i]
         /\ Size(SubSeq(fields, 1, k)) \in Nat
         /\ Size(SubSeq(fields, 1, k)) <= Size(fields)
<1> DEFINE part == SubSeq(fields, 1, k)
<1>1. /\ Len(fields) \in Nat /\ k \in Nat /\ k <= Len(fields)
      /\ DOMAIN fields = 1..Len(fields)
      /\ \A i \in 1..Len(fields) : fields[i] \in Fields
  BY LenProperties, ElementOfSeq
<1>2. /\ part \in Seq(Fields) /\ Len(part) = k
      /\ \A i \in 1..k : part[i] = fields[i]
  BY <1>1, SubSeqProperties
<1>3. DOMAIN part = 1..k
  BY <1>2, LenProperties
<1>4. Size(part) \in Nat
  BY <1>2, SizeType
<1>5. RedactedIn(part) \in SUBSET RedactedIn(fields)
  BY <1>1, <1>2, <1>3 DEF RedactedIn
<1>6. Cardinality(RedactedIn(part)) <= Cardinality(RedactedIn(fields))
  BY <1>5, RedactedCount, FS_Subset
<1>7. /\ Size(part) = k + 2 * Cardinality(RedactedIn(part))
      /\ Size(fields) = Len(fields) + 2 * Cardinality(RedactedIn(fields))
  BY <1>2 DEF Size, RedactedIn
<1>8. /\ Cardinality(RedactedIn(part)) \in Nat
      /\ Cardinality(RedactedIn(fields)) \in Nat
  BY <1>2, RedactedCount
<1>9. Size(part) <= Size(fields)
  BY <1>1, <1>6, <1>7, <1>8
<1> QED
  BY <1>2, <1>3, <1>4, <1>9

-----------------------------------------------------------------------------
(* A non-empty set of positions has a greatest one.                        *)
LEMMA MaxExists ==
  ASSUME NEW n \in Nat, NEW I \in SUBSET (1..n), I # {}
  PROVE  Max(I) \in I
<1> DEFINE Gaps == {n - i : i \in I}
<1>1. I # {} /\ \A i \in I : i \in Nat /\ i <= n
  OBVIOUS
<1>. HIDE DEF Gaps
<1>2. Gaps \subseteq Nat /\ Gaps # {}
  <2>1. PICK i \in I : TRUE
    BY <1>1
  <2>2. n - i \in Gaps
    BY DEF Gaps
  <2>3. ASSUME NEW g \in Gaps PROVE g \in Nat
    <3>1. PICK j \in I : g = n - j
      BY DEF Gaps
    <3> QED
      BY <1>1, <3>1
  <2> QED
    BY <2>2, <2>3
<1>3. PICK g \in Gaps : \A h \in Gaps : ~(<<h, g>> \in OpToRel(<, Nat))
  BY <1>2, NatLessThanWellFounded, WFMin, Zenon
<1>4. \A h \in Gaps : ~(h < g)
  BY <1>2, <1>3 DEF OpToRel
<1>5. PICK i \in I : g = n - i
  BY DEF Gaps
<1>6. \A j \in I : i >= j
  BY <1>1, <1>4, <1>5 DEF Gaps
<1> QED
  BY <1>6 DEF Max

(* The last field of a key that occurs is one of the fields, and has it.   *)
LEMMA LastOfKey ==
  ASSUME NEW fields \in Seq(Fields), NEW key \in Keys(fields)
  PROVE  /\ LastWith(fields, key) \in DOMAIN fields
         /\ fields[LastWith(fields, key)].key = key
         /\ LastValue(fields, key) \in Values \union {Redacted}
<1> DEFINE I == {i \in 1..Len(fields) : fields[i].key = key}
<1>1. DOMAIN fields = 1..Len(fields) /\ Len(fields) \in Nat
  BY LenProperties
<1>2. I # {} /\ I \in SUBSET (1..Len(fields))
  BY <1>1 DEF Keys
<1>3. LastWith(fields, key) = Max(I)
  BY <1>2 DEF LastWith, SelectLastInSeq
<1>4. LastWith(fields, key) \in I
  BY <1>1, <1>2, <1>3, MaxExists
<1>5. fields[LastWith(fields, key)] \in Fields
  BY <1>1, <1>4, ElementOfSeq
<1> QED
  BY <1>1, <1>4, <1>5 DEF LastValue, Fields

(* The keys of a list are finitely many.                                   *)
LEMMA KeysFinite ==
  ASSUME NEW fields \in Seq(Fields)
  PROVE  IsFiniteSet(Keys(fields))
<1> DEFINE keyOf == [i \in DOMAIN fields |-> fields[i].key]
<1>1. keyOf \in Surjection(DOMAIN fields, Keys(fields))
  BY DEF Surjection, Keys
<1>2. IsFiniteSet(DOMAIN fields)
  BY LenProperties, FS_Interval
<1> QED
  BY <1>1, <1>2, FS_Surjection

(* SetToSeq lists every element of a finite set, and nothing else.         *)
LEMMA ListsAll ==
  ASSUME NEW S, IsFiniteSet(S)
  PROVE  /\ SetToSeq(S) \in Seq(S)
         /\ \A x \in S : \E i \in DOMAIN SetToSeq(S) : SetToSeq(S)[i] = x
<1> DEFINE n == Cardinality(S)
           list == SetToSeq(S)
<1>1. n \in Nat /\ ExistsBijection(1..n, S)
  BY FS_CardinalityType
<1>2. \E f \in [1..n -> S] : IsInjective(f)
  BY <1>1 DEF ExistsBijection, Bijection, Injection
<1>3. list \in [1..n -> S] /\ IsInjective(list)
  BY <1>2 DEF SetToSeq
<1>4. list \in Injection(1..n, S)
  BY <1>3 DEF Injection
<1>5. Cardinality(1..n) = n
  BY <1>1, FS_Interval
<1>6. list \in Surjection(1..n, S)
  BY <1>4, <1>5, FS_Injection
<1>7. list \in Seq(S)
  BY <1>1, <1>3, SeqDef
<1> QED
  BY <1>3, <1>6, <1>7 DEF Surjection

(* What a line that is scrubbed is written as: its keys, each with its     *)
(* last value or redacted.                                                 *)
LEMMA Rewritten ==
  ASSUME NEW fields \in Seq(Fields)
  PROVE  LET out == Marshal(Scrub(Unmarshal(fields))) IN
         /\ out \in Seq(Fields)
         /\ Keys(out) = Keys(fields)
         /\ \A i \in DOMAIN out :
               out[i].value = IF IsDenied(out[i].key)
                              THEN Redacted
                              ELSE LastValue(fields, out[i].key)
<1> DEFINE event == Scrub(Unmarshal(fields))
           S == {[key |-> key, value |-> event[key]] : key \in DOMAIN event}
           out == Marshal(event)
<1>1. /\ DOMAIN event = Keys(fields)
      /\ \A key \in Keys(fields) :
            event[key] = IF IsDenied(key) THEN Redacted ELSE LastValue(fields, key)
  BY DEF Scrub, Unmarshal
<1>2. \A key \in Keys(fields) : key \in Seq(STRING)
  <2> SUFFICES ASSUME NEW i \in DOMAIN fields PROVE fields[i].key \in Seq(STRING)
    BY DEF Keys
  <2>1. fields[i] \in Fields
    BY ElementOfSeq, LenProperties
  <2> QED
    BY <2>1 DEF Fields
<1>3. \A key \in Keys(fields) : event[key] \in Values \union {Redacted}
  BY <1>1, LastOfKey
<1> HIDE DEF event
<1>4. S = {[key |-> key, value |-> event[key]] : key \in Keys(fields)}
  BY <1>1
<1>5. S \subseteq Fields
  BY <1>2, <1>3, <1>4 DEF Fields
<1>6. IsFiniteSet(S)
  <2> DEFINE entry == [key \in Keys(fields) |-> [key |-> key, value |-> event[key]]]
  <2>1. entry \in Surjection(Keys(fields), S)
    BY <1>4 DEF Surjection
  <2> QED
    BY <2>1, KeysFinite, FS_Surjection
<1>7. out = SetToSeq(S)
  BY DEF Marshal
<1>8. out \in Seq(S) /\ \A x \in S : \E i \in DOMAIN out : out[i] = x
  BY <1>6, <1>7, ListsAll
<1>9. \A i \in DOMAIN out : out[i] \in S
  BY <1>8, ElementOfSeq, LenProperties
<1>10. out \in Seq(Fields)
  BY <1>5, <1>8, SeqMonotonic
<1>11. \A i \in DOMAIN out : out[i].key \in Keys(fields) /\ out[i].value = event[out[i].key]
  BY <1>4, <1>9
<1>12. Keys(out) = Keys(fields)
  <2>1. Keys(out) \subseteq Keys(fields)
    BY <1>11 DEF Keys
  <2>2. ASSUME NEW key \in Keys(fields) PROVE key \in Keys(out)
    <3>1. PICK i \in DOMAIN out : out[i] = [key |-> key, value |-> event[key]]
      BY <1>4, <1>8
    <3>2. out[i].key = key
      BY <3>1
    <3> QED
      BY <3>2 DEF Keys
  <2> QED
    BY <2>1, <2>2
<1> QED
  BY <1>1, <1>10, <1>11, <1>12 DEF event

-----------------------------------------------------------------------------
(* One write.  What each property says of it, given the line that was      *)
(* logged.                                                                 *)
Clean(line, w) ==
    given.on /\ ~line.malformed =>
        \A j \in DOMAIN w.got : Sensitive(w.got[j].key) => w.got[j].value = Redacted
Kept(line, w) ==
    w.whole =>
        /\ Keys(w.got) = Keys(line.fields)
        /\ \A key \in Keys(line.fields) :
              ~Sensitive(key) => LastValue(w.got, key) = LastValue(line.fields, key)
Honest(line, w) == w.whole <=> w.result = [n |-> WholeSize(line), err |-> "nil"]

(* scrubWriter holds its denylist in lower case.                           *)
DenylistLowered == denylist = Lowered(given.names)

LEMMA DeniedIsSensitive ==
  ASSUME DenylistLowered, NEW key
  PROVE  IsDenied(key) <=> Sensitive(key)
BY DEF DenylistLowered, Lowered, IsDenied, Sensitive

LEMMA LineType ==
  ASSUME NEW line \in Lines
  PROVE  line.fields \in Seq(Fields) /\ line.malformed \in BOOLEAN
BY LinesAssumption

(* The line that goes out: a scrubbed one as Rewritten says, another as it *)
(* is.                                                                     *)
LEMMA OutgoingLine ==
  ASSUME NEW line \in Lines
  PROVE  /\ Outgoing(line).fields \in Seq(Fields)
         /\ Keys(Outgoing(line).fields) = Keys(line.fields)
         /\ ~Changed(line) => Outgoing(line) = line
         /\ Changed(line) =>
              \A i \in DOMAIN Outgoing(line).fields :
                 Outgoing(line).fields[i].value =
                    IF IsDenied(Outgoing(line).fields[i].key)
                    THEN Redacted
                    ELSE LastValue(line.fields, Outgoing(line).fields[i].key)
<1>1. line.fields \in Seq(Fields) /\ line \in [fields : Seq(Fields), malformed : BOOLEAN]
  BY LinesAssumption, LineType
<1>2. CASE ~Changed(line)
  BY <1>1, <1>2 DEF Outgoing
<1>3. CASE Changed(line)
  <2>1. Outgoing(line).fields = Marshal(Scrub(Unmarshal(line.fields)))
    BY <1>1, <1>3 DEF Outgoing
  <2> QED
    BY <1>1, <1>3, <2>1, Rewritten
<1> QED
  BY <1>2, <1>3

(* What was taken of it is a prefix, and the whole exactly when the count  *)
(* says so; an error comes with no whole line.                             *)
LEMMA TakenOf ==
  ASSUME NEW line \in Lines, NEW taken \in Taken(Outgoing(line))
  PROVE  LET out == Outgoing(line) IN
         /\ taken.got \in Seq(Fields)
         /\ taken.n \in Nat /\ taken.err \in {"nil", "write"}
         /\ DOMAIN taken.got \subseteq DOMAIN out.fields
         /\ \A j \in DOMAIN taken.got : taken.got[j] = out.fields[j]
         /\ taken.n = WholeSize(out) => taken.got = out.fields /\ taken.err = "nil"
<1> DEFINE out == Outgoing(line)
<1>1. out.fields \in Seq(Fields)
  BY OutgoingLine
<1>2. Size(out.fields) \in Nat
  BY <1>1, SizeType
<1> HIDE DEF out
<1>3. CASE taken = [got |-> out.fields, n |-> WholeSize(out), err |-> "nil"]
  BY <1>1, <1>2, <1>3 DEF WholeSize, out
<1>4. ASSUME NEW k \in 0..Len(out.fields), NEW e \in {"nil", "write"},
             taken = [got |-> SubSeq(out.fields, 1, k),
                      n |-> Size(SubSeq(out.fields, 1, k)), err |-> e]
      PROVE  /\ taken.got \in Seq(Fields)
             /\ taken.n \in Nat /\ taken.err \in {"nil", "write"}
             /\ DOMAIN taken.got \subseteq DOMAIN out.fields
             /\ \A j \in DOMAIN taken.got : taken.got[j] = out.fields[j]
             /\ taken.n # WholeSize(out)
  <2> DEFINE part == SubSeq(out.fields, 1, k)
  <2>1. /\ part \in Seq(Fields) /\ DOMAIN part = 1..k
        /\ \A i \in 1..k : part[i] = out.fields[i]
        /\ Size(part) \in Nat /\ Size(part) <= Size(out.fields)
    BY <1>1, PrefixOf
  <2>2. DOMAIN out.fields = 1..Len(out.fields) /\ Len(out.fields) \in Nat
    BY <1>1, LenProperties
  <2>3. taken.got = part /\ taken.n = Size(part) /\ taken.err = e
    BY <1>4
  <2>4. 1..k \subseteq 1..Len(out.fields)
    BY <2>2
  <2>5. Size(part) # Size(out.fields) + 1
    BY <1>2, <2>1
  <2> HIDE DEF part
  <2> QED
    BY <2>1, <2>2, <2>3, <2>4, <2>5 DEF WholeSize
<1>5. \/ taken = [got |-> out.fields, n |-> WholeSize(out), err |-> "nil"]
      \/ \E k \in 0..Len(out.fields), e \in {"nil", "write"} :
            taken = [got |-> SubSeq(out.fields, 1, k),
                     n |-> Size(SubSeq(out.fields, 1, k)), err |-> e]
  BY DEF Taken, out
<1> QED
  BY <1>3, <1>4, <1>5 DEF out

LEMMA OneWrite ==
  ASSUME DenylistLowered, NEW line \in Lines, NEW taken \in Taken(Outgoing(line)),
         NEW place, NEW w,
         w = [of |-> place, got |-> taken.got,
              whole |-> taken.n = WholeSize(Outgoing(line)),
              result |-> Returned(line, taken)]
  PROVE  /\ w.of = place /\ w.got \in Seq(Fields)
         /\ w.whole \in BOOLEAN /\ w.result \in Result
         /\ w \in [of : {place}, got : Seq(Fields), whole : BOOLEAN, result : Result]
         /\ Clean(line, w) /\ Kept(line, w) /\ Honest(line, w)
<1> DEFINE out == Outgoing(line)
           full == taken.n = WholeSize(out)
<1>1. /\ out.fields \in Seq(Fields)
      /\ Keys(out.fields) = Keys(line.fields)
      /\ ~Changed(line) => out = line
      /\ Changed(line) =>
           \A i \in DOMAIN out.fields :
              out.fields[i].value = IF IsDenied(out.fields[i].key)
                                    THEN Redacted
                                    ELSE LastValue(line.fields, out.fields[i].key)
  BY OutgoingLine
<1>2. /\ taken.got \in Seq(Fields)
      /\ taken.n \in Nat /\ taken.err \in {"nil", "write"}
      /\ DOMAIN taken.got \subseteq DOMAIN out.fields
      /\ \A j \in DOMAIN taken.got : taken.got[j] = out.fields[j]
      /\ taken.n = WholeSize(out) => taken.got = out.fields /\ taken.err = "nil"
  BY TakenOf
<1>3. line.fields \in Seq(Fields) /\ WholeSize(line) \in Nat
  BY LineType, SizeType DEF WholeSize
<1>4. /\ w.of = place /\ w.got = taken.got /\ w.whole = full
      /\ w.result = Returned(line, taken)
  OBVIOUS
<1> HIDE DEF out, full
<1>5. full \in BOOLEAN
  BY DEF full
<1>6. full => taken.got = out.fields /\ taken.err = "nil"
  BY <1>2 DEF full
<1>7. Returned(line, taken) \in Result
  BY <1>2, <1>3 DEF Returned, Result
<1>8. full <=> Returned(line, taken) = [n |-> WholeSize(line), err |-> "nil"]
  <2>1. CASE ~Changed(line)
    <3>1. Returned(line, taken) = [n |-> taken.n, err |-> taken.err]
      BY <2>1 DEF Returned
    <3>2. full <=> taken.n = WholeSize(line)
      BY <1>1, <2>1 DEF full
    <3> QED
      BY <1>6, <3>1, <3>2
  <2>2. CASE Changed(line) /\ taken.err # "nil"
    <3>1. Returned(line, taken) = [n |-> taken.n, err |-> taken.err]
      BY <2>2 DEF Returned
    <3> QED
      BY <1>6, <2>2, <3>1
  <2>3. CASE Changed(line) /\ taken.err = "nil" /\ full
    BY <2>3 DEF Returned, full, out
  <2>4. CASE Changed(line) /\ taken.err = "nil" /\ ~full
    <3>1. Returned(line, taken) = [n |-> 0, err |-> "short"]
      BY <2>4 DEF Returned, full, out
    <3> QED
      BY <2>4, <3>1
  <2> QED
    BY <2>1, <2>2, <2>3, <2>4
<1>9. Honest(line, w)
  BY <1>4, <1>8 DEF Honest
<1>10. Clean(line, w)
  <2> SUFFICES ASSUME given.on, ~line.malformed, NEW j \in DOMAIN taken.got,
                      Sensitive(taken.got[j].key)
               PROVE  taken.got[j].value = Redacted
    BY <1>4 DEF Clean
  <2>1. j \in DOMAIN out.fields /\ taken.got[j] = out.fields[j]
    BY <1>2
  <2>2. IsDenied(out.fields[j].key)
    BY <2>1, DeniedIsSensitive
  <2>3. out.fields[j].key \in Keys(line.fields)
    BY <1>1, <2>1 DEF Keys
  <2>4. Changed(line)
    BY <2>2, <2>3 DEF Changed
  <2> QED
    BY <1>1, <2>1, <2>2, <2>4
<1>11. Kept(line, w)
  <2> SUFFICES ASSUME full
               PROVE  /\ Keys(out.fields) = Keys(line.fields)
                      /\ \A key \in Keys(line.fields) :
                            ~Sensitive(key) => LastValue(out.fields, key) = LastValue(line.fields, key)
    BY <1>4, <1>6 DEF Kept
  <2>1. ASSUME NEW key \in Keys(line.fields), ~Sensitive(key), Changed(line)
        PROVE  LastValue(out.fields, key) = LastValue(line.fields, key)
    <3>1. ~IsDenied(key)
      BY <2>1, DeniedIsSensitive
    <3>2. key \in Keys(out.fields)
      BY <1>1
    <3>3. /\ LastWith(out.fields, key) \in DOMAIN out.fields
          /\ out.fields[LastWith(out.fields, key)].key = key
      BY <1>1, <3>2, LastOfKey
    <3> QED
      BY <1>1, <2>1, <3>1, <3>3 DEF LastValue
  <2> QED
    BY <1>1, <2>1
<1>12. w \in [of : {place}, got : Seq(Fields), whole : BOOLEAN, result : Result]
  BY <1>2, <1>5, <1>7 DEF full, out
<1> QED
  BY <1>2, <1>4, <1>5, <1>7, <1>9, <1>10, <1>11, <1>12

-----------------------------------------------------------------------------
(* The inductive invariant: every write there has been is what OneWrite    *)
(* says, of the event that it names.                                       *)
Event == [level : ValidLevels, line : Lines]
Writes == \A i \in DOMAIN sink :
             /\ Clean(Of(sink[i]), sink[i])
             /\ Kept(Of(sink[i]), sink[i])
             /\ Honest(Of(sink[i]), sink[i])

LoggingInv ==
    /\ TypeOK
    /\ DenylistLowered
    /\ Writes

LEMMA InitLoggingInv == Init => LoggingInv
<1> SUFFICES ASSUME Init PROVE LoggingInv
  OBVIOUS
<1>1. threshold \in ValidLevels
  BY DEF Init, ParseLevel, ToLower, ValidLevels
<1>2. given.on \in BOOLEAN
  <2>1. CASE \E devMode \in BOOLEAN : given = ObsScrubFields(devMode)
    <3>1. PICK devMode \in BOOLEAN : given = ObsScrubFields(devMode)
      BY <2>1
    <3>2. given.on = ~devMode
      BY <3>1 DEF ObsScrubFields
    <3> QED
      BY <3>2
  <2>2. CASE \E names \in CustomLists : given = [on |-> TRUE, names |-> names]
    BY <2>2
  <2> QED
    BY <2>1, <2>2 DEF Init
<1>3. /\ events = <<>> /\ sink = <<>> /\ alive \in BOOLEAN
      /\ DenylistLowered
  BY DEF Init, DenylistLowered
<1>4. Len(events) <= MaxEvents /\ events \in Seq(Event)
  BY <1>3, MaxEventsAssumption, EmptySeq
<1>5. sink \in Seq([of : DOMAIN events, got : Seq(Fields), whole : BOOLEAN, result : Result])
  BY <1>3, EmptySeq
<1>6. DOMAIN events = {} /\ DOMAIN sink = {}
  BY <1>3
<1> QED
  BY <1>1, <1>2, <1>3, <1>4, <1>5, <1>6
  DEF LoggingInv, TypeOK, Event, Writes

(* Appending to a list.                                                    *)
LEMMA Appended ==
  ASSUME NEW S, NEW list \in Seq(S), NEW x \in S
  PROVE  /\ Append(list, x) \in Seq(S)
         /\ Len(Append(list, x)) = Len(list) + 1 /\ Len(list) \in Nat
         /\ DOMAIN list = 1..Len(list)
         /\ DOMAIN Append(list, x) = 1..(Len(list) + 1)
         /\ \A i \in DOMAIN list : i \in DOMAIN Append(list, x) /\ Append(list, x)[i] = list[i]
         /\ \A i \in DOMAIN Append(list, x) : i \in DOMAIN list \/ i = Len(list) + 1
         /\ Append(list, x)[Len(list) + 1] = x
  OBVIOUS

(* An event that is logged, whether or not it is written.                  *)
LEMMA LogStep ==
  ASSUME LoggingInv, NEW level \in ValidLevels, NEW line \in Lines, Log(level, line)
  PROVE  LoggingInv'
<1> DEFINE last == Len(events) + 1
           Write(range) == [of : range, got : Seq(Fields), whole : BOOLEAN, result : Result]
<1>1. /\ events \in Seq(Event) /\ Len(events) \in Nat
      /\ sink \in Seq(Write(DOMAIN events))
      /\ alive /\ Len(events) < MaxEvents /\ MaxEvents \in Nat
      /\ UNCHANGED <<threshold, given, denylist>>
      /\ events' = Append(events, [level |-> level, line |-> line])
      /\ alive' = (level # "fatal")
  BY LenProperties, MaxEventsAssumption DEF LoggingInv, TypeOK, Event, Log
<1>2. /\ events' \in Seq(Event) /\ Len(events') = last
      /\ DOMAIN events = 1..Len(events) /\ DOMAIN events' = 1..last
      /\ \A i \in DOMAIN events : i \in DOMAIN events' /\ events'[i] = events[i]
      /\ \A i \in DOMAIN events' : i \in DOMAIN events \/ i = last
      /\ events'[last] = [level |-> level, line |-> line]
  <2>1. [level |-> level, line |-> line] \in Event
    BY DEF Event
  <2> QED
    BY <1>1, <2>1, Appended
<1>3. \A i \in DOMAIN sink : sink[i] \in Write(DOMAIN events)
  BY <1>1, ElementOfSeq, LenProperties
<1>4. Write(DOMAIN events) \subseteq Write(DOMAIN events')
  BY <1>2
<1>5. sink \in Seq(Write(DOMAIN events'))
  <2> HIDE DEF Write
  <2> QED
    BY <1>1, <1>4, SeqMonotonic
<1>6. /\ threshold' \in ValidLevels /\ given'.on \in BOOLEAN /\ alive' \in BOOLEAN
      /\ Len(events') <= MaxEvents /\ DenylistLowered'
  <2>1. Len(events') <= MaxEvents
    BY <1>1, <1>2
  <2>2. threshold \in ValidLevels /\ given.on \in BOOLEAN /\ DenylistLowered
    BY DEF LoggingInv, TypeOK
  <2>3. alive' \in BOOLEAN
    BY <1>1, Zenon
  <2> QED
    BY <1>1, <2>1, <2>2, <2>3 DEF DenylistLowered
<1>7. ASSUME NEW w \in Write(DOMAIN events)
      PROVE  /\ Clean(Of(w), w) => Clean(Of(w), w)'
             /\ Kept(Of(w), w) => Kept(Of(w), w)'
             /\ Honest(Of(w), w) => Honest(Of(w), w)'
  <2>1. Of(w)' = Of(w)
    BY <1>2, <1>7 DEF Of
  <2> QED
    BY <1>1, <2>1 DEF Clean, Kept, Honest, Sensitive
<1>8. CASE ~Enabled(level)
  <2>1. sink' = sink
    BY <1>8 DEF Log
  <2>2. Writes'
    BY <1>3, <1>7, <2>1 DEF LoggingInv, Writes
  <2>3. TypeOK'
    BY <1>2, <1>5, <1>6, <2>1 DEF TypeOK, Event
  <2> QED
    BY <1>6, <2>2, <2>3 DEF LoggingInv
<1>9. CASE Enabled(level)
  <2> DEFINE End == Len(sink) + 1
  <2>1. PICK taken \in Taken(Outgoing(line)) :
           sink' = Append(sink, [of |-> Len(events'), got |-> taken.got,
                                 whole |-> taken.n = WholeSize(Outgoing(line)),
                                 result |-> Returned(line, taken)])
    BY <1>9 DEF Log
  <2>2. PICK w : w = [of |-> last, got |-> taken.got,
                      whole |-> taken.n = WholeSize(Outgoing(line)),
                      result |-> Returned(line, taken)]
    OBVIOUS
  <2>3. /\ w.of = last /\ w \in Write({last})
        /\ Clean(line, w) /\ Kept(line, w) /\ Honest(line, w)
    BY <2>2, OneWrite DEF LoggingInv
  <2>4. w \in Write(DOMAIN events')
    BY <1>1, <1>2, <2>3
  <2>5. sink' = Append(sink, w)
    BY <1>2, <2>1, <2>2
  <2> HIDE DEF Write
  <2>6. /\ sink' \in Seq(Write(DOMAIN events')) /\ Len(sink) \in Nat
        /\ DOMAIN sink = 1..Len(sink) /\ DOMAIN sink' = 1..End
        /\ \A i \in DOMAIN sink : i \in DOMAIN sink' /\ sink'[i] = sink[i]
        /\ \A i \in DOMAIN sink' : i \in DOMAIN sink \/ i = End
        /\ sink'[End] = w
    BY <1>5, <2>4, <2>5, Appended
  <2>7. Writes'
    <3> SUFFICES ASSUME NEW i \in DOMAIN sink'
                 PROVE  /\ Clean(Of(sink[i]), sink[i])'
                        /\ Kept(Of(sink[i]), sink[i])'
                        /\ Honest(Of(sink[i]), sink[i])'
      BY DEF Writes
    <3>1. CASE i \in DOMAIN sink
      <4>1. PICK v \in Write(DOMAIN events) : v = sink[i] /\ v = sink'[i]
        BY <1>3, <2>6, <3>1
      <4>2. Clean(Of(v), v) /\ Kept(Of(v), v) /\ Honest(Of(v), v)
        BY <3>1, <4>1 DEF LoggingInv, Writes
      <4>3. Clean(Of(v), v)' /\ Kept(Of(v), v)' /\ Honest(Of(v), v)'
        BY <1>7, <4>2
      <4> QED
        BY <4>1, <4>3 DEF Clean, Kept, Honest, Of
    <3>2. CASE i = End
      <4>1. sink'[i] = w /\ events'[w.of].line = line
        BY <1>2, <2>3, <2>6, <3>2
      <4> QED
        BY <1>1, <2>3, <4>1 DEF Of, Clean, Kept, Honest, Sensitive
    <3> QED
      BY <2>6, <3>1, <3>2
  <2>8. TypeOK'
    BY <1>2, <1>6, <2>6 DEF TypeOK, Event, Write
  <2> QED
    BY <1>6, <2>7, <2>8 DEF LoggingInv
<1> QED
  BY <1>8, <1>9

(* The inductive invariant holds in every reachable state.                 *)
THEOREM LoggingInvariant == Spec => []LoggingInv
<1>1. LoggingInv /\ [Next]_vars => LoggingInv'
  <2> SUFFICES ASSUME LoggingInv, [Next]_vars PROVE LoggingInv'
    OBVIOUS
  <2>1. CASE UNCHANGED vars
    BY <2>1
    DEF vars, LoggingInv, TypeOK, DenylistLowered, Writes, Clean, Kept, Honest, Of,
        Sensitive
  <2>2. ASSUME NEW level \in ValidLevels, NEW line \in Lines, Log(level, line)
        PROVE  LoggingInv'
    BY <2>2, LogStep
  <2> QED
    BY <2>1, <2>2 DEF Next
<1> QED
  BY InitLoggingInv, <1>1, PTL DEF Spec

(* Every variable keeps its type: what is written of a line is a list of   *)
(* fields again, whatever the writer takes of it.                          *)
THEOREM TypeCorrect == Spec => []TypeOK
BY LoggingInvariant, PTL DEF LoggingInv

(* While scrubbing is on, no value of a field that the denylist names      *)
(* reaches the writer, whatever the lines and the denylist (scrub.go:43-58).*)
THEOREM DenylistCorrect == Spec => []NoDeniedValueWritten
<1>1. LoggingInv => NoDeniedValueWritten
  BY DEF LoggingInv, Writes, Clean, NoDeniedValueWritten
<1> QED
  BY <1>1, LoggingInvariant, PTL

(* A whole line has every field of the event, each with its last value     *)
(* unless that is denied (scrub.go:48-64).                                 *)
THEOREM OthersCorrect == Spec => []OthersKept
<1>1. LoggingInv => OthersKept
  BY DEF LoggingInv, Writes, Kept, OthersKept
<1> QED
  BY <1>1, LoggingInvariant, PTL

(* Write claims all of its argument exactly when the whole line reached    *)
(* the writer (scrub.go:64-72).                                            *)
THEOREM WriteCorrect == Spec => []WriteHonest
<1>1. LoggingInv => WriteHonest
  BY DEF LoggingInv, Writes, Honest, WriteHonest
<1> QED
  BY <1>1, LoggingInvariant, PTL
=============================================================================
