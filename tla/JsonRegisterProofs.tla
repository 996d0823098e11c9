------------------------- MODULE JsonRegisterProofs -------------------------
(***************************************************************************)
(* What can be said of every record that is kept in one JSON file,         *)
(* whatever its requests do.  Good relates a content to the calls that     *)
(* have returned; the lemmas say when it is kept.  The registers           *)
(* instantiate this module with their requests and a Good of their own.    *)
(***************************************************************************)
EXTENDS JsonRegister, WellFoundedInduction, TLAPS

CONSTANT Good(_, _)

(* A trail is a sequence, and a call that returns is put at its end. *)
IsTrail(t) == \E S : t \in Seq(S)

LEMMA Appended ==
    ASSUME NEW t, IsTrail(t), NEW e
    PROVE  /\ IsTrail(Append(t, e)) /\ Len(t) \in Nat /\ DOMAIN t = 1 .. Len(t)
           /\ Len(Append(t, e)) = Len(t) + 1 /\ DOMAIN Append(t, e) = 1 .. Len(t) + 1
           /\ DOMAIN Append(t, e) = DOMAIN t \cup {Len(t) + 1} /\ Len(t) + 1 \notin DOMAIN t
           /\ \A i \in DOMAIN t : Append(t, e)[i] = t[i] /\ i < Len(t) + 1 /\ i \in Nat
           /\ Append(t, e)[Len(t) + 1] = e
<1>1. PICK S : t \in Seq(S)
    BY DEF IsTrail
<1>2. t \in Seq(S \cup {e})
    BY <1>1
<1>3. Append(t, e) \in Seq(S \cup {e})
    BY <1>2
<1> QED
    BY <1>2, <1>3 DEF IsTrail

LEMMA EmptyTrail == IsTrail(<<>>) /\ DOMAIN <<>> = {} /\ Len(<<>>) = 0
<1>1. <<>> \in Seq({}) /\ DOMAIN <<>> = {} /\ Len(<<>>) = 0
    OBVIOUS
<1> QED
    BY <1>1 DEF IsTrail

(* The last of the calls of a kind. *)
LEMMA HasLast ==
    ASSUME NEW n \in Nat, NEW S, S \subseteq 1 .. n, S # {}
    PROVE  \E i \in S : \A j \in S : j <= i
<1> DEFINE T == {n - i : i \in S}
           R == OpToRel(<, Nat)
<1>1. IsWellFoundedOn(R, Nat)
    BY NatLessThanWellFounded
<1>2. T \subseteq Nat /\ T # {}
    <2>1. \A i \in S : i \in Nat /\ i <= n /\ n - i \in Nat
        OBVIOUS
    <2> QED
        BY <2>1
<1>3. \A x, y \in Nat : <<y, x>> \in R <=> y < x
    BY DEF OpToRel
<1> HIDE DEF R, T
<1>4. PICK x \in T : \A y \in T : ~ (<<y, x>> \in R)
    BY <1>1, <1>2, WFMin
<1>5. \A y \in T : ~(y < x)
    BY <1>2, <1>3, <1>4
<1>6. PICK i \in S : x = n - i
    BY <1>4 DEF T
<1>7. \A j \in S : n - j \in T
    BY DEF T
<1>8. ASSUME NEW j \in S PROVE j <= i
    <2>1. n - j \in T
        BY <1>7
    <2>2. ~(n - j < n - i)
        BY <1>5, <1>6, <2>1
    <2> QED
        BY <2>2
<1> QED
    BY <1>8

-----------------------------------------------------------------------------
(***************************************************************************)
(* The answer to a request: what is reported in the trail, and what was    *)
(* computed from a content to be saved.                                    *)
(***************************************************************************)
AnswerTo(content, op, id, at) == Serve(content, op, [id |-> id, at |-> at])
Entry(content, op, id, at) ==
    [id |-> id, op |-> op, found |-> content.kind, at |-> at,
     reply |-> AnswerTo(content, op, id, at).reply]
Computed(value, entry, content) ==
    \E op \in Ops : \E id, at :
        /\ AnswerTo(content, op, id, at).saves
        /\ value = AnswerTo(content, op, id, at).value
        /\ entry = Entry(content, op, id, at)

(* A save keeps Good; and so does a call that saves nothing, with what is  *)
(* in the file and while the file is being written.                        *)
SavesKeepGood ==
    \A content, t, value, entry :
        Good(content, t) /\ Computed(value, entry, content)
            => Good(Whole(value), Append(t, entry))

ReadsKeepGood ==
    \A content, read, t, id, at : \A op \in Ops :
        /\ Good(content, t) /\ read \in {content, Torn}
        /\ ~AnswerTo(read, op, id, at).saves
        => Good(content, Append(t, Entry(read, op, id, at)))

(* What the calls in progress hold. *)
Held ==
    /\ calls = [c \in Callers |-> calls[c]] /\ moves \in Nat
    /\ \A c \in Callers :
         /\ calls[c].pc \in {"idle", "called", "computed", "writing"}
         /\ calls[c].pc = "called" => calls[c].op \in Ops
         /\ calls[c].pc \in {"computed", "writing"} =>
              /\ calls[c] = [pc |-> calls[c].pc, entry |-> calls[c].entry,
                             value |-> calls[c].value, mark |-> calls[c].mark]
              /\ calls[c].mark \in Nat /\ calls[c].mark <= moves

(***************************************************************************)
(* What was computed when nothing has touched the file since is the answer *)
(* to what is in the file.  And as long as no call was cut off or overtook *)
(* another, one call writes at a time: what it is writing is the answer to *)
(* a content that was Good.                                                *)
(***************************************************************************)
Current ==
    \A c \in Callers : calls[c].pc = "computed" /\ calls[c].mark = moves
        => Computed(calls[c].value, calls[c].entry, file)

Alone ==
    /\ \A c, d \in Callers : calls[c].pc = "writing" /\ calls[d].pc = "writing" => c = d
    /\ \A c \in Callers : calls[c].pc = "writing" =>
         /\ calls[c].mark = moves /\ file = Torn
         /\ \E content : Good(content, trail)
                           /\ Computed(calls[c].value, calls[c].entry, content)
    /\ AtRest => Good(file, trail)

Serial == Held /\ Current /\ (quiet => Alone)

LEMMA SerialIsGood ==
    ASSUME Serial, quiet
    PROVE  (\E content : Good(content, trail)) /\ (AtRest => Good(file, trail))
    BY DEF Serial, Alone, AtRest

LEMMA SerialInit ==
    ASSUME Init, Good(Absent, <<>>)
    PROVE  Serial
<1>1. calls = [c \in Callers |-> calls[c]] /\ \A c \in Callers : calls[c].pc = "idle"
    BY DEF Init, Idle
<1> QED
    BY <1>1 DEF Init, Serial, Held, Current, Alone, AtRest

LEMMA CallSerial ==
    ASSUME Serial, NEW c \in Callers, Call(c)
    PROVE  Serial'
<1>1. PICK op \in Ops :
          calls' = [calls EXCEPT ![c] = [pc |-> "called", op |-> op, id |-> started + 1]]
    BY DEF Call
<1>2. calls[c].pc = "idle" /\ UNCHANGED <<file, trail, moves, quiet>>
    BY DEF Call
<1>3. /\ calls'[c].pc = "called" /\ calls'[c].op = op
      /\ \A d \in Callers : d # c => calls'[d] = calls[d]
      /\ calls' = [d \in Callers |-> calls'[d]]
    BY <1>1 DEF Serial, Held
<1>4. Held'
    BY <1>2, <1>3 DEF Serial, Held
<1>5. Current'
    BY <1>2, <1>3 DEF Serial, Current
<1>6. quiet' => Alone'
    <2> SUFFICES ASSUME quiet' PROVE Alone'
        OBVIOUS
    <2>1. Alone
        BY <1>2 DEF Serial
    <2>2. AtRest' => AtRest
        BY <1>2, <1>3 DEF AtRest
    <2> QED
        BY <1>2, <1>3, <2>1, <2>2 DEF Alone
<1> QED
    BY <1>4, <1>5, <1>6 DEF Serial

(* The two ways a read may go. *)
LEMMA ReadIs ==
    ASSUME Serial, NEW c \in Callers, Read(c)
    PROVE  /\ calls[c].pc = "called" /\ UNCHANGED <<file, moves, quiet>>
           /\ calls' = [d \in Callers |-> calls'[d]]
           /\ \A d \in Callers : d # c => calls'[d] = calls[d]
           /\ \E op \in Ops : \E id, at :
                \/ /\ ~AnswerTo(file, op, id, at).saves
                   /\ trail' = Append(trail, Entry(file, op, id, at))
                   /\ calls'[c] = Idle
                \/ /\ AnswerTo(file, op, id, at).saves
                   /\ calls'[c] = [pc |-> "computed", entry |-> Entry(file, op, id, at),
                                   value |-> AnswerTo(file, op, id, at).value, mark |-> moves]
                   /\ trail' = trail
<1> DEFINE op == calls[c].op
           id == calls[c].id
           answer == AnswerTo(file, op, id, now)
           entry == Entry(file, op, id, now)
<1>1. /\ calls[c].pc = "called" /\ UNCHANGED <<file, moves, quiet>>
      /\ \/ /\ ~answer.saves
            /\ trail' = Append(trail, entry)
            /\ calls' = [calls EXCEPT ![c] = Idle]
         \/ /\ answer.saves
            /\ calls' = [calls EXCEPT ![c] = [pc |-> "computed", entry |-> entry,
                                              value |-> answer.value, mark |-> moves]]
            /\ UNCHANGED trail
    BY DEF Read, Answered, AnswerTo, Entry
<1>2. op \in Ops
    BY <1>1 DEF Serial, Held
<1> HIDE DEF op, id, answer, entry
<1>3. calls = [d \in Callers |-> calls[d]]
    BY DEF Serial, Held
<1>4. /\ calls' = [d \in Callers |-> calls'[d]]
      /\ \A d \in Callers : d # c => calls'[d] = calls[d]
      /\ \/ ~answer.saves /\ trail' = Append(trail, entry) /\ calls'[c] = Idle
         \/ /\ answer.saves
            /\ calls'[c] = [pc |-> "computed", entry |-> entry, value |-> answer.value,
                            mark |-> moves]
            /\ trail' = trail
    BY <1>1, <1>3
<1> QED
    BY <1>1, <1>2, <1>4 DEF answer, entry

LEMMA ReadSerial ==
    ASSUME Serial, NEW c \in Callers, Read(c), ReadsKeepGood
    PROVE  Serial'
<1>1. /\ calls[c].pc = "called" /\ UNCHANGED <<file, moves, quiet>>
      /\ calls' = [d \in Callers |-> calls'[d]]
      /\ \A d \in Callers : d # c => calls'[d] = calls[d]
    BY ReadIs
<1>2. PICK op, id, at :
          /\ op \in Ops
          /\ \/ /\ ~AnswerTo(file, op, id, at).saves
                /\ trail' = Append(trail, Entry(file, op, id, at))
                /\ calls'[c] = Idle
             \/ /\ AnswerTo(file, op, id, at).saves
                /\ calls'[c] = [pc |-> "computed", entry |-> Entry(file, op, id, at),
                                value |-> AnswerTo(file, op, id, at).value, mark |-> moves]
                /\ trail' = trail
    BY ReadIs
<1>3. \/ calls'[c].pc = "idle"
      \/ /\ calls'[c] = [pc |-> "computed", entry |-> calls'[c].entry,
                         value |-> calls'[c].value, mark |-> calls'[c].mark]
         /\ calls'[c].pc = "computed" /\ calls'[c].mark = moves
         /\ Computed(calls'[c].value, calls'[c].entry, file)
    BY <1>2 DEF Idle, Computed
<1>4. Held'
    BY <1>1, <1>3 DEF Serial, Held
<1>5. Current'
    BY <1>1, <1>3 DEF Serial, Current
<1>6. quiet' => Alone'
    <2> SUFFICES ASSUME quiet' PROVE Alone'
        OBVIOUS
    <2>1. Alone
        BY <1>1 DEF Serial
    <2>2. AtRest' => AtRest
        BY <1>1 DEF AtRest
    <2>3. ASSUME NEW content, Good(content, trail), file \in {content, Torn}
          PROVE  Good(content, trail')
        BY <1>2, <2>3 DEF ReadsKeepGood
    <2>4. ASSUME NEW d \in Callers, calls'[d].pc = "writing"
          PROVE  /\ calls'[d].mark = moves /\ file = Torn
                 /\ \E content : Good(content, trail')
                                   /\ Computed(calls'[d].value, calls'[d].entry, content)
        <3>1. calls'[d] = calls[d]
            BY <1>1, <1>3, <2>4
        <3>2. PICK content : /\ Good(content, trail)
                             /\ Computed(calls[d].value, calls[d].entry, content)
            BY <2>1, <2>4, <3>1 DEF Alone
        <3> QED
            BY <2>1, <2>3, <2>4, <3>1, <3>2 DEF Alone
    <2>5. \A d, e \in Callers : calls'[d].pc = "writing" /\ calls'[e].pc = "writing" => d = e
        BY <1>1, <1>3, <2>1 DEF Alone
    <2>6. AtRest' => Good(file, trail')
        BY <2>1, <2>2, <2>3 DEF Alone
    <2> QED
        BY <1>1, <2>4, <2>5, <2>6 DEF Alone
<1> QED
    BY <1>4, <1>5, <1>6 DEF Serial

LEMMA TruncateSerial ==
    ASSUME Serial, NEW c \in Callers, Truncate(c)
    PROVE  Serial'
<1>1. /\ calls[c].pc = "computed" /\ file' = Torn /\ moves' = moves + 1
      /\ quiet' = (quiet /\ calls[c].mark = moves /\ AtRest)
      /\ calls' = [calls EXCEPT ![c].pc = "writing", ![c].mark = moves + 1]
      /\ trail' = trail
    BY DEF Truncate
<1>2. /\ moves \in Nat /\ calls = [d \in Callers |-> calls[d]]
      /\ calls[c] = [pc |-> calls[c].pc, entry |-> calls[c].entry,
                     value |-> calls[c].value, mark |-> calls[c].mark]
    BY <1>1 DEF Serial, Held
<1>3. /\ calls' = [d \in Callers |-> calls'[d]]
      /\ \A d \in Callers : d # c => calls'[d] = calls[d]
      /\ calls'[c] = [pc |-> "writing", entry |-> calls[c].entry,
                      value |-> calls[c].value, mark |-> moves + 1]
    <2>1. calls'[c] = [calls[c] EXCEPT !.pc = "writing", !.mark = moves + 1]
        BY <1>1, <1>2
    <2>2. /\ calls' = [d \in Callers |-> calls'[d]]
          /\ \A d \in Callers : d # c => calls'[d] = calls[d]
        BY <1>1, <1>2
    <2> QED
        BY <1>2, <2>1, <2>2
<1>4. \A d \in Callers : calls[d].pc \in {"computed", "writing"} =>
          calls[d].mark \in Nat /\ calls[d].mark <= moves
    BY DEF Serial, Held
<1>5. Held'
    BY <1>1, <1>2, <1>3, <1>4 DEF Serial, Held
<1>6. Current'
    BY <1>1, <1>2, <1>3, <1>4 DEF Current
<1>7. quiet' => Alone'
    <2> SUFFICES ASSUME quiet' PROVE Alone'
        OBVIOUS
    <2>1. Alone /\ calls[c].mark = moves /\ AtRest
        BY <1>1 DEF Serial
    <2>2. Good(file, trail) /\ Computed(calls[c].value, calls[c].entry, file)
        BY <1>1, <2>1 DEF Alone, Serial, Current
    <2>3. \A d \in Callers : calls'[d].pc = "writing" => d = c
        BY <1>3, <2>1 DEF AtRest
    <2>4. /\ calls'[c].pc = "writing" /\ calls'[c].mark = moves'
          /\ calls'[c].value = calls[c].value /\ calls'[c].entry = calls[c].entry
        BY <1>1, <1>3
    <2>5. \E content : Good(content, trail')
                         /\ Computed(calls'[c].value, calls'[c].entry, content)
        BY <1>1, <2>2, <2>4
    <2>6. ~AtRest'
        BY <2>4 DEF AtRest
    <2> QED
        BY <1>1, <2>3, <2>4, <2>5, <2>6 DEF Alone
<1> QED
    BY <1>5, <1>6, <1>7 DEF Serial

LEMMA WriteSerial ==
    ASSUME Serial, NEW c \in Callers, Write(c), SavesKeepGood
    PROVE  Serial'
<1>1. /\ calls[c].pc = "writing" /\ moves' = moves + 1
      /\ file' = Whole(calls[c].value) \/ calls[c].mark # moves
      /\ trail' = Append(trail, calls[c].entry)
      /\ calls' = [calls EXCEPT ![c] = Idle] /\ quiet' = quiet
    BY DEF Write
<1>2. moves \in Nat /\ calls = [d \in Callers |-> calls[d]]
    BY DEF Serial, Held
<1>3. /\ calls' = [d \in Callers |-> calls'[d]] /\ calls'[c].pc = "idle"
      /\ \A d \in Callers : d # c => calls'[d] = calls[d]
    BY <1>1, <1>2 DEF Idle
<1>4. \A d \in Callers : calls[d].pc \in {"computed", "writing"} =>
          calls[d].mark \in Nat /\ calls[d].mark <= moves
    BY DEF Serial, Held
<1>5. Held'
    BY <1>1, <1>2, <1>3, <1>4 DEF Serial, Held
<1>6. Current'
    BY <1>1, <1>2, <1>3, <1>4 DEF Current
<1>7. quiet' => Alone'
    <2> SUFFICES ASSUME quiet' PROVE Alone'
        OBVIOUS
    <2>1. Alone
        BY <1>1 DEF Serial
    <2>2. file' = Whole(calls[c].value)
        BY <1>1, <2>1 DEF Alone
    <2>3. Good(file', trail')
        BY <1>1, <2>1, <2>2 DEF Alone, SavesKeepGood
    <2>4. \A d \in Callers : calls'[d].pc # "writing"
        BY <1>1, <1>3, <2>1 DEF Alone
    <2> QED
        BY <2>3, <2>4 DEF Alone
<1> QED
    BY <1>5, <1>6, <1>7 DEF Serial

LEMMA StopSerial ==
    ASSUME Serial, NEW c \in Callers, Stop(c)
    PROVE  Serial'
<1>1. calls' = [calls EXCEPT ![c] = Idle] /\ quiet' = FALSE /\ UNCHANGED <<file, moves>>
    BY DEF Stop
<1>2. /\ calls' = [d \in Callers |-> calls'[d]] /\ calls'[c].pc = "idle"
      /\ \A d \in Callers : d # c => calls'[d] = calls[d]
    BY <1>1 DEF Serial, Held, Idle
<1> QED
    BY <1>1, <1>2 DEF Serial, Held, Current

LEMMA StillSerial ==
    ASSUME Serial, UNCHANGED <<file, calls, trail, moves, quiet>>
    PROVE  Serial'
    BY DEF Serial, Held, Current, Alone, AtRest

(***************************************************************************)
(* While no call is cut off or overtakes another, the content is Good: for *)
(* any requests whose answers keep it so.                                  *)
(***************************************************************************)
LEMMA SerialStep ==
    ASSUME Serial, Next \/ UNCHANGED vars, SavesKeepGood, ReadsKeepGood
    PROVE  Serial'
<1>1. CASE \E c \in Callers : Call(c)
    BY <1>1, CallSerial
<1>2. CASE \E c \in Callers : Read(c)
    BY <1>2, ReadSerial
<1>3. CASE \E c \in Callers : Truncate(c)
    BY <1>3, TruncateSerial
<1>4. CASE \E c \in Callers : Write(c)
    BY <1>4, WriteSerial
<1>5. CASE \E c \in Callers : Stop(c)
    BY <1>5, StopSerial
<1>6. CASE Tick \/ UNCHANGED vars
    BY <1>6, StillSerial DEF Tick, vars
<1> QED
    BY <1>1, <1>2, <1>3, <1>4, <1>5, <1>6 DEF Next

-----------------------------------------------------------------------------
(***************************************************************************)
(* A Good that outlives interleavings: calls that return in between do not *)
(* spoil it, neither for what is in the file nor for what is still to be   *)
(* written.  Then every content is Good, however calls overlap.            *)
(***************************************************************************)
SettlesGood ==
    \A content, t, d, e :
        /\ Good(content, t) => Good(content, Append(t, d))
        /\ IsTrail(t) /\ Good(content, Append(t, e)) => Good(content, Append(Append(t, d), e))

Throughout ==
    /\ Held /\ IsTrail(trail) /\ Good(file, trail)
    /\ \A c \in Callers : calls[c].pc \in {"computed", "writing"} =>
          Good(Whole(calls[c].value), Append(trail, calls[c].entry))

LEMMA ThroughoutInit ==
    ASSUME Init, Good(Absent, <<>>)
    PROVE  Throughout
<1>1. calls = [c \in Callers |-> calls[c]] /\ \A c \in Callers : calls[c].pc = "idle"
    BY DEF Init, Idle
<1> QED
    BY <1>1, EmptyTrail DEF Init, Throughout, Held

LEMMA ThroughoutStep ==
    ASSUME Throughout, Serial, Next \/ UNCHANGED vars, SavesKeepGood, ReadsKeepGood, SettlesGood,
           \A t : IsTrail(t) => Good(Torn, t)
    PROVE  Throughout'
<1>1. Held'
    BY SerialStep DEF Serial
<1>2. ASSUME UNCHANGED <<file, trail>>,
             \A c \in Callers : calls'[c].pc \in {"computed", "writing"} =>
                 Good(Whole(calls'[c].value), Append(trail, calls'[c].entry))
      PROVE  Throughout'
    BY <1>1, <1>2 DEF Throughout
<1>3. CASE \E c \in Callers : Call(c) \/ Stop(c)
    <2> PICK c \in Callers : Call(c) \/ Stop(c)
        BY <1>3
    <2>1. calls'[c].pc \in {"idle", "called"} /\ \A d \in Callers : d # c => calls'[d] = calls[d]
        BY DEF Call, Stop, Idle, Throughout, Held
    <2>2. UNCHANGED <<file, trail>>
        BY DEF Call, Stop
    <2> QED
        BY <1>2, <2>1, <2>2 DEF Throughout
<1>4. CASE \E c \in Callers : Read(c)
    <2> PICK c \in Callers : Read(c)
        BY <1>4
    <2>1. UNCHANGED file /\ \A d \in Callers : d # c => calls'[d] = calls[d]
        BY ReadIs
    <2>2. PICK op, id, at :
              /\ op \in Ops
              /\ \/ /\ ~AnswerTo(file, op, id, at).saves
                    /\ trail' = Append(trail, Entry(file, op, id, at))
                    /\ calls'[c] = Idle
                 \/ /\ AnswerTo(file, op, id, at).saves
                    /\ calls'[c] = [pc |-> "computed", entry |-> Entry(file, op, id, at),
                                    value |-> AnswerTo(file, op, id, at).value, mark |-> moves]
                    /\ trail' = trail
        BY ReadIs
    <2>3. CASE ~AnswerTo(file, op, id, at).saves
        <3>1. trail' = Append(trail, Entry(file, op, id, at)) /\ calls'[c].pc = "idle"
            BY <2>2, <2>3 DEF Idle
        <3>2. IsTrail(trail') /\ Good(file, trail')
            BY <3>1, Appended DEF Throughout, SettlesGood
        <3>3. ASSUME NEW d \in Callers, calls'[d].pc \in {"computed", "writing"}
              PROVE  Good(Whole(calls'[d].value), Append(trail', calls'[d].entry))
            BY <2>1, <3>1, <3>3 DEF Throughout, SettlesGood
        <3> QED
            BY <1>1, <2>1, <3>2, <3>3 DEF Throughout
    <2>4. CASE AnswerTo(file, op, id, at).saves
        <3>1. /\ Computed(calls'[c].value, calls'[c].entry, file)
              /\ calls'[c].pc = "computed" /\ trail' = trail
            BY <2>2, <2>4 DEF Computed
        <3>2. Good(Whole(calls'[c].value), Append(trail, calls'[c].entry))
            BY <3>1 DEF Throughout, SavesKeepGood
        <3> QED
            BY <1>2, <2>1, <3>1, <3>2 DEF Throughout
    <2> QED
        BY <2>3, <2>4
<1>5. CASE \E c \in Callers : Truncate(c)
    <2> PICK c \in Callers : Truncate(c)
        BY <1>5
    <2>1. /\ calls[c].pc = "computed" /\ file' = Torn /\ trail' = trail
          /\ calls' = [calls EXCEPT ![c].pc = "writing", ![c].mark = moves + 1]
        BY DEF Truncate
    <2>2. /\ calls = [d \in Callers |-> calls[d]]
          /\ calls[c] = [pc |-> calls[c].pc, entry |-> calls[c].entry,
                         value |-> calls[c].value, mark |-> calls[c].mark]
        BY <2>1 DEF Throughout, Held
    <2>3. /\ \A d \in Callers : d # c => calls'[d] = calls[d]
          /\ calls'[c] = [calls[c] EXCEPT !.pc = "writing", !.mark = moves + 1]
        BY <2>1, <2>2
    <2>4. calls'[c].value = calls[c].value /\ calls'[c].entry = calls[c].entry
        BY <2>2, <2>3
    <2> QED
        BY <1>1, <2>1, <2>3, <2>4 DEF Throughout
<1>6. CASE \E c \in Callers : Write(c)
    <2> PICK c \in Callers : Write(c)
        BY <1>6
    <2>1. /\ calls[c].pc = "writing" /\ file' \in {Whole(calls[c].value), Torn}
          /\ trail' = Append(trail, calls[c].entry)
          /\ calls' = [calls EXCEPT ![c] = Idle]
        BY DEF Write
    <2>2. calls'[c].pc = "idle" /\ \A d \in Callers : d # c => calls'[d] = calls[d]
        BY <2>1 DEF Throughout, Held, Idle
    <2>3. IsTrail(trail') /\ Good(file', trail')
        BY <2>1, Appended DEF Throughout
    <2>4. ASSUME NEW d \in Callers, calls'[d].pc \in {"computed", "writing"}
          PROVE  Good(Whole(calls'[d].value), Append(trail', calls'[d].entry))
        BY <2>1, <2>2, <2>4 DEF Throughout, SettlesGood
    <2> QED
        BY <1>1, <2>3, <2>4 DEF Throughout
<1>7. CASE Tick \/ UNCHANGED vars
    BY <1>2, <1>7 DEF Tick, vars, Throughout
<1> QED
    BY <1>3, <1>4, <1>5, <1>6, <1>7 DEF Next
=============================================================================
