---------------------------- MODULE OutboundProofs ----------------------------
(***************************************************************************)
(* Where messages go, for any values, intents, registrations, replies and  *)
(* number of versions.  The argument has three parts: what is accepted     *)
(* when it is written stays as it is when it is normalised again, so that  *)
(* the daemon's own validation agrees; the newest words of the intents are *)
(* what the version holds; and what the adapter remembers of a version     *)
(* went where that version wants it.  That no reply breaks the seam is a   *)
(* fact about the pure functions of Seam.                                  *)
(***************************************************************************)
EXTENDS Outbound, SequenceTheorems, TLAPS

\* A pair as intake writes it.
Accepted(p) == p \in Pair /\ ValidTuple(p) /\ NormalPair(p) = p

\* What a version asks for, Nothing if nothing.
Wanted(v) == IF log[v].override # Nothing THEN log[v].override ELSE log[v].context

-----------------------------------------------------------------------------
(* Destinations *)

\* Normalising twice is normalising once.
LEMMA NormalTwice ==
  ASSUME NEW p \in Pair
  PROVE  NormalPair(p) \in Pair /\ NormalPair(NormalPair(p)) = NormalPair(p)
<1>1. \A v \in Values \cup {Null} : Normal(v) \in Values \cup {Null} /\ Normal(Normal(v)) = Normal(v)
  BY DestinationAssumption DEF Normal
<1>2. Normal(p.channel) \in Values \cup {Null} /\ Normal(p.ref) \in Values \cup {Null}
  BY <1>1 DEF Pair
<1>3. NormalPair(p) \in Pair
  BY <1>2 DEF NormalPair, Pair
<1>4. /\ Normal(Normal(p.channel)) = Normal(p.channel)
      /\ Normal(Normal(p.ref)) = Normal(p.ref)
  BY <1>1 DEF Pair
<1> QED
  BY <1>3, <1>4 DEF NormalPair

LEMMA NothingAccepted == Accepted(Nothing)
BY DEF Accepted, Nothing, Pair, ValidTuple, NormalPair, Normal

\* What an accepted intent writes is what it says, if it says anything.
LEMMA WrittenIsSpoken ==
  ASSUME NEW c \in Carried, ~LiftRaises(c), Writable(Lift(c)), NEW current
  PROVE  /\ Says(c) => Accepted(Spoken(c))
         /\ Written(Lift(c), current) = IF Says(c) THEN Spoken(c) ELSE current
<1> USE DestinationAssumption
<1>0. /\ c.channel \in Values \cup {Null, Absent} /\ c.ref \in Values \cup {Null, Absent}
      /\ c.object \in Objects
  BY DEF Carried
<1>1. CASE HasFlat(c)
  <2>1. Lift(c) = c
    BY <1>1 DEF Lift
  <2>2. c.channel # Absent /\ c.ref # Absent
    BY <1>1, <2>1 DEF HasFlat, Writable
  <2> DEFINE raw == [channel |-> c.channel, ref |-> c.ref]
  <2>3. raw \in Pair
    BY <1>0, <2>2 DEF Pair
  <2>4. Spoken(c) = NormalPair(raw) /\ Says(c)
    BY <1>1, <2>2 DEF Spoken, Says, Get
  <2>5. ValidTuple(NormalPair(raw)) /\ Written(Lift(c), current) = NormalPair(raw)
    BY <2>1, <2>2 DEF Writable, Written
  <2> QED
    BY <2>3, <2>4, <2>5, NormalTwice DEF Accepted
<1>2. CASE ~HasFlat(c) /\ c.object.is = "null"
  <2>1. Lift(c) = Flat(Null, Null)
    BY <1>2 DEF Lift
  <2>2. Written(Lift(c), current) = Nothing
    BY <2>1 DEF Written, Flat, NormalPair, Normal, Nothing
  <2>3. Says(c) /\ Spoken(c) = Nothing
    BY <1>2 DEF Says, Spoken
  <2> QED
    BY <2>2, <2>3, NothingAccepted
<1>3. CASE ~HasFlat(c) /\ c.object.is = "object"
  <2> DEFINE raw == [channel |-> Get(c.object.channel), ref |-> Get(c.object.ref)]
  <2>1. /\ Get(c.object.channel) \in Values \cup {Null}
        /\ Get(c.object.ref) \in Values \cup {Null}
    <3>1. c.object \in [is : {"object"}, channel : Values \cup {Null, Absent},
                        ref : Values \cup {Null, Absent}]
      BY <1>0, <1>3 DEF Objects
    <3> QED
      BY <3>1 DEF Get
  <2>2. Lift(c) = Flat(raw.channel, raw.ref)
    BY <1>3 DEF Lift
  <2>3. raw \in Pair /\ raw.channel # Absent /\ raw.ref # Absent
    BY <2>1 DEF Pair
  <2>4. Lift(c).channel = raw.channel /\ Lift(c).ref = raw.ref
    BY <2>2 DEF Flat
  <2>5. ValidTuple(NormalPair(raw)) /\ Written(Lift(c), current) = NormalPair(raw)
    BY <2>3, <2>4 DEF Writable, Written
  <2>6. Says(c) /\ Spoken(c) = NormalPair(raw)
    BY <1>3 DEF Says, Spoken
  <2> QED
    BY <2>3, <2>5, <2>6, NormalTwice DEF Accepted
<1>4. CASE ~HasFlat(c) /\ c.object.is = "absent"
  <2>1. Lift(c) = c /\ c.channel = Absent
    BY <1>4 DEF Lift, HasFlat
  <2> QED
    BY <1>4, <2>1 DEF Written, Says
<1>5. c.object.is \in {"absent", "null", "scalar", "object"}
  BY <1>0 DEF Objects
<1> QED
  BY <1>1, <1>2, <1>3, <1>4, <1>5 DEF LiftRaises

\* A candidate that was accepted is found good and left as it is.
LEMMA AcceptedIsOk ==
  ASSUME NEW p, Accepted(p), p # Nothing, NEW source \in Sources
  PROVE  Candidate(source, p) =
           [source |-> source, status |-> "ok", resolved |-> p, attempted |-> p]
BY DEF Accepted, ValidTuple, Candidate

\* Any candidate.
LEMMA CandidateTyped ==
  ASSUME NEW p \in Pair, NEW source \in Sources
  PROVE  /\ Candidate(source, p) \in Resolution
         /\ Candidate(source, p).source = source
         /\ Candidate(source, p).status = "ok" => Candidate(source, p).resolved = NormalPair(p)
BY NormalTwice, NothingAccepted DEF Candidate, Resolution, Accepted

\* The daemon takes what the version wants, and only the recipient's own row can be
\* invalid.
LEMMA ResolveWanted ==
  ASSUME NEW o, Accepted(o), NEW c, Accepted(c), NEW own \in Pair
  PROVE  LET d == Resolve(o, c, own)
             w == IF o # Nothing THEN o ELSE c
         IN /\ d \in Resolution
            /\ d.status = "invalid" => d.source = "recipient_default"
            /\ ProvenanceComplete(d) => d.resolved = IF w # Nothing THEN w ELSE NormalPair(own)
<1> DEFINE d == Resolve(o, c, own)
<1>1. NormalPair(o) = o /\ NormalPair(c) = c /\ o \in Pair /\ c \in Pair
  BY DEF Accepted
<1>2. CASE o # Nothing
  <2>1. d = [source |-> "event_override", status |-> "ok", resolved |-> o, attempted |-> o]
    BY <1>1, <1>2, AcceptedIsOk DEF Resolve, Sources
  <2> QED
    BY <1>1, <1>2, <2>1 DEF Resolution, Sources
<1>3. CASE o = Nothing /\ c # Nothing
  <2>1. d = [source |-> "request_context_default", status |-> "ok", resolved |-> c, attempted |-> c]
    BY <1>1, <1>3, AcceptedIsOk DEF Resolve, Sources
  <2> QED
    BY <1>1, <1>3, <2>1 DEF Resolution, Sources
<1>4. CASE o = Nothing /\ c = Nothing /\ NormalPair(own) # Nothing
  <2>1. d = Candidate("recipient_default", own)
    BY <1>1, <1>4 DEF Resolve
  <2> QED
    BY <1>4, <2>1, CandidateTyped DEF ProvenanceComplete, Sources
<1>5. CASE o = Nothing /\ c = Nothing /\ NormalPair(own) = Nothing
  <2>1. d = [source |-> "none", status |-> "missing", resolved |-> Nothing, attempted |-> Nothing]
    BY <1>1, <1>5 DEF Resolve
  <2> QED
    BY <1>5, <2>1, NothingAccepted DEF ProvenanceComplete, Resolution, Sources, Accepted
<1> QED
  BY <1>2, <1>3, <1>4, <1>5

-----------------------------------------------------------------------------
(* The seam *)

\* What the send function makes of any reply: its code is text, its reference is
\* verifiable or null, and a success has a strength.
GatewayResponses ==
  {r \in [class : Classes, code : {"text"}, ref : {"real", "null"}, strength : Strengths] :
     r.class = "success" => r.strength # "none"}

\* The results the adapter makes of them, and the one it makes itself.
AdapterResults == {Mapped(r) : r \in GatewayResponses} \cup {Blocking("FAILED_CAPABILITY_UNSUPPORTED")}

LEMMA ResponseTyped ==
  ASSUME NEW reply \in Replies, Responds(reply) PROVE Response(reply) \in GatewayResponses
<1>1. CASE reply.is = "failed"
  <2>1. Response(reply) = [class |-> FailureClass(reply.hints), code |-> "text", ref |-> "null",
                           strength |-> "none"]
    BY <1>1 DEF Response, Failure
  <2>2. FailureClass(reply.hints) \in {"transient", "blocked", "suppressed", "permanent"}
    BY DEF FailureClass
  <2> QED
    BY <2>1, <2>2 DEF GatewayResponses, Classes, Strengths
<1>2. CASE reply.is # "failed"
  <2>1. \E ref \in {"real", "null"}, strength \in {"confirmed", "accepted"} :
          Response(reply) = [class |-> "success", code |-> "text", ref |-> ref, strength |-> strength]
    BY <1>2 DEF Response, Normalised
  <2>2. PICK ref \in {"real", "null"}, strength \in {"confirmed", "accepted"} :
          Response(reply) = [class |-> "success", code |-> "text", ref |-> ref, strength |-> strength]
    BY <2>1
  <2>3. Response(reply) \in
          [class : Classes, code : {"text"}, ref : {"real", "null"}, strength : Strengths]
    BY <2>2 DEF Classes, Strengths
  <2>4. /\ Response(reply).class = "success" /\ Response(reply).code = "text"
        /\ Response(reply).ref = ref /\ Response(reply).strength = strength
    BY <2>2
  <2> QED
    BY <2>3, <2>4 DEF GatewayResponses
<1> QED
  BY <1>1, <1>2

\* A result of the adapter and the verdict about it.
LEMMA ResultsJudged ==
  ASSUME NEW x \in AdapterResults
  PROVE  /\ Verdict(Returned(x)) \in Reasons \ {SeamGap}
         /\ x = Blocking("FAILED_CAPABILITY_UNSUPPORTED") => Verdict(Returned(x)) \notin Went
<1> DEFINE a == Returned(x)
<1>0. a.is = "result" /\ a.result = x
  BY DEF Returned
<1>1. CASE x = Blocking("FAILED_CAPABILITY_UNSUPPORTED")
  <2>1. /\ x.status = "BLOCKED" /\ x.reason = "FAILED_CAPABILITY_UNSUPPORTED"
        /\ x.code = "null" /\ x.ref = "null" /\ ~x.acceptOnly
    BY <1>1 DEF Blocking
  <2>2. ~WeakTuple(x) /\ ~AcceptMode(x) /\ ~EvidenceOk(x) /\ MappingValid(x)
    BY <2>1 DEF WeakTuple, AcceptMode, EvidenceOk, MappingValid
  <2>3. Branch(a) = "B"
    BY <1>0, <2>2 DEF Branch, TokenOf, SeamTokens
  <2>4. ~V12Violated(a) /\ ~ErrataViolated(a)
    BY <1>0, <2>1, <2>2, <2>3 DEF V12Violated, ErrataViolated, ClassifiedValid
  <2>5. Verdict(a) = "FAILED_ADAPTER_RESULT_INVALID"
    BY <2>3, <2>4 DEF Verdict, ReasonOfBranch
  <2> QED
    BY <2>5 DEF Reasons, ReasonOfBranch, SeamGap, Went
<1>2. CASE \E r \in GatewayResponses : x = Mapped(r)
  <2>1. PICK r \in GatewayResponses : x = Mapped(r)
    BY <1>2
  <2>2. /\ x.status = StatusOfClass(r.class) /\ x.reason = ReasonOfClass(r.class)
        /\ x.code = "text" /\ x.ref = r.ref /\ x.confidence = Confidence(r)
        /\ x.acceptOnly = (Confidence(r) = "provider_accepted")
    BY <2>1 DEF Mapped, GatewayResponses
  <2>4. CASE r.class = "success"
    <3>1. /\ x.status = "DELIVERED" /\ x.reason = "DELIVERED_SUCCESS"
          /\ x.confidence \in {"provider_confirmed", "provider_accepted"}
          /\ x.acceptOnly <=> x.confidence = "provider_accepted"
          /\ x.ref \in {"real", "null"}
      BY <2>2, <2>4 DEF StatusOfClass, ReasonOfClass, Confidence, GatewayResponses,
                        Strengths
    <3>2. CASE x.ref = "real"
      <4>1. EvidenceOk(x) /\ ~AcceptMode(x)
        BY <2>2, <3>1, <3>2 DEF EvidenceOk, AcceptMode
      <4>2. Branch(a) = "NONE"
        BY <1>0, <4>1 DEF Branch
      <4>3. ~V12Violated(a)
        BY <1>0, <3>1, <4>2 DEF V12Violated
      <4> QED
        BY <1>0, <3>1, <4>1, <4>2, <4>3 DEF Verdict, Reasons, SeamGap, Blocking
    <3>3. CASE x.ref = "null" /\ x.confidence = "provider_accepted"
      <4>1. AcceptMode(x)
        BY <3>1, <3>3 DEF AcceptMode, WeakTuple
      <4>2. Branch(a) = "NONE"
        BY <1>0, <4>1 DEF Branch
      <4>3. ~V12Violated(a)
        BY <1>0, <3>1, <4>2 DEF V12Violated
      <4>4. x.status # "BLOCKED"
        BY <3>1
      <4> QED
        BY <1>0, <4>1, <4>2, <4>3, <4>4 DEF Verdict, Reasons, SeamGap, Blocking
    <3>4. CASE x.ref = "null" /\ x.confidence = "provider_confirmed"
      <4>1. ~WeakTuple(x) /\ ~AcceptMode(x) /\ ~EvidenceOk(x)
        BY <3>1, <3>4 DEF WeakTuple, AcceptMode, EvidenceOk
      <4>2. Branch(a) = "B"
        BY <1>0, <4>1 DEF Branch, TokenOf, SeamTokens
      <4>3. ~V12Violated(a) /\ ~ErrataViolated(a)
        BY <1>0, <3>4, <4>1, <4>2 DEF V12Violated, ErrataViolated, ClassifiedValid
      <4>4. x.status # "BLOCKED"
        BY <3>1
      <4> QED
        BY <4>2, <4>3, <4>4 DEF Verdict, Reasons, ReasonOfBranch, SeamGap, Blocking
    <3> QED
      BY <3>1, <3>2, <3>3, <3>4
  <2>5. CASE r.class # "success"
    <3>1. x.status # "DELIVERED" /\ x.reason # "DELIVERED_SUCCESS"
      BY <2>2, <2>5 DEF StatusOfClass, ReasonOfClass, GatewayResponses, Classes
    <3>2. ~WeakTuple(x) /\ ~AcceptMode(x) /\ ~EvidenceOk(x)
      BY <3>1 DEF WeakTuple, AcceptMode, EvidenceOk
    <3>3. Branch(a) = "B"
      BY <1>0, <3>2 DEF Branch, TokenOf, SeamTokens
    <3>4. ~V12Violated(a) /\ ~ErrataViolated(a)
      BY <1>0, <3>1, <3>2, <3>3 DEF V12Violated, ErrataViolated, ClassifiedValid
    <3>5. Verdict(a) = "FAILED_ADAPTER_RESULT_INVALID"
      BY <3>3, <3>4 DEF Verdict, ReasonOfBranch
    <3> QED
      BY <3>5 DEF Reasons, ReasonOfBranch, SeamGap, Went
  <2> QED
    BY <2>4, <2>5
<1> QED
  BY <1>1, <1>2 DEF AdapterResults

\* No result at all is branch A.
LEMMA RaisedJudged ==
  ASSUME NEW a \in {BoundaryError, OtherError}
  PROVE  Verdict(a) = "FAILED_ADAPTER_RESULT_MISSING"
<1>1. a.is # "result"
  <2>1. CASE a = BoundaryError
    BY <2>1 DEF BoundaryError
  <2>2. CASE a = OtherError
    BY <2>2 DEF OtherError
  <2> QED
    BY <2>1, <2>2
<1>2. Branch(a) = "A"
  BY <1>1 DEF Branch
<1>3. ~V12Violated(a) /\ ~ErrataViolated(a)
  BY <1>1, <1>2 DEF V12Violated, ErrataViolated
<1> QED
  BY <1>2, <1>3 DEF Verdict, ReasonOfBranch

\* Whatever the gateway does, the adapter returns a result of its own or none.
LEMMA AnswersTyped ==
  ASSUME NEW reply \in Replies
  PROVE  \/ Answered(reply) \in {BoundaryError, OtherError} /\ Answered(reply).is # "result"
         \/ \E x \in AdapterResults : Answered(reply) = Returned(x)
<1>1. reply.is \in {"noise", "hangs", "failed", "object"}
  BY DEF Replies
<1>2. CASE reply.is \in {"noise", "hangs"}
  BY <1>2 DEF Answered, BoundaryError, OtherError
<1>3. CASE reply.is \in {"failed", "object"}
  <2>1. Response(reply) \in GatewayResponses
    BY <1>3, ResponseTyped DEF Responds
  <2>2. Answered(reply) = AnsweredWith(Response(reply))
    BY <1>3 DEF Answered
  <2>3. Answered(reply) \in {OtherError, Returned(Mapped(Response(reply)))}
    BY <2>2 DEF AnsweredWith
  <2>4. CASE Answered(reply) = OtherError
    <3>1. OtherError.is # "result"
      BY DEF OtherError
    <3> QED
      BY <2>4, <3>1, Zenon
  <2>5. CASE Answered(reply) = Returned(Mapped(Response(reply)))
    BY <2>1, <2>5, Zenon DEF AdapterResults
  <2> QED
    BY <2>3, <2>4, <2>5
<1> QED
  BY <1>1, <1>2, <1>3

-----------------------------------------------------------------------------
(* The invariant *)

InHand == {"send", "settle", "record"}

\* The columns are accepted destinations, and the last words of the intents.
Store ==
  \A v \in DOMAIN log :
    /\ Accepted(log[v].override) /\ Accepted(log[v].context)
    /\ LastWord("override", v) = {log[v].override} \ {Nothing}
    /\ LastWord("context", v) = {log[v].context} \ {Nothing}

WentThere(v, to) == [version |-> v, to |-> Address(to)] \in sent

\* What is remembered of a version can be judged, and if that is that it went out, it
\* went where the version wants it.
Memory ==
  /\ frozen = [v \in Versions |-> frozen[v]]
  /\ \A v \in Versions : frozen[v] # None =>
       /\ v \in DOMAIN log
       /\ Verdict(Returned(frozen[v])) \in Reasons \ {SeamGap}
       /\ Verdict(Returned(frozen[v])) \in Went /\ Wanted(v) # Nothing => WentThere(v, Wanted(v))

\* The object in hand.
Resolved ==
  /\ pc = "send" =>
       /\ ProvenanceComplete(dest) /\ dest.resolved.channel = "whatsapp"
       /\ \E t \in since : dest = Resolve(log[cur.version].override, log[cur.version].context,
                                          [channel |-> t.channel, ref |-> t.ref])
  /\ pc \in InHand /\ dest.status = "invalid" => dest.source = "recipient_default"
  /\ pc \notin InHand => dest = None
Judged ==
  /\ pc # "exit"
  /\ pc \in {"settle", "record"} /\ verdict \in Went /\ dest.resolved.channel = "whatsapp"
       /\ Wanted(cur.version) # Nothing => WentThere(cur.version, dest.resolved)

\* What is on record.
Books ==
  \A a \in attempts :
    /\ a.version \in DOMAIN log
    /\ a.dest.status = "invalid" => a.dest.source = "recipient_default"
    /\ a.reason \in Went /\ a.dest.resolved.channel = "whatsapp" /\ Wanted(a.version) # Nothing
         => WentThere(a.version, a.dest.resolved)

IInv == TypeOK /\ Store /\ Memory /\ Resolved /\ Judged /\ Books

\* What is asked for a version is what it wants.
LEMMA AskedIsWanted ==
  ASSUME Store, NEW v \in DOMAIN log PROVE AskedFor(v) = {Wanted(v)} \ {Nothing}
BY DEF Store, AskedFor, Wanted

\* The parts that a step keeps with what it leaves alone.
LEMMA StoreSame == ASSUME Store, UNCHANGED <<log, said>> PROVE Store'
BY DEF Store, LastWord

LEMMA MemorySame ==
  ASSUME Memory, UNCHANGED <<log, frozen>>, sent \subseteq sent' PROVE Memory'
BY DEF Memory, Wanted, WentThere

LEMMA BooksSame ==
  ASSUME Books, UNCHANGED <<log, attempts>>, sent \subseteq sent' PROVE Books'
BY DEF Books, Wanted, WentThere

\* A step of the environment.
LEMMA HandSame ==
  ASSUME Resolved, Judged, UNCHANGED <<log, local, sent>>, since \subseteq since'
  PROVE  Resolved' /\ Judged'
BY DEF local, Resolved, Judged, Wanted, WentThere

\* Init establishes the invariant.
LEMMA InitIInv == Init => IInv
<1> SUFFICES ASSUME Init PROVE IInv
  OBVIOUS
<1> USE DEF Init
<1>1. TypeOK
  <2>1. log = <<>> /\ reminder = <<>> /\ said = <<>> /\ Len(log) = 0
    OBVIOUS
  <2>2. /\ log \in Seq([override : Pair, context : Pair])
        /\ reminder \in Seq([status : Statuses, attempts : Nat])
        /\ said \in Seq([override : Carried, context : Carried])
    BY <2>1
  <2>3. Len(reminder) = Len(log) /\ Len(said) = Len(log) /\ Len(log) <= MaxVersions
    BY <2>1, OutboundAssumption
  <2>4. pc = "idle" /\ bypass \in BOOLEAN /\ locked \in BOOLEAN
    BY OutboundAssumption
  <2> QED
    BY <2>2, <2>3, <2>4 DEF TypeOK
<1>2. Store /\ Memory /\ Books
  BY DEF Store, Memory, Books
<1>3. Resolved /\ Judged
  BY DEF Resolved, Judged, InHand
<1> QED
  BY <1>1, <1>2, <1>3 DEF IInv

-----------------------------------------------------------------------------
(* A new version *)

\* The destination, unless there is none.
Sole(w) == {w} \ {Nothing}

\* The last word about a prefix in a sequence of payloads.
WordIn(words, prefix, v) ==
  {Spoken(words[i][prefix]) : i \in {j \in 1 .. v :
     /\ Says(words[j][prefix])
     /\ \A k \in (j + 1) .. v : ~ Says(words[k][prefix])}} \ {Nothing}

LEMMA WordMember ==
  ASSUME NEW words, NEW prefix, NEW v, NEW w
  PROVE  w \in WordIn(words, prefix, v) <=>
           /\ w # Nothing
           /\ \E i \in 1 .. v : /\ Says(words[i][prefix])
                                /\ \A k \in (i + 1) .. v : ~Says(words[k][prefix])
                                /\ w = Spoken(words[i][prefix])
BY DEF WordIn

\* It depends on the payloads up to that version only ...
LEMMA OldWords ==
  ASSUME NEW words, NEW more, NEW prefix, NEW v \in Nat,
         \A i \in 1 .. v : more[i] = words[i]
  PROVE  WordIn(more, prefix, v) = WordIn(words, prefix, v)
<1>1. \A w : w \in WordIn(more, prefix, v) <=> w \in WordIn(words, prefix, v)
  BY WordMember
<1> QED
  BY <1>1, Zenon

\* ... and a new one has the last word, or leaves it as it was.
LEMMA NewWords ==
  ASSUME NEW words, NEW more, NEW prefix, NEW n \in Nat, NEW m \in Nat, m = n + 1,
         \A i \in 1 .. n : more[i] = words[i]
  PROVE  /\ Says(more[m][prefix]) => WordIn(more, prefix, m) = Sole(Spoken(more[m][prefix]))
         /\ ~Says(more[m][prefix]) => WordIn(more, prefix, m) = WordIn(words, prefix, n)
<1>1. CASE Says(more[m][prefix])
  <2>1. \A w : w \in WordIn(more, prefix, m) <=> w \in Sole(Spoken(more[m][prefix]))
    <3> SUFFICES ASSUME NEW w
                 PROVE  w \in WordIn(more, prefix, m) <=>
                          w # Nothing /\ w = Spoken(more[m][prefix])
      BY DEF Sole
    <3>1. \A i \in 1 .. m :
            (\A k \in (i + 1) .. m : ~Says(more[k][prefix])) <=> i = m
      BY <1>1
    <3>2. m \in 1 .. m
      OBVIOUS
    <3> QED
      BY <1>1, <3>1, <3>2, WordMember DEF Sole
  <2> QED
    BY <1>1, <2>1, Zenon
<1>2. CASE ~Says(more[m][prefix])
  <2>1. \A w : w \in WordIn(more, prefix, m) <=> w \in WordIn(words, prefix, n)
    <3> SUFFICES ASSUME NEW w
                 PROVE  w \in WordIn(more, prefix, m) <=> w \in WordIn(words, prefix, n)
      OBVIOUS
    <3>1. ASSUME NEW i \in 1 .. n
          PROVE  /\ i \in 1 .. m /\ more[i] = words[i]
                 /\ (\A k \in (i + 1) .. m : ~Says(more[k][prefix])) <=>
                      (\A k \in (i + 1) .. n : ~Says(words[k][prefix]))
      BY <1>2
    <3>2. \A i \in 1 .. m : Says(more[i][prefix]) => i \in 1 .. n
      BY <1>2
    <3> QED
      BY <3>1, <3>2, WordMember
  <2> QED
    BY <1>2, <2>1, Zenon
<1> QED
  BY <1>1, <1>2

\* The columns before the new version.
LEMMA LatestWord ==
  ASSUME TypeOK, Store
  PROVE  /\ Accepted(Latest.override) /\ Accepted(Latest.context)
         /\ WordIn(said, "override", Len(log)) = {Latest.override} \ {Nothing}
         /\ WordIn(said, "context", Len(log)) = {Latest.context} \ {Nothing}
<1> DEFINE n == Len(log)
<1>0. n \in Nat /\ DOMAIN log = 1 .. n /\ (log = <<>> <=> n = 0)
  BY DEF TypeOK
<1>1. CASE n = 0
  <2>1. Latest = [override |-> Nothing, context |-> Nothing]
    BY <1>0, <1>1 DEF Latest
  <2>2. WordIn(said, "override", n) = {} /\ WordIn(said, "context", n) = {}
    BY <1>1, WordMember
  <2> QED
    BY <2>1, <2>2, NothingAccepted
<1>2. CASE n # 0
  <2>1. Latest = log[n] /\ n \in DOMAIN log
    BY <1>0, <1>2 DEF Latest
  <2>2. /\ LastWord("override", n) = WordIn(said, "override", n)
        /\ LastWord("context", n) = WordIn(said, "context", n)
    BY DEF LastWord, WordIn
  <2> QED
    BY <2>1, <2>2 DEF Store
<1> QED
  BY <1>1, <1>2

\* A version that holds what its intent says, or what the newest one held.
LEMMA AppendedKeeps ==
  ASSUME IInv, NEW version \in [override : Pair, context : Pair],
         NEW payload \in [override : Carried, context : Carried], NEW status \in Statuses,
         Appended(version, payload, status),
         Accepted(version.override), Accepted(version.context),
         version.override = IF Says(payload.override) THEN Spoken(payload.override)
                                                      ELSE Latest.override,
         version.context = IF Says(payload.context) THEN Spoken(payload.context)
                                                    ELSE Latest.context
  PROVE  IInv'
<1> DEFINE n == Len(log)
<1>0. /\ n \in Nat /\ Len(said) = n /\ Len(reminder) = n /\ n < MaxVersions /\ MaxVersions \in Nat
      /\ log \in Seq([override : Pair, context : Pair])
      /\ said \in Seq([override : Carried, context : Carried])
      /\ reminder \in Seq([status : Statuses, attempts : Nat])
  BY OutboundAssumption DEF IInv, TypeOK, Appended
<1>1. /\ log' = Append(log, version) /\ said' = Append(said, payload)
      /\ reminder' = Append([v \in DOMAIN reminder |-> Invalidated(v)],
                            [status |-> status, attempts |-> 0])
      /\ UNCHANGED <<target, attempts, due, process, since, sent, changes, faults>>
  BY DEF Appended
<1>2. /\ DOMAIN log = 1 .. n /\ DOMAIN log' = 1 .. n + 1
      /\ \A v \in 1 .. n : log'[v] = log[v] /\ said'[v] = said[v]
      /\ log'[n + 1] = version /\ said'[n + 1] = payload
  BY <1>0, <1>1
<1>3. TypeOK'
  <2>1. /\ log' \in Seq([override : Pair, context : Pair])
        /\ said' \in Seq([override : Carried, context : Carried])
        /\ Len(log') = n + 1 /\ Len(said') = n + 1
    BY <1>0, <1>1
  <2>2. reminder' \in Seq([status : Statuses, attempts : Nat]) /\ Len(reminder') = n + 1
    <3> DEFINE swept == [v \in DOMAIN reminder |-> Invalidated(v)]
    <3>0. DOMAIN reminder = 1 .. n
      BY <1>0
    <3>1. \A v \in 1 .. n : reminder[v] \in [status : Statuses, attempts : Nat]
      BY <1>0, <3>0, ElementOfSeq
    <3>2. \A v \in 1 .. n : Invalidated(v) \in [status : Statuses, attempts : Nat]
      BY <3>1 DEF Invalidated, Statuses
    <3>3. swept \in Seq([status : Statuses, attempts : Nat]) /\ Len(swept) = n
      BY <1>0, <3>0, <3>1, <3>2
    <3> HIDE DEF swept
    <3>4. [status |-> status, attempts |-> 0] \in [status : Statuses, attempts : Nat]
      OBVIOUS
    <3> QED
      BY <1>0, <1>1, <3>3, <3>4 DEF swept
  <2>3. due' \subseteq DOMAIN log' /\ todo' \subseteq {o \in Object : o.version \in DOMAIN log'}
    BY <1>1, <1>2 DEF IInv, TypeOK, process, local
  <2>4. pc' \in {"send", "settle", "record"} =>
          cur' \in Object /\ cur'.version \in DOMAIN log' /\ dest' \in Resolution
    BY <1>1, <1>2 DEF IInv, TypeOK, process, local
  <2> QED
    BY <1>0, <1>1, <2>1, <2>2, <2>3, <2>4 DEF IInv, TypeOK, process, local
<1>4. Store'
  <2>1. /\ WordIn(said, "override", n) = {Latest.override} \ {Nothing}
        /\ WordIn(said, "context", n) = {Latest.context} \ {Nothing}
    BY LatestWord DEF IInv
  <2>2. /\ WordIn(said', "override", n + 1) = {version.override} \ {Nothing}
        /\ WordIn(said', "context", n + 1) = {version.context} \ {Nothing}
    <3>0. n \in Nat /\ said'[n + 1] = payload /\ \A i \in 1 .. n : said'[i] = said[i]
      BY <1>0, <1>2
    <3>4. PICK m \in Nat : m = n + 1
      BY <3>0
    <3>3. ASSUME NEW prefix
          PROVE  /\ Says(said'[m][prefix]) => WordIn(said', prefix, m) = Sole(Spoken(said'[m][prefix]))
                 /\ ~Says(said'[m][prefix]) => WordIn(said', prefix, m) = WordIn(said, prefix, n)
      <4> HIDE DEF n
      <4> QED
        BY <3>0, <3>4, NewWords
    <3>1. /\ Says(payload["override"]) => WordIn(said', "override", n + 1) = Sole(Spoken(payload["override"]))
          /\ ~Says(payload["override"]) => WordIn(said', "override", n + 1) = WordIn(said, "override", n)
          /\ Says(payload["context"]) => WordIn(said', "context", n + 1) = Sole(Spoken(payload["context"]))
          /\ ~Says(payload["context"]) => WordIn(said', "context", n + 1) = WordIn(said, "context", n)
      BY <3>0, <3>3, <3>4
    <3>2. payload["override"] = payload.override /\ payload["context"] = payload.context
      BY Zenon
    <3> QED
      BY <2>1, <3>1, <3>2 DEF Sole
  <2>3. ASSUME NEW v \in 1 .. n
        PROVE  /\ WordIn(said', "override", v) = WordIn(said, "override", v)
               /\ WordIn(said', "context", v) = WordIn(said, "context", v)
    <3>1. v \in Nat /\ \A i \in 1 .. v : said'[i] = said[i]
      BY <1>0, <1>2
    <3> QED
      BY <3>1, OldWords
  <2> SUFFICES ASSUME NEW v \in DOMAIN log'
               PROVE  /\ Accepted(log'[v].override) /\ Accepted(log'[v].context)
                      /\ WordIn(said', "override", v) = {log'[v].override} \ {Nothing}
                      /\ WordIn(said', "context", v) = {log'[v].context} \ {Nothing}
    BY DEF Store, LastWord, WordIn
  <2>4. CASE v = n + 1
    BY <1>2, <2>2, <2>4
  <2>5. CASE v \in 1 .. n
    <3>1. v \in DOMAIN log /\ log'[v] = log[v]
      BY <1>2, <2>5
    <3>2. /\ LastWord("override", v) = WordIn(said, "override", v)
          /\ LastWord("context", v) = WordIn(said, "context", v)
      BY DEF LastWord, WordIn
    <3> QED
      BY <2>3, <2>5, <3>1, <3>2 DEF IInv, Store
  <2> QED
    BY <1>0, <1>2, <2>4, <2>5
<1>5. \A v \in DOMAIN log : v \in DOMAIN log' /\ log'[v] = log[v] /\ Wanted(v)' = Wanted(v)
  BY <1>0, <1>2 DEF Wanted
<1>6. Memory'
  BY <1>1, <1>5 DEF IInv, Memory, WentThere, process
<1>7. Resolved' /\ Judged'
  <2>1. pc \in InHand => cur.version \in DOMAIN log
    BY DEF IInv, TypeOK, InHand
  <2> QED
    BY <1>1, <1>5, <2>1 DEF IInv, Resolved, Judged, WentThere, process, local, InHand
<1>8. Books'
  BY <1>1, <1>5 DEF IInv, Books, WentThere
<1> QED
  BY <1>3, <1>4, <1>6, <1>7, <1>8 DEF IInv

\* An intent that is accepted makes such a version ...
LEMMA IntentStep == ASSUME IInv, NEW p \in Payloads, ProcessIntent(p) PROVE IInv'
<1> DEFINE override == Lift(p.override)
           context == Lift(p.context)
           version == [override |-> Written(override, Latest.override),
                       context |-> Written(context, Latest.context)]
<1>1. /\ ~LiftRaises(p.override) /\ ~LiftRaises(p.context)
      /\ Writable(override) /\ Writable(context)
      /\ Appended(version, p, IF target.zone THEN "scheduled" ELSE "blocked")
  BY DEF ProcessIntent
<1>2. p \in [override : Carried, context : Carried] /\ p.override \in Carried /\ p.context \in Carried
  BY OutboundAssumption
<1>3. Accepted(Latest.override) /\ Accepted(Latest.context)
  BY LatestWord DEF IInv
<1>4. /\ version.override = IF Says(p.override) THEN Spoken(p.override) ELSE Latest.override
      /\ version.context = IF Says(p.context) THEN Spoken(p.context) ELSE Latest.context
      /\ Says(p.override) => Accepted(Spoken(p.override))
      /\ Says(p.context) => Accepted(Spoken(p.context))
  BY <1>1, <1>2, WrittenIsSpoken
<1>5. Accepted(version.override) /\ Accepted(version.context)
  BY <1>3, <1>4
<1>6. version \in [override : Pair, context : Pair]
  BY <1>5 DEF Accepted
<1>7. (IF target.zone THEN "scheduled" ELSE "blocked") \in Statuses
  BY DEF Statuses
<1> HIDE DEF version
<1> QED
  BY <1>1, <1>2, <1>4, <1>5, <1>6, <1>7, AppendedKeeps

\* ... and so does a cancellation, which says nothing.
LEMMA CancelStep == ASSUME IInv, CancelEvent PROVE IInv'
<1>1. Silent \in [override : Carried, context : Carried]
  BY DEF Silent, Flat, Carried, Objects
<1>2. ~Says(Silent.override) /\ ~Says(Silent.context)
  BY DEF Silent, Flat, Says, HasFlat
<1>3. Accepted(Latest.override) /\ Accepted(Latest.context)
  BY LatestWord DEF IInv
<1>4. Latest \in [override : Pair, context : Pair]
  <2>1. CASE log = <<>>
    BY <2>1, NothingAccepted DEF Latest, Accepted
  <2>2. CASE log # <<>>
    <3>1. Len(log) \in 1 .. Len(log) /\ log \in Seq([override : Pair, context : Pair])
      BY <2>2 DEF IInv, TypeOK
    <3> QED
      BY <2>2, <3>1, ElementOfSeq DEF Latest
  <2> QED
    BY <2>1, <2>2
<1>5. Appended(Latest, Silent, "none") /\ "none" \in Statuses
  BY DEF CancelEvent, Statuses
<1> QED
  BY <1>1, <1>2, <1>3, <1>4, <1>5, AppendedKeeps

-----------------------------------------------------------------------------
(* The environment and the start of a cycle *)

\* A registration, or the passing of a trigger.
LEMMA RegisterStep == ASSUME IInv, NEW t \in Registered, RegisterTarget(t) PROVE IInv'
<1> USE DEF RegisterTarget, process
<1>1. TypeOK'
  <2>1. since' \subseteq Registered /\ target' \in Registered /\ changes' \in Nat
    BY DEF IInv, TypeOK
  <2> QED
    BY <2>1 DEF IInv, TypeOK, local
<1> QED
  BY <1>1, StoreSame, MemorySame, BooksSame, HandSame DEF IInv

LEMMA DueStep == ASSUME IInv, NEW v \in Versions, Due(v) PROVE IInv'
<1> USE DEF Due, db, process, history
<1>1. TypeOK'
  <2>1. due' \subseteq DOMAIN log
    BY DEF IInv, TypeOK
  <2> QED
    BY <2>1 DEF IInv, TypeOK, local
<1> QED
  BY <1>1, StoreSame, MemorySame, BooksSame, HandSame DEF IInv

\* What is listed are objects of versions that are there.
LEMMA ListStep == ASSUME IInv, List PROVE IInv'
<1> USE DEF List, db, history
<1>1. TypeOK'
  <2>1. ASSUME NEW v \in Listed
        PROVE  [version |-> v, attempts |-> reminder[v].attempts] \in Object /\ v \in DOMAIN log
    <3>1. v \in DOMAIN log /\ DOMAIN log = 1 .. Len(log) /\ Len(log) \in Nat
          /\ Len(reminder) = Len(log) /\ Len(log) <= MaxVersions
          /\ reminder \in Seq([status : Statuses, attempts : Nat])
      BY DEF IInv, TypeOK, Listed
    <3>2. reminder[v] \in [status : Statuses, attempts : Nat]
      BY <3>1, ElementOfSeq
    <3>3. v \in Versions
      BY <3>1, OutboundAssumption DEF Versions
    <3> QED
      BY <3>1, <3>2, <3>3 DEF Object
  <2>2. todo' \subseteq {o \in Object : o.version \in DOMAIN log}
    BY <2>1
  <2> QED
    BY <2>2 DEF IInv, TypeOK
<1>2. Resolved' /\ Judged'
  BY DEF IInv, Resolved, Judged, InHand
<1> QED
  BY <1>1, <1>2, StoreSame, MemorySame, BooksSame DEF IInv

\* The row of a reminder is written.
LEMMA RowTyped ==
  ASSUME TypeOK, NEW v \in DOMAIN log, NEW status \in Statuses, NEW n \in Nat
  PROVE  LET r == [reminder EXCEPT ![v] = [status |-> status, attempts |-> n]] IN
         r \in Seq([status : Statuses, attempts : Nat]) /\ Len(r) = Len(reminder)
<1> DEFINE row == [status |-> status, attempts |-> n]
<1>1. row \in [status : Statuses, attempts : Nat]
  OBVIOUS
<1>2. v \in 1 .. Len(reminder) /\ reminder \in Seq([status : Statuses, attempts : Nat])
  BY DEF TypeOK
<1> HIDE DEF row
<1> QED
  BY <1>1, <1>2, ExceptSeq DEF row

\* An object that is listed: its version is there, and so are its destinations.
LEMMA ListedObject ==
  ASSUME IInv, NEW o \in todo
  PROVE  /\ o \in Object /\ o.version \in DOMAIN log /\ o.version \in Versions /\ o.attempts \in Nat
         /\ Accepted(log[o.version].override) /\ Accepted(log[o.version].context)
         /\ Own \in Pair
<1>1. o \in Object /\ o.version \in DOMAIN log
  BY DEF IInv, TypeOK
<1>2. target \in [channel : Values, ref : Values \ TooLong, zone : BOOLEAN]
  BY OutboundAssumption DEF IInv, TypeOK
<1> QED
  BY <1>1, <1>2 DEF IInv, Store, Object, Own, Pair

LEMMA UnzonedStep == ASSUME IInv, NEW o \in todo, TakeUnzoned(o) PROVE IInv'
<1> USE DEF TakeUnzoned, TakeUp
<1>1. TypeOK'
  <2>1. dest' \in Resolution
    BY NothingAccepted DEF Resolution, Sources, Accepted
  <2>2. since' \subseteq Registered /\ todo' \subseteq todo
    BY DEF IInv, TypeOK
  <2>3. verdict' \in Reasons \ {SeamGap}
    BY DEF Reasons, SeamGap
  <2> QED
    BY <2>1, <2>2, <2>3, ListedObject DEF IInv, TypeOK
<1>2. Resolved' /\ Judged'
  BY DEF IInv, Resolved, Judged, InHand, Went
<1> QED
  BY <1>1, <1>2, StoreSame, MemorySame, BooksSame DEF IInv

\* The destination that is resolved is the one the version wants, or the row's.
LEMMA TakeStep == ASSUME IInv, NEW o \in todo, Take(o) PROVE IInv'
<1> DEFINE d == Resolve(log[o.version].override, log[o.version].context, Own)
<1>0. /\ todo' = todo \ {o} /\ since' = {target}
      /\ cur' = [o EXCEPT !.attempts = @ + 1]
      /\ reminder' = [reminder EXCEPT ![o.version] =
                        [status |-> "attempted", attempts |-> o.attempts + 1]]
      /\ locked' = FALSE /\ dest' = d
      /\ UNCHANGED <<log, target, attempts, due, frozen, bypass, said, sent, changes, faults>>
  BY DEF Take, TakeUp
<1>1. /\ o \in Object /\ o.version \in DOMAIN log /\ o.version \in Versions /\ o.attempts \in Nat
      /\ Accepted(log[o.version].override) /\ Accepted(log[o.version].context) /\ Own \in Pair
  BY ListedObject
<1>2. d \in Resolution /\ (d.status = "invalid" => d.source = "recipient_default")
  BY <1>1, ResolveWanted
<1>3. \/ pc' = "settle" /\ verdict' = "FAILED_CONFIG_INVALID_TARGET"
      \/ pc' = "settle" /\ verdict' = "DELIVERED_SUCCESS" /\ d.resolved.channel # "whatsapp"
      \/ pc' = "settle" /\ verdict' = "FAILED_ADAPTER_RESULT_MISSING"
      \/ pc' = "send" /\ ProvenanceComplete(d) /\ d.resolved.channel = "whatsapp"
  BY RaisedJudged, Zenon DEF Take
<1> HIDE DEF d
<1>4. cur' \in Object /\ cur'.version = o.version
  BY <1>0, <1>1 DEF Object
<1>5. TypeOK'
  <2>1. o.attempts + 1 \in Nat /\ "attempted" \in Statuses
    BY <1>1 DEF Statuses
  <2>2. reminder' \in Seq([status : Statuses, attempts : Nat]) /\ Len(reminder') = Len(reminder)
    BY <1>0, <1>1, <2>1, RowTyped DEF IInv
  <2>3. since' \subseteq Registered /\ todo' \subseteq todo
    BY <1>0 DEF IInv, TypeOK
  <2>4. pc' \in {"settle", "send"} /\ (pc' = "settle" => verdict' \in Reasons \ {SeamGap})
    BY <1>3 DEF Reasons, ReasonOfBranch, SeamGap
  <2> QED
    BY <1>0, <1>1, <1>2, <1>4, <2>2, <2>3, <2>4 DEF IInv, TypeOK
<1>6. Resolved'
  <2>1. pc' = "send" =>
          dest' = Resolve(log'[cur'.version].override, log'[cur'.version].context,
                          [channel |-> target.channel, ref |-> target.ref])
    BY <1>0, <1>4 DEF d, Own
  <2> QED
    BY <1>0, <1>2, <1>3, <2>1 DEF Resolved, InHand
<1>7. Judged'
  BY <1>0, <1>3 DEF Judged, Went
<1> QED
  BY <1>0, <1>5, <1>6, <1>7, StoreSame, MemorySame, BooksSame DEF IInv

-----------------------------------------------------------------------------
(* The send *)

\* What is resolved in "send" is what the version wants, or the row of a target that
\* stood since.
LEMMA SendWanted ==
  ASSUME IInv, pc = "send"
  PROVE  /\ cur \in Object /\ cur.version \in DOMAIN log /\ cur.version \in Versions
         /\ dest \in Resolution /\ dest.resolved.channel = "whatsapp"
         /\ Wanted(cur.version) # Nothing => dest.resolved = Wanted(cur.version)
         /\ Wanted(cur.version) = Nothing =>
              \E t \in since : dest.resolved = NormalPair([channel |-> t.channel, ref |-> t.ref])
<1>1. cur \in Object /\ cur.version \in DOMAIN log /\ dest \in Resolution
  BY DEF IInv, TypeOK
<1>2. PICK t \in since : dest = Resolve(log[cur.version].override, log[cur.version].context,
                                        [channel |-> t.channel, ref |-> t.ref])
  BY DEF IInv, Resolved
<1>3. /\ Accepted(log[cur.version].override) /\ Accepted(log[cur.version].context)
      /\ ProvenanceComplete(dest) /\ dest.resolved.channel = "whatsapp"
  BY <1>1 DEF IInv, Store, Resolved
<1> DEFINE own == [channel |-> t.channel, ref |-> t.ref]
<1>4. own \in Pair
  <2>1. t \in [channel : Values, ref : Values \ TooLong, zone : BOOLEAN]
    BY OutboundAssumption DEF IInv, TypeOK
  <2> QED
    BY <2>1 DEF Pair
<1> HIDE DEF own
<1>5. dest.resolved = IF Wanted(cur.version) # Nothing THEN Wanted(cur.version) ELSE NormalPair(own)
  BY <1>2, <1>3, <1>4, ResolveWanted DEF own, Wanted
<1> QED
  BY <1>1, <1>3, <1>5 DEF own, Object

\* A result is remembered for the version in hand.
LEMMA RememberKeeps ==
  ASSUME IInv, pc = "send", NEW x \in AdapterResults, frozen' = [frozen EXCEPT ![cur.version] = x],
         UNCHANGED log, sent \subseteq sent',
         Verdict(Returned(x)) \in Went => WentThere(cur.version, dest.resolved)'
             \/ x = Blocking("FAILED_CAPABILITY_UNSUPPORTED"),
         UNCHANGED <<cur, dest>>
  PROVE  Memory'
<1>1. /\ cur.version \in DOMAIN log /\ cur.version \in Versions
      /\ Wanted(cur.version) # Nothing => dest.resolved = Wanted(cur.version)
  BY SendWanted
<1>2. /\ Verdict(Returned(x)) \in Reasons \ {SeamGap}
      /\ x = Blocking("FAILED_CAPABILITY_UNSUPPORTED") => Verdict(Returned(x)) \notin Went
  BY ResultsJudged
<1>3. frozen' = [v \in Versions |-> frozen'[v]]
  BY DEF IInv, Memory
<1>4. ASSUME NEW v \in Versions, frozen'[v] # None
      PROVE  /\ v \in DOMAIN log
             /\ Verdict(Returned(frozen'[v])) \in Reasons \ {SeamGap}
             /\ Verdict(Returned(frozen'[v])) \in Went /\ Wanted(v) # Nothing
                  => WentThere(v, Wanted(v))'
  <2>1. CASE v = cur.version
    <3>1. frozen'[v] = x
      BY <2>1 DEF IInv, Memory
    <3> QED
      BY <1>1, <1>2, <2>1, <3>1 DEF WentThere, Wanted
  <2>2. CASE v # cur.version
    <3>1. frozen'[v] = frozen[v]
      BY <2>2 DEF IInv, Memory
    <3> QED
      BY <1>4, <3>1 DEF IInv, Memory, WentThere, Wanted
  <2> QED
    BY <2>1, <2>2
<1> QED
  BY <1>3, <1>4 DEF Memory, Wanted

\* Replayed, refused or called: the verdict is no seam gap, and one that says it went
\* out has the call behind it.
LEMMA SendOutcome ==
  ASSUME IInv, Send
  PROVE  /\ verdict' \in Reasons \ {SeamGap}
         /\ verdict' \in Went /\ Wanted(cur.version) # Nothing =>
              WentThere(cur.version, dest.resolved)'
         /\ sent \subseteq sent'
         /\ sent' \subseteq sent \cup {[version |-> cur.version, to |-> Address(dest.resolved)]}
         /\ sent' # sent => Sendable(dest.resolved)
         /\ Memory'
<1>0. /\ pc = "send" /\ UNCHANGED <<log, cur, dest>>
      /\ Replay \/ Refuse \/ \E reply \in Answering : Call(reply)
  BY DEF Send, db
<1>1. /\ cur.version \in DOMAIN log /\ cur.version \in Versions
      /\ Wanted(cur.version) # Nothing => dest.resolved = Wanted(cur.version)
  BY <1>0, SendWanted
<1>2. CASE Replay
  <2>1. /\ frozen[cur.version] # None /\ verdict' = Verdict(Returned(frozen[cur.version]))
        /\ UNCHANGED <<frozen, sent>>
    BY <1>2 DEF Replay, Key
  <2>2. Memory'
    BY <1>0, <2>1, MemorySame DEF IInv
  <2> QED
    BY <1>0, <1>1, <2>1, <2>2 DEF IInv, Memory, WentThere
<1>3. CASE Refuse
  <2> DEFINE x == Blocking("FAILED_CAPABILITY_UNSUPPORTED")
  <2>1. frozen' = [frozen EXCEPT ![cur.version] = x] /\ verdict' = Verdict(Returned(x)) /\ UNCHANGED sent
    BY <1>3 DEF Refuse, Remember, Key
  <2>2. x \in AdapterResults
    BY DEF AdapterResults
  <2> HIDE DEF x
  <2>3. verdict' \in Reasons \ {SeamGap} /\ verdict' \notin Went
    BY <2>1, <2>2, ResultsJudged DEF x
  <2>4. Memory'
    BY <1>0, <2>1, <2>2, RememberKeeps DEF x
  <2> QED
    BY <2>1, <2>3, <2>4
<1>4. CASE \E reply \in Answering : Call(reply)
  <2>1. PICK reply \in Answering : Call(reply)
    BY <1>4
  <2>2. /\ Sendable(dest.resolved)
        /\ sent' = sent \cup {[version |-> cur.version, to |-> Address(dest.resolved)]}
        /\ verdict' = Verdict(Answered(reply))
        /\ IF Answered(reply).is = "result"
             THEN frozen' = [frozen EXCEPT ![cur.version] = Answered(reply).result]
             ELSE UNCHANGED frozen
    BY <2>1 DEF Call, Remember, Key
  <2>3. WentThere(cur.version, dest.resolved)'
    BY <1>0, <2>2 DEF WentThere
  <2>4. reply \in Replies
    BY OutboundAssumption
  <2>5. CASE Answered(reply) \in {BoundaryError, OtherError} /\ Answered(reply).is # "result"
    <3>1. verdict' = "FAILED_ADAPTER_RESULT_MISSING"
      BY <2>2, <2>5, RaisedJudged
    <3>2. Memory'
      BY <1>0, <2>2, <2>5, MemorySame DEF IInv
    <3> QED
      BY <2>2, <2>3, <3>1, <3>2 DEF Reasons, ReasonOfBranch, SeamGap
  <2>6. CASE \E x \in AdapterResults : Answered(reply) = Returned(x)
    <3>1. PICK x \in AdapterResults : Answered(reply) = Returned(x)
      BY <2>6
    <3>2. Answered(reply).is = "result" /\ Answered(reply).result = x
      BY <3>1 DEF Returned
    <3>3. verdict' \in Reasons \ {SeamGap}
      BY <2>2, <3>1, ResultsJudged
    <3>4. Memory'
      BY <1>0, <2>2, <2>3, <3>2, RememberKeeps
    <3> QED
      BY <2>2, <2>3, <3>3, <3>4
  <2> QED
    BY <2>4, <2>5, <2>6, AnswersTyped
<1> QED
  BY <1>0, <1>2, <1>3, <1>4

LEMMA SendStep == ASSUME IInv, Send PROVE IInv'
<1>0. /\ pc = "send" /\ pc' = IF verdict' = SeamGap THEN "exit" ELSE "settle"
      /\ UNCHANGED <<db, due, todo, cur, dest, bypass, locked, said, since, changes, faults>>
  BY DEF Send
<1>1. /\ verdict' \in Reasons \ {SeamGap} /\ pc' = "settle"
      /\ sent \subseteq sent' /\ Memory'
      /\ sent' \subseteq sent \cup {[version |-> cur.version, to |-> Address(dest.resolved)]}
      /\ sent' # sent => Sendable(dest.resolved)
  BY <1>0, SendOutcome
<1>2. cur \in Object /\ cur.version \in Versions /\ dest \in Resolution
  BY <1>0, SendWanted
<1>3. TypeOK'
  <2>1. Sendable(dest.resolved) => Address(dest.resolved) \in Values \cup {Null}
    BY <1>2, DestinationAssumption DEF Sendable, Address, Resolution, Pair
  <2>2. sent' \subseteq [version : Versions, to : Values \cup {Null}]
    BY <1>1, <1>2, <2>1 DEF IInv, TypeOK
  <2> QED
    BY <1>0, <1>1, <2>2 DEF IInv, TypeOK, db
<1>4. Resolved'
  BY <1>0, <1>1 DEF IInv, Resolved, InHand, db
<1>5. Judged'
  BY <1>0, <1>1, SendOutcome DEF Judged, WentThere, Wanted, db
<1>6. Store' /\ Books'
  BY <1>0, <1>1, StoreSame, BooksSame DEF IInv, db
<1> QED
  BY <1>1, <1>3, <1>4, <1>5, <1>6 DEF IInv

-----------------------------------------------------------------------------
(* The end of an attempt, and of a cycle *)

LEMMA SettleStep == ASSUME IInv, Settle PROVE IInv'
<1> DEFINE status == IF verdict = "DELIVERED_SUCCESS" THEN "delivered" ELSE "failed"
<1>0. /\ pc = "settle" /\ pc' = "record" /\ locked' = FALSE
      /\ reminder' = [reminder EXCEPT ![cur.version] = [status |-> status, attempts |-> cur.attempts]]
      /\ UNCHANGED <<log, target, attempts, due, todo, cur, dest, verdict, frozen, bypass>>
      /\ UNCHANGED <<said, since, sent, changes, faults>>
  BY DEF Settle, history
<1>1. TypeOK'
  <2>1. cur.version \in DOMAIN log /\ cur.attempts \in Nat /\ status \in Statuses
    BY <1>0 DEF IInv, TypeOK, Object, Statuses
  <2> HIDE DEF status
  <2>2. reminder' \in Seq([status : Statuses, attempts : Nat]) /\ Len(reminder') = Len(reminder)
    BY <1>0, <2>1, RowTyped DEF IInv
  <2> QED
    BY <1>0, <2>2 DEF IInv, TypeOK
<1>2. Resolved' /\ Judged'
  BY <1>0 DEF IInv, Resolved, Judged, InHand, WentThere, Wanted
<1> QED
  BY <1>0, <1>1, <1>2, StoreSame, MemorySame, BooksSame DEF IInv

\* The row says what is known of the object in hand.
LEMMA RecordStep == ASSUME IInv, Record PROVE IInv'
<1> DEFINE index == IF cur.attempts = 0 THEN 1 ELSE cur.attempts
           a == [version |-> cur.version, index |-> index, reason |-> verdict, dest |-> dest]
<1>0. /\ pc = "record" /\ pc' \in {"idle", "next"} /\ locked' = FALSE
      /\ attempts' = attempts \cup {a}
      /\ dest' = None
      /\ UNCHANGED <<log, reminder, target, due, todo, frozen, bypass>>
      /\ UNCHANGED <<said, since, sent, changes, faults>>
  BY DEF Record, Drop, history
<1>1. /\ cur.version \in DOMAIN log /\ cur.version \in Versions /\ cur.attempts \in Nat
      /\ dest \in Resolution /\ verdict \in Reasons
  BY <1>0 DEF IInv, TypeOK, Object
<1>2. a \in [version : Versions, index : Nat, reason : Reasons, dest : Resolution]
  BY <1>1
<1>3. Books'
  <2>1. /\ a.version = cur.version /\ a.dest = dest /\ a.reason = verdict
    OBVIOUS
  <2> HIDE DEF a
  <2>2. /\ a.version \in DOMAIN log
        /\ a.dest.status = "invalid" => a.dest.source = "recipient_default"
        /\ a.reason \in Went /\ a.dest.resolved.channel = "whatsapp" /\ Wanted(a.version) # Nothing
             => WentThere(a.version, a.dest.resolved)
    BY <1>0, <1>1, <2>1 DEF IInv, Resolved, Judged, InHand
  <2>3. \A v : Wanted(v)' = Wanted(v)
    BY <1>0 DEF Wanted
  <2> QED
    BY <1>0, <2>2, <2>3 DEF IInv, Books, WentThere
<1>4. TypeOK'
  BY <1>0, <1>2 DEF IInv, TypeOK
<1>5. Resolved' /\ Judged'
  BY <1>0 DEF Resolved, Judged, InHand
<1> QED
  BY <1>0, <1>3, <1>4, <1>5, StoreSame, MemorySame DEF IInv

\* A cycle is cut off, with or without the process.
LEMMA IdleKeeps ==
  ASSUME IInv, pc' = "idle", todo' = {}, dest' = None,
         UNCHANGED <<db, due, said, since, sent, changes>>,
         UNCHANGED frozen \/ frozen' = [v \in Versions |-> None],
         bypass' \in BOOLEAN, locked' \in BOOLEAN, faults' \in Nat
  PROVE  IInv'
<1>1. TypeOK'
  BY DEF IInv, TypeOK, db
<1>2. Resolved' /\ Judged'
  BY DEF Resolved, Judged, InHand
<1>3. Memory'
  BY DEF IInv, Memory, Wanted, WentThere, db
<1> QED
  BY <1>1, <1>2, <1>3, StoreSame, BooksSame DEF IInv, db

LEMMA CutOffSteps == ASSUME IInv, RecordFails \/ Abort \/ Crash PROVE IInv'
<1>0. bypass \in BOOLEAN /\ locked \in BOOLEAN /\ faults \in Nat
  BY DEF IInv, TypeOK
<1>1. CASE RecordFails
  BY <1>0, <1>1, IdleKeeps DEF RecordFails, Drop, history
<1>2. CASE Abort
  BY <1>0, <1>2, IdleKeeps DEF Abort, Drop
<1>3. CASE Crash
  <2>1. bypass' \in BOOLEAN /\ faults' \in Nat
    BY <1>0, <1>3, OutboundAssumption DEF Crash
  <2>2. locked' \in BOOLEAN
    BY <1>3 DEF Crash
  <2> QED
    BY <1>3, <2>1, <2>2, IdleKeeps DEF Crash, Drop
<1> QED
  BY <1>1, <1>2, <1>3

-----------------------------------------------------------------------------
(* The theorems *)

\* Every step keeps the invariant.
LEMMA NextIInv == IInv /\ [Next]_vars => IInv'
<1> SUFFICES ASSUME IInv, [Next]_vars PROVE IInv'
  OBVIOUS
<1>1. CASE UNCHANGED vars
  <2>1. TypeOK'
    BY <1>1 DEF vars, db, process, local, history, IInv, TypeOK
  <2> QED
    BY <1>1, <2>1, StoreSame, MemorySame, BooksSame, HandSame
       DEF vars, db, process, local, history, IInv
<1>2. CASE Next
  BY <1>2, IntentStep, CancelStep, RegisterStep, DueStep, ListStep, UnzonedStep, TakeStep,
     SendStep, SettleStep, RecordStep, CutOffSteps DEF Next
<1> QED
  BY <1>1, <1>2

\* The invariant holds for any values, intents, replies and bounds.
THEOREM InductiveInvariant == Spec => []IInv
<1> QED
  BY InitIInv, NextIInv, PTL DEF Spec

\* Type correctness of the versions, reminders, attempts and the object in hand.
THEOREM TypeCorrect == Spec => []TypeOK
<1>1. IInv => TypeOK
  BY DEF IInv
<1> QED
  BY <1>1, InductiveInvariant, PTL

\* The daemon's validation never refuses what intake's has let pass.
THEOREM AcceptedCorrect == Spec => []AcceptedResolves
<1>1. IInv => AcceptedResolves
  BY DEF IInv, Resolved, Books, AcceptedResolves
<1> QED
  BY <1>1, InductiveInvariant, PTL

\* No reply of the gateway, replayed or new, ends the daemon with a seam gap.
THEOREM NoGap == Spec => []NoSeamGap
<1>1. IInv => NoSeamGap
  BY DEF IInv, Judged, NoSeamGap
<1> QED
  BY <1>1, InductiveInvariant, PTL

\* An attempt that is on record as gone out, to a destination that was asked for, names
\* an address the gateway was called with.
THEOREM RecordCorrect == Spec => []AskedIsWhereSent
<1>1. IInv => AskedIsWhereSent
  <2> SUFFICES ASSUME IInv, NEW a \in attempts, a.reason \in Went,
                      a.dest.resolved.channel = "whatsapp", AskedFor(a.version) # {}
               PROVE  [version |-> a.version, to |-> Address(a.dest.resolved)] \in sent
    BY DEF AskedIsWhereSent
  <2>1. a.version \in DOMAIN log
    BY DEF IInv, Books
  <2>2. Wanted(a.version) # Nothing
    BY <2>1, AskedIsWanted DEF IInv
  <2> QED
    BY <2>2 DEF IInv, Books, WentThere
<1> QED
  BY <1>1, InductiveInvariant, PTL

\* Every message goes where the newest words about its event want it.
THEOREM SentCorrect == Spec => SentWhereAsked
<1> DEFINE A == \A s \in sent' \ sent :
                  IF AskedFor(s.version) # {}
                    THEN \E p \in AskedFor(s.version) : s.to = Address(p)
                    ELSE \E t \in since :
                           s.to = Address(NormalPair([channel |-> t.channel, ref |-> t.ref]))
<1>1. IInv /\ [Next]_vars => A
  <2> SUFFICES ASSUME IInv, [Next]_vars, NEW s \in sent' \ sent PROVE
                 IF AskedFor(s.version) # {}
                   THEN \E p \in AskedFor(s.version) : s.to = Address(p)
                   ELSE \E t \in since :
                          s.to = Address(NormalPair([channel |-> t.channel, ref |-> t.ref]))
    OBVIOUS
  <2>1. Send
    BY DEF Next, ProcessIntent, CancelEvent, Appended, RegisterTarget, Due, List, TakeUnzoned, Take,
           TakeUp, Settle, Record, RecordFails, Abort, Crash, vars, history
  <2>2. s = [version |-> cur.version, to |-> Address(dest.resolved)] /\ pc = "send"
    BY <2>1, SendOutcome DEF Send
  <2>3. s.version = cur.version /\ s.to = Address(dest.resolved)
    BY <2>2
  <2>4. /\ cur.version \in DOMAIN log
        /\ Wanted(cur.version) # Nothing => dest.resolved = Wanted(cur.version)
        /\ Wanted(cur.version) = Nothing =>
             \E t \in since : dest.resolved = NormalPair([channel |-> t.channel, ref |-> t.ref])
    BY <2>2, SendWanted
  <2>5. AskedFor(s.version) = {Wanted(cur.version)} \ {Nothing}
    BY <2>3, <2>4, AskedIsWanted DEF IInv
  <2>6. CASE Wanted(cur.version) # Nothing
    BY <2>3, <2>4, <2>5, <2>6
  <2>7. CASE Wanted(cur.version) = Nothing
    BY <2>3, <2>4, <2>5, <2>7
  <2> QED
    BY <2>6, <2>7
<1> QED
  BY <1>1, InductiveInvariant, PTL DEF Spec, SentWhereAsked
=============================================================================
