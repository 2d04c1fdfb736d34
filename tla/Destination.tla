---------------------------- MODULE Destination ----------------------------
(***************************************************************************)
(* Where a reminder goes.  An intent may carry two destinations, one for   *)
(* the event (event_override) and one from the conversation it came in     *)
(* (request_context_default); the engine normalises and validates them     *)
(* when it writes the event, the daemon again, by code of its own, when it *)
(* sends, with the recipient's own row as the last resort.  Between the    *)
(* two stand the CHECK constraints of migration 0005.                      *)
(*                                                                         *)
(* A value is any JSON scalar.  Of its text only this is told apart: what  *)
(* str.strip leaves of it, whether it is a channel, too long, has control  *)
(* characters, is an address that the adapter knows for whatsapp.          *)
(***************************************************************************)

CONSTANTS
  Values,      \* the scalars that occur
  Null,        \* JSON null, None, NULL
  Absent,      \* the key is not there
  Strip,       \* str(value).strip(), Null for the empty text
  Channels,    \* ALLOWED_DESTINATION_CHANNELS
  TooLong,     \* longer than TARGET_REF_MAX_LENGTH
  Unprintable, \* with control characters
  Canonical,   \* matched by WHATSAPP_CANONICAL_RE
  Bare         \* removeprefix("whatsapp:")

ASSUME DestinationAssumption ==
  /\ Null \notin Values /\ Absent \notin Values /\ Null # Absent
  /\ Strip \in [Values -> Values \cup {Null}]
  /\ \A v \in Values : Strip[v] # Null => Strip[Strip[v]] = Strip[v]
  /\ Channels \subseteq Values /\ TooLong \subseteq Values
  /\ Unprintable \subseteq Values /\ Canonical \subseteq Values
  /\ Bare \in [Canonical -> Values]

Pair == [channel : Values \cup {Null}, ref : Values \cup {Null}]
Nothing == [channel |-> Null, ref |-> Null]
BothSet(p) == p.channel # Null /\ p.ref # Null

\* _normalize_optional_string, and _normalize_destination_value of the daemon.
Normal(v) == IF v = Null THEN Null ELSE Strip[v]
NormalPair(p) == [channel |-> Normal(p.channel), ref |-> Normal(p.ref)]

-----------------------------------------------------------------------------
(* When it is written.  Of each of the two prefixes an intent carries two   *)
(* flat keys, or an object of that name.                                    *)

Objects == {[is |-> "absent"], [is |-> "null"], [is |-> "scalar"]}
             \cup [is : {"object"}, channel : Values \cup {Null, Absent},
                   ref : Values \cup {Null, Absent}]
Carried == [channel : Values \cup {Null, Absent}, ref : Values \cup {Null, Absent},
            object : Objects]
Flat(c, r) == [channel |-> c, ref |-> r, object |-> [is |-> "absent"]]

Get(v) == IF v = Absent THEN Null ELSE v

\* _normalize_destination_payload_shape: the object is lifted to the flat keys
\* unless one of them is there.  What is neither object nor null raises at once.
HasFlat(c) == c.channel # Absent \/ c.ref # Absent
LiftRaises(c) == ~HasFlat(c) /\ c.object.is = "scalar"
Lift(c) ==
  CASE ~HasFlat(c) /\ c.object.is = "null" -> Flat(Null, Null)
    [] ~HasFlat(c) /\ c.object.is = "object" -> Flat(Get(c.object.channel), Get(c.object.ref))
    [] OTHER -> c

\* A slip: control characters pass.
ValidNarrow(p) ==
  p = Nothing \/ (BothSet(p) /\ p.channel \in Channels /\ p.ref \notin TooLong)

\* _validate_destination_tuple, which raises DestinationValidationError or not.
ValidTuple(p) ==
  \/ p = Nothing
  \/ BothSet(p) /\ p.channel \in Channels /\ p.ref \notin TooLong /\ p.ref \notin Unprintable

\* _resolve_event_destination_fields, for one prefix: both keys or none; none
\* keeps what the event has, two nulls clear it.
Writable(c) ==
  /\ (c.channel = Absent) <=> (c.ref = Absent)
  /\ c.channel # Absent => ValidTuple(NormalPair([channel |-> c.channel, ref |-> c.ref]))

\* A slip: null keeps what the event has.
WrittenUnlessNull(c, current) ==
  IF c.channel \in {Absent, Null} THEN current
  ELSE NormalPair([channel |-> c.channel, ref |-> c.ref])

Written(c, current) ==
  IF c.channel = Absent THEN current
  ELSE NormalPair([channel |-> c.channel, ref |-> c.ref])

\* The columns of event_versions and reminders.
Storable(p) == p.channel \in Channels \cup {Null} /\ p.ref \notin TooLong

-----------------------------------------------------------------------------
(* When it is sent                                                          *)

Sources == {"event_override", "request_context_default", "recipient_default", "none"}
Resolution == [source : Sources, status : {"ok", "invalid", "missing"},
               resolved : Pair, attempted : Pair]

\* _validate_destination_candidate, for a candidate that is not empty.
Candidate(source, p) ==
  LET n == NormalPair(p)
      good == /\ BothSet(n) /\ n.channel \in Channels
              /\ n.ref \notin TooLong /\ n.ref \notin Unprintable
  IN [source |-> source, attempted |-> n,
      status |-> IF good THEN "ok" ELSE "invalid",
      resolved |-> IF good THEN n ELSE Nothing]

\* _resolve_destination: the first source that says anything decides, and an
\* invalid one is not passed over.
Resolve(override, context, own) ==
  LET Given(p) == NormalPair(p) # Nothing IN
  CASE Given(override) -> Candidate("event_override", override)
    [] ~Given(override) /\ Given(context) -> Candidate("request_context_default", context)
    [] ~Given(override) /\ ~Given(context) /\ Given(own) -> Candidate("recipient_default", own)
    [] OTHER -> [source |-> "none", status |-> "missing",
                 resolved |-> Nothing, attempted |-> Nothing]

\* _resolved_destination_provenance_is_complete
ProvenanceComplete(d) == d.status = "ok" /\ BothSet(d.resolved) /\ BothSet(d.attempted)

\* The columns of delivery_attempts.
Recordable(d) == Storable(d.resolved) /\ Storable(d.attempted)

\* The adapter's _normalize_target: whatsapp has its own form, and no resolver of
\* aliases is configured.
Sendable(p) == p.channel = "whatsapp" => p.ref \in Canonical
Address(p) == IF p.channel = "whatsapp" THEN Bare[p.ref] ELSE p.ref
=============================================================================
