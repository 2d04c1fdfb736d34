----------------------------- MODULE MCOutbound -----------------------------
(***************************************************************************)
(* Instances of Outbound for TLC.  g1 and g2 are addresses that the        *)
(* adapter knows for whatsapp, "whatsapp:g1" another form of the first and *)
(* " g2 " of the second; mom is an alias, sms a channel that is not        *)
(* listed.                                                                 *)
(***************************************************************************)
EXTENDS Outbound

MCValues == {"whatsapp", "discord", "sms", "g1", "g2", "whatsapp:g1", " g2 ", "mom",
             " ", "overlong", "bell"}
MCChannels == {"whatsapp", "discord"}
MCStrip == [v \in MCValues |-> CASE v = " " -> Null [] v = " g2 " -> "g2" [] OTHER -> v]
MCBare == [v \in {"g1", "g2", "whatsapp:g1"} |-> IF v = "g2" THEN "g2" ELSE "g1"]

Object_(c, r) ==
  [channel |-> Absent, ref |-> Absent, object |-> [is |-> "object", channel |-> c, ref |-> r]]
Cleared == [channel |-> Absent, ref |-> Absent, object |-> [is |-> "null"]]
Scalar == [channel |-> Absent, ref |-> Absent, object |-> [is |-> "scalar"]]
Says_(override, context) == [override |-> override, context |-> context]
No == Flat(Absent, Absent)

MCPayloads == {
  Says_(No, No),
  Says_(Flat("whatsapp", "whatsapp:g1"), Flat("whatsapp", "g2")),
  Says_(Cleared, Object_("whatsapp", " g2 ")),
  Says_(Flat("discord", "mom"), No),
  Says_(Flat(" ", " "), Flat("whatsapp", "mom")),
  \* refused
  Says_(Flat("whatsapp", "bell"), No),
  Says_(Scalar, No), Says_(Flat("sms", "g1"), No), Says_(No, Flat("whatsapp", Absent)),
  Says_(No, Object_("whatsapp", Absent)), Says_(Flat("whatsapp", "overlong"), No)}

Row(c, r, z) == [channel |-> c, ref |-> r, zone |-> z]
MCRegistered == {Row("whatsapp", "g1", TRUE), Row("whatsapp", "g2", TRUE),
                 Row("whatsapp", "g1", FALSE), Row("sms", "g1", TRUE), Row(" ", " ", TRUE)}
\* One reply for each thing that can come of it (a result that is blocked comes of an
\* address that is none); the last has a real reference behind a hollow one.
Keyed(first) == [i \in Lookups |-> IF i = 1 THEN first ELSE IF i = 4 THEN "real" ELSE "nothing"]
MCReplies == {[is |-> "hangs"],
              [is |-> "failed", hints |-> {"permanent"}],
              [is |-> "object", keys |-> Keyed("real")],
              [is |-> "object", keys |-> Keyed("hollow")]}

SilentOnly == {Says_(No, No)}
=============================================================================
