------------------------------- MODULE MCDesk --------------------------------
(* Instances of Desk, Rounds and SpecLock for TLC, side by side: `job` says *)
(* which of them a behaviour is about.  "talk" is Desk with conversations,  *)
(* "file" is Desk with drafts.                                              *)
EXTENDS Desk, Rounds, SpecLock

VARIABLE job

------------------------------------------------------------------------------
(* Rounds: a day of four units, its clock moved in the middle of one.      *)

Hotel(change_, shift_, kept_) == [change |-> change_, shift |-> shift_, kept |-> kept_]
SixHotels == {Hotel(5, -1, "zone"), Hotel(5, -1, "offset"), Hotel(6, 1, "zone"),
              Hotel(99, 0, "zone"), Hotel(8, 1, "zone"), Hotel(4, -1, "zone")}
BothTell == [stay |-> {"updated"}, turn |-> {"occupied"}, room |-> {}]
ThreeProviders == {{"updated", "occupied"}, {"updated"}, {}}

Block(mode, events, interval, before) ==
  [mode |-> mode, events |-> events, interval |-> interval, before |-> before]
OfBlocks(execution, watches, mandatory) ==
  [execution |-> execution, watches |-> watches, event_at |-> None,
   maximum |-> 3, mandatory |-> mandatory]
OnEvents(events) == Block("event", events, None, None)
SixControls ==
  {OfBlocks(<<OnEvents({"updated", "occupied"}), Block("periodic", {}, 2, None)>>,
            {"turn", "room"}, 2),
   OfBlocks(<<OnEvents({"updated"}), OnEvents({"occupied"}), Block("daily", {}, None, None)>>,
            {"stay", "turn"}, None),
   OfBlocks(<<OnEvents({"occupied"})>>, {"turn"}, None),
   OfBlocks(<<OnEvents({"occupied"}), Block("periodic", {}, Unreadable, None)>>,
            {"turn"}, None),
   OfBlocks(<<Block("daily", {}, None, None)>>, {"room"}, None),
   [OfBlocks(<<Block("scheduled", {}, 1, "arrival")>>, {"stay"}, None) EXCEPT !.event_at = 6]}

------------------------------------------------------------------------------
(* Desk: a small vocabulary, and sentences over it.                        *)

Meant(type, absent_means) == [type |-> type, absent_means |-> absent_means, resolvable |-> TRUE]
SmallRegistry ==
  [status |-> Meant("text", "unknown"), room |-> Meant("text", "false"),
   number |-> Meant("text", "unknown"), closed |-> Meant("date", "false"),
   closed_to |-> Meant("date", "not_applicable"), from |-> Meant("date", "unknown"),
   occupied |-> Meant("text", "unknown"), plan |-> Meant("text", "unknown")]
Entities ==
  [status |-> "stay", room |-> "stay", number |-> "room", closed |-> "room",
   closed_to |-> "room", from |-> "occupancy", occupied |-> "occupancy",
   plan |-> "rate_plan", bogus |-> "stay"]

Value(text) == [kind |-> "value", of |-> text]
NoOperand == [kind |-> "none", of |-> Nothing]
Cond(field, not, phrase, operand) ==
  [field |-> field, is |-> TRUE, not |-> not, phrase |-> phrase, operand |-> operand,
   interval |-> Nothing, absence |-> Nothing]
Lies(field, not, start, end) ==
  [Cond(field, not, "within", NoOperand) EXCEPT !.interval = [start |-> start, end |-> end]]
NoAggregate == [limit |-> Nothing, field |-> Nothing, interval |-> Nothing,
                per |-> Nothing, also |-> FALSE]
Claim(conditions) == [conditions |-> conditions] @@ NoAggregate
Limit(limit, field, interval, per) ==
  [conditions |-> <<>>, limit |-> limit, field |-> field, interval |-> interval,
   per |-> per, also |-> FALSE]
Joined(word, entity, hotel_, local, remote) ==
  [word |-> word, entity |-> entity, hotel |-> hotel_, local |-> local, remote |-> remote,
   set |-> Nothing]
TheSet(field) ==
  [word |-> "joining", entity |-> Nothing, hotel |-> FALSE, local |-> Nothing,
   remote |-> Nothing, set |-> field]
Says(quantifier, subject, joins, where, modal, claim) ==
  [quantifier |-> quantifier, subject |-> subject, joins |-> joins, population |-> FALSE,
   where |-> where, unless |-> <<>>, modal |-> modal, claim |-> claim,
   showing |-> <<>>, rest |-> FALSE]

IsClean == Cond("status", FALSE, Nothing, Value("clean"))
Plain == Says("every", "stay", <<>>, <<>>, "must have", Claim(<<IsClean>>))
ToRoom == Joined("joining", "room", FALSE, "room", "number")
ToStays == Joined("collecting", "occupancy", FALSE, "number", "occupied")

Modals == {"must have", "must not have", "must satisfy", "may have", "may"}
Conditions ==
  {IsClean, Cond("status", TRUE, Nothing, Value("clean")),
   Cond("status", FALSE, Nothing, Value("today")),
   Cond("status", FALSE, Nothing, [kind |-> "bare", of |-> "clean"]),
   Cond("status", FALSE, Nothing, [kind |-> "compare_to", of |-> "room"]),
   Cond("status", FALSE, "exists", NoOperand), Cond("status", TRUE, "present", NoOperand),
   Cond("status", FALSE, "missing", NoOperand), Cond("status", TRUE, "missing", NoOperand),
   Cond("status", FALSE, "oneOf", Value("clean")),
   Cond("status", FALSE, "oneOf", [kind |-> "tenant_setting", of |-> "codes"]),
   Cond("status", TRUE, "oneOf", [kind |-> "tenant_setting", of |-> "nominated"]),
   Cond("bogus", FALSE, "matches", Value("clean")),
   [Cond("closed", FALSE, "atLeast", Value("today")) EXCEPT !.absence = "or absent"],
   [Cond("from", FALSE, "atMost", Value("today")) EXCEPT !.absence = "or absent"],
   Cond("closed", FALSE, "atLeast", Value("todayish")),
   Lies("from", FALSE, "closed", "closed_to"), Lies("occupied", TRUE, "closed", "closed_to")}

ManySentences ==
  {[Plain EXCEPT !.quantifier = q, !.modal = m] : q \in {"every", "no", "some"}, m \in Modals}
    \cup {[Plain EXCEPT !.where = <<c>>] : c \in Conditions}
    \cup {[Plain EXCEPT !.unless = <<c>>, !.modal = "must not have"] : c \in Conditions}
    \cup {[Plain EXCEPT !.joins = j, !.claim = Claim(<<Cond("closed", FALSE, "missing", NoOperand)>>)] :
            j \in {<<ToRoom>>, <<ToRoom, ToRoom>>, <<TheSet("number")>>,
                   <<Joined("joining", "rate_plan", TRUE, "room", "plan")>>,
                   <<[ToRoom EXCEPT !.remote = "status"]>>}}
    \cup {Says("every", "room", <<ToStays>>, <<>>, m, Claim(<<Lies("from", FALSE, "closed", "closed_to")>>)) :
            m \in {"must have", "must not have"}}
    \cup {[Plain EXCEPT !.claim = Limit("1", "status", Nothing, per), !.modal = m] :
            per \in {"room", "bogus"}, m \in {"must have", "must not have"}}
    \cup {[Plain EXCEPT !.claim = Limit(Nothing, "status", [start |-> "closed", end |-> "closed_to"], "room")],
          [Plain EXCEPT !.claim = [Limit("1", "status", Nothing, "room") EXCEPT !.also = TRUE]],
          [Plain EXCEPT !.showing = <<"room", "bogus">>],
          [Plain EXCEPT !.population = TRUE], [Plain EXCEPT !.rest = TRUE],
          [Plain EXCEPT !.subject = "guest"]}

CONSTANTS north, south, nowhere
TwoTenants == <<north, south>>
TwoControls == <<"capacity", "protection">>
TheirWindows == [capacity |-> <<>>, protection |-> [occupancy |-> [from |-> 0, to |-> 2]]]
TheirSettings == north :> [nominated |-> "list", codes |-> "text"] @@ south :> [nominated |-> "undecided"]

Token(defects, property, expires) ==
  [defects |-> defects, property |-> property, expires |-> expires]
SixTokens ==
  {Token({}, north, 2), Token({}, south, 1), Token({}, south, 9), Token({}, nowhere, 2),
   Token({"signature"}, south, 2), Token({"audience"}, north, 2)}

Line(text, opens) == [text |-> text, opens |-> opens]
Blank == Line(Nothing, FALSE)
Rule == Line("plain", TRUE)
FewReplies == {<<Line("hm", FALSE)>>, <<Line("so", FALSE), Rule, Blank, Rule>>}
PlainSense == <<Rule>> :> Plain
ThreeIds == [capacity |-> "capacity", late |-> "late", Late |-> "late", none |-> Nothing]

------------------------------------------------------------------------------

DeskIdle == auth = FALSE /\ clock = 0 /\ talks = <<>> /\ said = <<>> /\ drafts = {} /\ reply = Nothing
AnyOf(S) == CHOOSE x \in S : TRUE
RoundsIdle ==
  /\ RoundsInit
  /\ hotel = AnyOf(Hotels) /\ published = AnyOf(Providers)
  /\ control = AnyOf(Controls) /\ evidence = AnyOf(Sources)

MCInit ==
  \/ job \in {"talk", "file"} /\ DeskInit /\ LockInit /\ RoundsIdle
  \/ job = "rounds" /\ DeskIdle /\ LockInit /\ RoundsInit
  \/ job = "lock" /\ DeskIdle /\ LockInit /\ RoundsIdle

\* Requests to file a draft: in the open, or signed and naming the other property.
ToFile ==
  IF auth THEN {r \in Request : r.token # Nothing /\ r.token.defects = {} /\ r.named = south}
  ELSE {r \in Request : r.token = Nothing}

\* One draft is of any sentence, the others are of the plain one.
InTheBox == IF \E d \in drafts : d.sentence # Plain THEN {Plain} ELSE Sentences

MCNext ==
  /\ UNCHANGED job
  /\ \/ job = "talk" /\ DeskNext(Request, Replies, {}) /\ UNCHANGED <<lockVars, roundsVars>>
     \/ job = "file" /\ DeskNext(ToFile, {}, InTheBox) /\ UNCHANGED <<lockVars, roundsVars>>
     \/ job = "rounds" /\ RoundsNext /\ UNCHANGED <<deskVars, lockVars>>
     \/ job = "lock" /\ LockNext /\ UNCHANGED <<deskVars, roundsVars>>

MCSpec == MCInit /\ [][MCNext]_<<job, deskVars, lockVars, roundsVars>>
==============================================================================
