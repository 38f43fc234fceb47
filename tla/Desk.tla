--------------------------------- MODULE Desk --------------------------------
(***************************************************************************)
(* The web surface (web/app.py, web/auth.py): who a request speaks for,    *)
(* what it is shown, the conversations in which a rule is composed, and    *)
(* the drafts they end in.  Requests are answered one at a time.           *)
(*                                                                         *)
(* A token is [defects, property, expires]: what is wrong with its form    *)
(* and signature, what it names, until when.  A request carries a token,   *)
(* or Nothing, and what its URL and form name.                             *)
(***************************************************************************)
EXTENDS RuleCheck, FiniteSets

CONSTANTS
  Tenants,         \* the properties, in the order of their files
  Library,         \* the reviewed controls, in the order of theirs
  Windows,         \* [controls -> the reference windows of their population]
  Settings,        \* [properties -> their settings]
  Tokens,          \* what the host, and others, may send
  Names,           \* what a URL or a form may name as its property
  Conversations,   \* ids a form may carry
  Replies,         \* what a proposer may answer: "fails" or its lines
  Sense,           \* [bodies of a reply that are a sentence -> the sentence]
  DraftIds,        \* [what a form may carry as an id -> its slug, or Nothing]
  MAXIMUM_LIFETIME,
  TurnsKept,       \* turns a transcript keeps
  TalksKept,       \* conversations that are kept
  Sentences,       \* what may be in the box when a draft is filed
  LastInstant, MaxSaid, MaxDrafts      \* bounds

\* What verify() looks at before anything the caller wrote is read, and after.
FORM_DEFECTS    == {"parts", "base64", "signature"}
PAYLOAD_DEFECTS == {"json", "audience", "fields"}
DEFECTS == FORM_DEFECTS \cup PAYLOAD_DEFECTS

\* A token says when it ends; what may be wrong with one is looked at.
ASSUME TokensAssumption ==
  /\ MAXIMUM_LIFETIME \in Nat
  /\ TurnsKept \in Nat \ {0} /\ TalksKept \in Nat \ {0}
  /\ \A token \in Tokens : token.expires \in Int /\ token.defects \subseteq DEFECTS

\* There is a property (with none every page is refused), and each has settings.
ASSUME PropertiesAssumption ==
  /\ Tenants \in Seq(ToSet(Tenants)) /\ Tenants # <<>>
  /\ \A property \in ToSet(Tenants) : Settings[property] # Nothing

\* What is in the box was read by the parser of the grammar.
ASSUME SentencesAssumption == \A s \in Sentences : IsSentence(s)

VARIABLES
  auth,        \* whether a secret is configured
  clock,
  talks,       \* self.conversations: [key, turns] in the order of first use
  said,        \* every turn there has been, in order: [by, in, n, outcome]
  drafts,      \* the files below the drafts directory: [property, id, rule, sentence]
  reply        \* the answer being sent, and the request it answers

deskVars == <<auth, clock, talks, said, drafts, reply>>

Properties == ToSet(Tenants)
Request == [token : Tokens \cup {Nothing}, named : Names]

------------------------------------------------------------------------------
(* Verifier.verify() and _authenticate().                                  *)

VerifyStatus(token) ==
  IF \/ token = Nothing
     \/ token.defects \cap (FORM_DEFECTS \cup PAYLOAD_DEFECTS) # {}
     \/ token.expires <= clock
     \/ token.expires - clock > MAXIMUM_LIFETIME
  THEN 401
  ELSE IF token.property \in Properties THEN 200 ELSE 403

\* The property a request may see when it is signed for, all of them without auth.
Visible(request) == IF auth THEN <<request.token.property>> ELSE Tenants

Status(request) == IF auth THEN VerifyStatus(request.token) ELSE 200

\* values["property"], which a verified context overwrites.
Asked_AsWritten(request) == request.named
Asked(request) == IF auth THEN request.token.property ELSE request.named

\* _selection(): a name that names nothing falls back to the first property.
Selection(request) ==
  IF Asked(request) \in Properties THEN Asked(request) ELSE Head(Visible(request))

\* _posted_selection(): what decides something is refused, never defaulted.
PostedStatus(request) == IF Asked(request) \in ToSet(Visible(request)) THEN 200 ELSE 400

\* _conversation_key()
Key(request, conversation) ==
  <<IF auth THEN request.token.property ELSE Nothing, conversation>>

Places(key) == {i \in DOMAIN talks : talks[i].key = key}
Place(key) == CHOOSE i \in Places(key) : TRUE

Turns(key) == IF Places(key) = {} THEN <<>> ELSE talks[Place(key)].turns

DraftsOf(property) == {d \in drafts : d.property = property}

\* An answer, to a request that is the only one there is.
Answer(request, status, about, owners) ==
  [request |-> request, at |-> clock, status |-> status, decides |-> FALSE,
   about |-> IF status < 400 THEN about ELSE Nothing,
   owners |-> IF status < 400 THEN owners ELSE {}]

DeskInit ==
  /\ auth \in BOOLEAN
  /\ clock = 0
  /\ talks = <<>>
  /\ said = <<>>
  /\ drafts = {}
  /\ reply = Nothing

------------------------------------------------------------------------------
(* Requests.                                                               *)

\* A page of a property: its drafts, and the transcript of a conversation.
Browse(request, conversation) ==
  LET status == Status(request) IN
  /\ reply = Nothing
  /\ reply' = Answer(request, status, Selection(request),
                {d.property : d \in DraftsOf(Selection(request))} \cup
                {turn.by : turn \in ToSet(Turns(Key(request, conversation)))})
  /\ UNCHANGED <<auth, clock, talks, said, drafts>>

\* A guest's request is decided under the policy of the property it names.
Decide(request) ==
  LET status == IF Status(request) # 200 THEN Status(request) ELSE PostedStatus(request) IN
  /\ reply = Nothing
  /\ reply' = [Answer(request, status, Asked(request), {Asked(request)})
                EXCEPT !.decides = TRUE]
  /\ UNCHANGED <<auth, clock, talks, said, drafts>>

\* split_reply(): from the first line that opens a rule to the next blank one.
Opening(lines) == {i \in DOMAIN lines : lines[i].opens}

FirstOpening(lines) == CHOOSE i \in Opening(lines) : \A j \in Opening(lines) : i <= j

Body(lines) ==
  IF Opening(lines) = {} THEN <<>>
  ELSE LET from == SubSeq(lines, FirstOpening(lines), Len(lines))
           blank == {i \in DOMAIN from : from[i].text = Nothing}
       IN SubSeq(from, 1, IF blank = {} THEN Len(from)
                          ELSE (CHOOSE i \in blank : \A j \in blank : i <= j) - 1)

\* normalise(): a rule, a question, or the reasons for neither; nobody's settings
\* are looked at.
Outcome(lines, template) ==
  IF lines = "fails" THEN "problem"
  ELSE IF Body(lines) = <<>> THEN "question"
  ELSE IF Body(lines) \notin DOMAIN Sense THEN "problem"
  ELSE IF Compilation(Sense[Body(lines)], DEPLOYMENT_KEYS, Windows[template], Nothing) = {}
       THEN "rule" ELSE "problem"

LastOf(turns) ==
  IF Len(turns) <= TurnsKept THEN turns
  ELSE SubSeq(turns, Len(turns) - TurnsKept + 1, Len(turns))

\* Of too many conversations the latest opened goes.
Capped_Latest(kept) == IF Len(kept) > TalksKept THEN SubSeq(kept, 1, TalksKept) ELSE kept

\* Of too many conversations the first opened goes.
Capped(kept) == IF Len(kept) > TalksKept THEN Tail(kept) ELSE kept

\* A conversation that is known keeps its place.
Keep(key, turns) ==
  LET entry == [key |-> key, turns |-> turns]
  IN  Capped(IF Places(key) = {} THEN Append(talks, entry)
             ELSE [talks EXCEPT ![Place(key)] = entry])

\* Who speaks, as far as the engine can know.
Speaker(request) == IF auth THEN request.token.property ELSE Nothing

\* _turn(): the proposer is given the transcript, and its answer joins it.
Talk(request, conversation, template, lines) ==
  /\ reply = Nothing
  /\ Status(request) = 200
  /\ Len(said) < MaxSaid
  /\ LET key == Key(request, conversation)
         turn == [by |-> Speaker(request), in |-> conversation, n |-> Len(said) + 1,
                  outcome |-> Outcome(lines, template)]
         turns == LastOf(Append(Turns(key), turn))
     IN /\ talks' = Keep(key, turns)
        /\ said' = Append(said, turn)
        /\ reply' = Answer(request, 200, Selection(request),
                           {t.by : t \in ToSet(turns)})
  /\ UNCHANGED <<auth, clock, drafts>>

\* What is wrong with a form before its sentence is looked at.
FormStatus(id, template) ==
  IF DraftIds[id] = Nothing THEN 400
  ELSE IF DraftIds[id] \in ToSet(Library) THEN 409
  ELSE IF template \in ToSet(Library) THEN 200 ELSE 400

\* _template_id(): one of the library's, and the first when none is named.
TemplateId(named) ==
  IF named \in ToSet(Library) \/ Library = <<>> THEN named ELSE Head(Library)

\* _file_draft(): compiled for the property it is filed under, over what was there.
Accept(request, id, named, sentence) ==
  LET template == TemplateId(named)
      property == Selection(request)
      refusals == Compilation(sentence, DEPLOYMENT_KEYS, Windows[template], Settings[property])
      status == IF Status(request) # 200 THEN Status(request)
                ELSE IF FormStatus(id, template) # 200 THEN FormStatus(id, template)
                ELSE IF refusals # {} THEN 422 ELSE 201
      draft == [property |-> property, id |-> DraftIds[id], sentence |-> sentence,
                rule |-> Merged(sentence, Windows[template])]
  IN /\ reply = Nothing
     /\ drafts' = IF status # 201 THEN drafts
                  ELSE {d \in drafts : d.property # property \/ d.id # draft.id} \cup {draft}
     /\ Cardinality(drafts') <= MaxDrafts
     /\ reply' = Answer(request, status, property, {property})
     /\ UNCHANGED <<auth, clock, talks, said>>

\* The answer is sent, and the next request may be read.
Respond ==
  /\ reply # Nothing
  /\ reply' = Nothing
  /\ UNCHANGED <<auth, clock, talks, said, drafts>>

Tick ==
  /\ reply = Nothing /\ clock < LastInstant
  /\ clock' = clock + 1
  /\ UNCHANGED <<auth, talks, said, drafts, reply>>

DeskNext(requests, replies, sentences) ==
  \/ \E request \in requests, conversation \in Conversations : Browse(request, conversation)
  \/ \E request \in requests : Decide(request)
  \/ \E request \in requests, conversation \in Conversations,
        template \in ToSet(Library), lines \in replies :
       Talk(request, conversation, template, lines)
  \/ \E request \in requests, id \in DOMAIN DraftIds,
        template \in ToSet(Library) \cup {Nothing}, sentence \in sentences :
       Accept(request, id, template, sentence)
  \/ Respond
  \/ Tick

DeskSpec == DeskInit /\ [][DeskNext(Request, Replies, Sentences)]_deskVars

------------------------------------------------------------------------------
\* What the host signs: whole, for a property that is served, still good, and not
\* good for longer than a context may be.
Genuine(token, at) ==
  /\ token # Nothing
  /\ token.defects = {}
  /\ token.property \in Properties
  /\ token.expires \in at + 1 .. at + MAXIMUM_LIFETIME

\* With a secret configured, an answer was asked for under a context that was good
\* at that instant, is about the property it was signed for whatever the URL and
\* form say, and shows nothing another property wrote or spoke.  Without one, a
\* request that decides something is answered for the property it names or not at
\* all, and a page still lists one property's drafts only.
OwnProperty ==
  reply # Nothing /\ reply.status < 400 =>
    /\ auth => /\ Genuine(reply.request.token, reply.at)
               /\ reply.about = reply.request.token.property
               /\ reply.owners \subseteq {reply.about}
    /\ ~auth => /\ reply.owners \subseteq {reply.about, Nothing}
                /\ reply.decides => reply.about = reply.request.named

\* What was said in a conversation by a property from its n-th utterance on.
SaidFrom(n, key) == {m \in n .. Len(said) : <<said[m].by, said[m].in>> = key}

\* A proposer is given what was last said in that conversation by that property,
\* in order and with nothing missing in between; conversations beyond the cap are
\* forgotten whole, and never the one that has just been spoken in.
TranscriptIsOwn ==
  /\ Len(talks) <= TalksKept
  /\ \A i \in DOMAIN talks :
       LET turns == talks[i].turns IN
       /\ Len(turns) \in 1 .. TurnsKept
       /\ \A k \in DOMAIN turns : turns[k] = said[turns[k].n]
       /\ \A j, k \in DOMAIN turns : j < k => turns[j].n < turns[k].n
       /\ {turns[k].n : k \in DOMAIN turns} =
            SaidFrom(turns[1].n, <<turns[1].by, turns[1].in>>)
  /\ said # <<>> =>
       \E i \in DOMAIN talks : Last(talks[i].turns) = Last(said)

\* The fields a sentence names in what it requires, in its own words.
FieldsOfConditions(conditions) ==
  UNION {{c.field} \cup (IF c.operand.kind = "compare_to" THEN {c.operand.of} ELSE {})
                   \cup (IF c.interval = Nothing THEN {} ELSE {c.interval.start, c.interval.end}) :
         c \in ToSet(conditions)}

FieldsOfSentence(s) ==
  FieldsOfConditions(s.where \o s.unless \o s.claim.conditions)
    \cup (UNION {Named({j.local, j.remote, j.set}) : j \in ToSet(s.joins)})
    \cup (IF IsAggregate(s)
          THEN {s.claim.field, s.claim.per}
                 \cup (IF s.claim.interval = Nothing THEN {}
                       ELSE {s.claim.interval.start, s.claim.interval.end})
          ELSE {})

\* Words that say the same thing, and those that say its opposite.
VERB == [present |-> "exists", missing |-> "exists", unresolved |-> "resolved",
         matches |-> "matching", greaterThan |-> "moreThan"]
OPPOSITES == {"missing", "unresolved"}

\* What a condition says, whatever words it says it in.
Saying(c) ==
  [field |-> c.field,
   verb |-> IF c.phrase \in DOMAIN VERB THEN VERB[c.phrase] ELSE c.phrase,
   sense |-> IF c.not <=> c.phrase \in OPPOSITES THEN "so" ELSE "not so",
   operand |-> c.operand, interval |-> c.interval, absence |-> c.absence]

Sayings(conditions) == [i \in DOMAIN conditions |-> Saying(conditions[i])]

\* What a sentence says, its quantifier apart: whether it demands or forbids, and what.
Meaning(s) ==
  [subject |-> s.subject,
   joins |-> [i \in DOMAIN s.joins |->
                IF s.joins[i].set # Nothing THEN <<s.joins[i].set>>
                ELSE <<s.joins[i].word, s.joins[i].entity, s.joins[i].hotel,
                       s.joins[i].local, s.joins[i].remote>>],
   where |-> Sayings(s.where),
   unless |-> Sayings(s.unless),
   demands |-> IF IsAggregate(s) THEN "a limit"
               ELSE IF s.modal = "may have" THEN "must not have" ELSE s.modal,
   claim |-> [s.claim EXCEPT !.conditions = Sayings(@)]]

\* A sentence that compiles to this rule, but for what it shows.
Compiles(s, rule) ==
  /\ s.subject = rule.entity
  /\ Assertion(s) = rule.assertion
  /\ Predicates(s.where) = rule.scope
  /\ Predicates(s.unless) = rule.exceptions
  /\ [i \in DOMAIN s.joins |-> Reference(s.joins[i])] = rule.references
  /\ Refusal(s) = Nothing

\* "The sentence is the rule": every field it requires something of is vocabulary
\* and declared as evidence, every setting it names is one its property has, in the
\* shape it is used in, and no clause, negation or operand is lost on the way: what
\* else compiles to the same rule, but for what it shows, says the same.  (But for
\* the quantifier, see OneReading.)
FiledIsWhole ==
  \A d \in drafts :
    /\ FieldsOfSentence(d.sentence) \subseteq
         DOMAIN Registry \cap {e.field : e \in d.rule.required_evidence}
    /\ \A c \in ToSet(d.sentence.where \o d.sentence.unless \o d.sentence.claim.conditions) :
         c.operand.kind = "tenant_setting" =>
           /\ c.operand.of \in DOMAIN Settings[d.property]
           /\ c.phrase = "oneOf" => Settings[d.property][c.operand.of] # "text"
    /\ \A s \in Sentences : Compiles(s, d.rule) => Meaning(s) = Meaning(d.sentence)

\* "Exactly one reading per sentence": where "no" and "every" are both accepted in
\* front of the same words they do not make the same rule.
OneReading ==
  \A d \in drafts :
    LET every == [d.sentence EXCEPT !.quantifier = "every"] IN
      d.sentence.quantifier = "no" /\ Refusal(every) = Nothing =>
        Merged(every, d.rule.windows) # d.rule
==============================================================================
