----------------------------- MODULE DeskProofs ------------------------------
(* No request sees another property, and a transcript is its conversation's: *)
(* for any tenants, any tokens the host or somebody else may send, any names *)
(* in a URL and any conversation ids.  What is filed is the sentence it was  *)
(* made of, whole, for any sentences, registry and settings.  And however    *)
(* often the files of the rules are edited and the lock is rebuilt, a        *)
(* version number that a lock has recorded stands for one rule.              *)
EXTENDS Desk, SpecLock, SequenceTheorems, WellFoundedInduction, TLAPS

Speakers == Properties \cup {Nothing}

Turn == [by : Speakers, in : Conversations, n : Nat, outcome : {"rule", "question", "problem"}]

Talking == [key : Speakers \X Conversations, turns : Seq(Turn)]

\* Every turn of a transcript is its owner's, and only somebody signed for, or
\* nobody when nobody signs, owns one.
TurnsAreTheirs ==
  \A i \in DOMAIN talks : \A k \in DOMAIN talks[i].turns :
    talks[i].turns[k].by = talks[i].key[1]

DeskTypeOK ==
  /\ auth \in BOOLEAN
  /\ clock \in Int
  /\ talks \in Seq(Talking)
  /\ said \in Seq(Turn)

DeskInv == DeskTypeOK /\ TurnsAreTheirs /\ OwnProperty

\* Who passes verify(), and for what.
LEMMA SignedFor ==
  ASSUME auth, clock \in Int, NEW request \in Request, Status(request) < 400
  PROVE  /\ Status(request) = 200
         /\ Genuine(request.token, clock)
         /\ Asked(request) = request.token.property
         /\ Selection(request) = request.token.property
         /\ Speaker(request) = request.token.property
         /\ request.token.property \in Properties
<1>1. Status(request) = VerifyStatus(request.token)
  BY DEF Status
<1>2. /\ request.token # Nothing
      /\ request.token.defects \cap FORM_DEFECTS = {}
      /\ request.token.defects \cap PAYLOAD_DEFECTS = {}
      /\ ~(request.token.expires <= clock)
      /\ ~(request.token.expires - clock > MAXIMUM_LIFETIME)
      /\ request.token.property \in Properties
      /\ Status(request) = 200
  BY <1>1 DEF VerifyStatus
<1>3. request.token \in Tokens
  BY <1>2 DEF Request
<1>4. /\ request.token.expires \in Int /\ MAXIMUM_LIFETIME \in Nat
      /\ request.token.defects \subseteq DEFECTS
  BY <1>3, TokensAssumption
<1>5. request.token.defects = {}
  BY <1>2, <1>4 DEF DEFECTS
<1>6. request.token.expires \in clock + 1 .. clock + MAXIMUM_LIFETIME
  BY <1>2, <1>4
<1>7. Genuine(request.token, clock)
  BY <1>2, <1>5, <1>6 DEF Genuine
<1>8. Asked(request) = request.token.property
  BY DEF Asked
<1>9. Selection(request) = request.token.property
  BY <1>2, <1>8 DEF Selection
<1>. QED BY <1>2, <1>7, <1>8, <1>9 DEF Speaker

\* A transcript that is looked up is that conversation's, or nobody's yet.
LEMMA TurnsOfKey ==
  ASSUME DeskTypeOK, TurnsAreTheirs, NEW key
  PROVE  /\ Turns(key) \in Seq(Turn)
         /\ \A k \in DOMAIN Turns(key) : Turns(key)[k].by = key[1]
<1>1. CASE Places(key) = {}
  BY <1>1 DEF Turns
<1>2. CASE Places(key) # {}
  <2>1. Place(key) \in Places(key)
    BY <1>2 DEF Place
  <2>2. Place(key) \in DOMAIN talks /\ talks[Place(key)].key = key
    BY <2>1 DEF Places
  <2>3. talks[Place(key)] \in Talking
    BY <2>2 DEF DeskTypeOK
  <2>4. Turns(key) = talks[Place(key)].turns
    BY <1>2 DEF Turns
  <2>. QED BY <2>2, <2>3, <2>4 DEF TurnsAreTheirs, Talking
<1>. QED BY <1>1, <1>2

\* What is kept of a transcript is of it.
LEMMA LastOfTurns ==
  ASSUME NEW turns \in Seq(Turn), NEW owner,
         \A k \in DOMAIN turns : turns[k].by = owner
  PROVE  /\ LastOf(turns) \in Seq(Turn)
         /\ \A k \in DOMAIN LastOf(turns) : LastOf(turns)[k].by = owner
<1>1. CASE Len(turns) <= TurnsKept
  BY <1>1 DEF LastOf
<1>2. CASE ~(Len(turns) <= TurnsKept)
  <2>. DEFINE from == Len(turns) - TurnsKept + 1
              kept == SubSeq(turns, from, Len(turns))
  <2>1. from \in 1 .. Len(turns) /\ Len(turns) \in Nat
    BY <1>2, TokensAssumption
  <2>2. LastOf(turns) = kept
    BY <1>2 DEF LastOf
  <2>. HIDE DEF from
  <2>3. /\ kept \in Seq(Turn)
        /\ \A k \in DOMAIN kept : k + from - 1 \in DOMAIN turns /\ kept[k] = turns[k + from - 1]
    BY <2>1
  <2>. QED BY <2>2, <2>3
<1>. QED BY <1>1, <1>2

\* Keeping a transcript under its key keeps every transcript its owner's.
LEMMA KeptByKey ==
  ASSUME DeskTypeOK, TurnsAreTheirs,
         NEW key \in Speakers \X Conversations, NEW turns \in Seq(Turn),
         \A k \in DOMAIN turns : turns[k].by = key[1],
         talks' = Keep(key, turns)
  PROVE  talks' \in Seq(Talking) /\ TurnsAreTheirs'
<1>. DEFINE entry == [key |-> key, turns |-> turns]
            Theirs(list) == \A i \in DOMAIN list : \A k \in DOMAIN list[i].turns :
                              list[i].turns[k].by = list[i].key[1]
            kept == IF Places(key) = {} THEN Append(talks, entry)
                    ELSE [talks EXCEPT ![Place(key)] = entry]
<1>1. entry \in Talking /\ talks \in Seq(Talking) /\ Theirs(talks)
  BY DEF Talking, DeskTypeOK, TurnsAreTheirs
<1>2. ASSUME Places(key) = {} PROVE kept \in Seq(Talking) /\ Theirs(kept)
  <2>1. kept = Append(talks, entry)
    BY <1>2
  <2>. QED BY <1>1, <2>1
<1>3. ASSUME Places(key) # {} PROVE kept \in Seq(Talking) /\ Theirs(kept)
  <2>1. Place(key) \in Places(key)
    BY <1>3 DEF Place
  <2>2. Place(key) \in 1 .. Len(talks) /\ talks[Place(key)].key = key
    BY <1>1, <2>1 DEF Places
  <2>3. kept = [talks EXCEPT ![Place(key)] = entry]
    BY <1>3
  <2>4. /\ kept \in Seq(Talking) /\ Len(kept) = Len(talks)
        /\ \A i \in 1 .. Len(talks) : kept[i] = IF i = Place(key) THEN entry ELSE talks[i]
    BY <1>1, <2>2, <2>3, ExceptSeq
  <2>. QED BY <1>1, <2>4
<1>. HIDE DEF kept
<1>4. kept \in Seq(Talking) /\ Theirs(kept)
  BY <1>2, <1>3
<1>5. CASE Len(kept) > TalksKept
  <2>1. talks' = Tail(kept) /\ kept # <<>>
    BY <1>4, <1>5, TokensAssumption DEF Keep, Capped, kept
  <2>. QED BY <1>4, <2>1 DEF TurnsAreTheirs
<1>6. CASE ~(Len(kept) > TalksKept)
  <2>1. talks' = kept
    BY <1>6 DEF Keep, Capped, kept
  <2>. QED BY <1>4, <2>1 DEF TurnsAreTheirs
<1>. QED BY <1>5, <1>6

LEMMA DeskInvInit == DeskInit => DeskInv
BY DEF DeskInit, DeskInv, DeskTypeOK, TurnsAreTheirs, OwnProperty

\* An answer whose owners are the property it is about, or nobody's when nobody
\* signs.
LEMMA OwnAnswer ==
  ASSUME auth \in BOOLEAN, clock \in Int, UNCHANGED <<auth, clock>>,
         NEW request \in Request, NEW status \in Int, NEW about, NEW owners,
         NEW decides \in BOOLEAN,
         reply' = IF decides THEN [Answer(request, status, about, owners)
                                     EXCEPT !.decides = TRUE]
                  ELSE Answer(request, status, about, owners),
         status < 400 => /\ Status(request) < 400
                         /\ auth => about = request.token.property /\ owners \subseteq {about}
                         /\ ~auth => owners \subseteq {about, Nothing}
                         /\ ~auth /\ decides => about = request.named
  PROVE  OwnProperty'
<1>1. /\ reply'.request = request /\ reply'.at = clock /\ reply'.status = status
      /\ reply'.decides = decides
      /\ status < 400 => reply'.about = about /\ reply'.owners = owners
  BY DEF Answer
<1>2. ASSUME status < 400, auth
      PROVE  Genuine(request.token, clock) /\ about = request.token.property
             /\ owners \subseteq {about}
  BY <1>2, SignedFor
<1>3. ASSUME status < 400, ~auth
      PROVE  owners \subseteq {about, Nothing} /\ (decides => about = request.named)
  BY <1>3
<1>4. ASSUME reply'.status < 400, auth
      PROVE  /\ Genuine(reply'.request.token, reply'.at)
             /\ reply'.about = reply'.request.token.property
             /\ reply'.owners \subseteq {reply'.about}
  <2>1. status < 400
    BY <1>1, <1>4
  <2>. QED BY <1>1, <1>2, <1>4, <2>1
<1>5. ASSUME reply'.status < 400, ~auth
      PROVE  /\ reply'.owners \subseteq {reply'.about, Nothing}
             /\ reply'.decides => reply'.about = reply'.request.named
  <2>1. status < 400
    BY <1>1, <1>5
  <2>. QED BY <1>1, <1>3, <1>5, <2>1
<1>6. auth' = auth
  OBVIOUS
<1>. QED BY <1>4, <1>5, <1>6 DEF OwnProperty

\* The statuses there are.
LEMMA Statuses ==
  ASSUME NEW request
  PROVE  /\ Status(request) \in {200, 401, 403}
         /\ PostedStatus(request) \in {200, 400}
BY DEF Status, VerifyStatus, PostedStatus

\* The owner of a key is the property it was signed for, and nobody without auth.
LEMMA KeyOwner ==
  ASSUME NEW request \in Request, NEW conversation \in Conversations
  PROVE  /\ auth /\ Status(request) < 400 /\ clock \in Int =>
              /\ Key(request, conversation) \in Speakers \X Conversations
              /\ Key(request, conversation)[1] = request.token.property
         /\ ~auth => /\ Key(request, conversation) \in Speakers \X Conversations
                     /\ Key(request, conversation)[1] = Nothing
         /\ Key(request, conversation)[1] = Speaker(request)
BY SignedFor DEF Key, Speakers, Speaker

LEMMA BrowseKeepsInv ==
  ASSUME DeskInv, NEW request \in Request, NEW conversation \in Conversations,
         Browse(request, conversation)
  PROVE  DeskInv'
<1>. DEFINE about == Selection(request)
            key == Key(request, conversation)
            owners == {d.property : d \in DraftsOf(about)} \cup
                      {turn.by : turn \in ToSet(Turns(key))}
<1>1. /\ auth \in BOOLEAN /\ clock \in Int /\ UNCHANGED <<auth, clock, talks, said>>
      /\ reply' = Answer(request, Status(request), about, owners)
  BY Zenon DEF Browse, DeskInv, DeskTypeOK
<1>2. \A d \in DraftsOf(about) : d.property = about
  BY DEF DraftsOf
<1>3. \A turn \in ToSet(Turns(key)) : turn.by = key[1]
  BY TurnsOfKey DEF DeskInv, ToSet
<1>. HIDE DEF key
<1>4. owners \subseteq {about, key[1]}
  BY <1>2, <1>3
<1>. HIDE DEF about, owners
<1>5. Status(request) < 400 /\ auth => about = request.token.property /\ key[1] = about
  BY <1>1, SignedFor, KeyOwner DEF key, about
<1>6. ~auth => key[1] = Nothing
  BY KeyOwner DEF key
<1>7. Status(request) \in Int
  BY Statuses
<1>8. OwnProperty'
  BY <1>1, <1>4, <1>5, <1>6, <1>7, OwnAnswer
<1>. QED BY <1>1, <1>8 DEF DeskInv, DeskTypeOK, TurnsAreTheirs

LEMMA DecideKeepsInv ==
  ASSUME DeskInv, NEW request \in Request, Decide(request)
  PROVE  DeskInv'
<1>. DEFINE about == Asked(request)
            status == IF Status(request) # 200 THEN Status(request) ELSE PostedStatus(request)
<1>1. /\ auth \in BOOLEAN /\ clock \in Int /\ UNCHANGED <<auth, clock, talks, said>>
      /\ reply' = [Answer(request, status, about, {about}) EXCEPT !.decides = TRUE]
  BY Zenon DEF Decide, DeskInv, DeskTypeOK
<1>2. status \in Int /\ (status < 400 => Status(request) < 400)
  BY Statuses
<1>3. auth /\ Status(request) < 400 => about = request.token.property
  BY <1>1, SignedFor
<1>4. ~auth => about = request.named
  BY DEF Asked
<1>. HIDE DEF about, status
<1>5. OwnProperty'
  BY <1>1, <1>2, <1>3, <1>4, OwnAnswer
<1>. QED BY <1>1, <1>5 DEF DeskInv, DeskTypeOK, TurnsAreTheirs

LEMMA TalkKeepsInv ==
  ASSUME DeskInv, NEW request \in Request, NEW conversation \in Conversations,
         NEW template, NEW lines, Talk(request, conversation, template, lines)
  PROVE  DeskInv'
<1>. DEFINE about == Selection(request)
            key == Key(request, conversation)
            turn == [by |-> Speaker(request), in |-> conversation, n |-> Len(said) + 1,
                     outcome |-> Outcome(lines, template)]
            turns == LastOf(Append(Turns(key), turn))
            owners == {t.by : t \in ToSet(turns)}
<1>1. /\ auth \in BOOLEAN /\ clock \in Int /\ UNCHANGED <<auth, clock>>
      /\ Status(request) = 200
      /\ talks' = Keep(key, turns) /\ said' = Append(said, turn)
      /\ reply' = Answer(request, 200, about, owners)
  BY Zenon DEF Talk, DeskInv, DeskTypeOK
<1>2. /\ key \in Speakers \X Conversations
      /\ key[1] = Speaker(request) /\ Speaker(request) \in Speakers
      /\ auth => key[1] = request.token.property
      /\ ~auth => key[1] = Nothing
  BY <1>1, KeyOwner, SignedFor DEF Speakers, Speaker
<1>3. turn \in Turn /\ turn.by = key[1]
  <2>1. Outcome(lines, template) \in {"rule", "question", "problem"}
    BY DEF Outcome
  <2>2. Len(said) + 1 \in Nat
    BY DEF DeskInv, DeskTypeOK
  <2>. QED BY <1>2, <2>1, <2>2 DEF Turn
<1>4. Turns(key) \in Seq(Turn) /\ \A k \in DOMAIN Turns(key) : Turns(key)[k].by = key[1]
  BY TurnsOfKey DEF DeskInv
<1>. HIDE DEF key, turn
<1>5. /\ Append(Turns(key), turn) \in Seq(Turn)
      /\ \A k \in DOMAIN Append(Turns(key), turn) : Append(Turns(key), turn)[k].by = key[1]
  BY <1>3, <1>4
<1>6. turns \in Seq(Turn) /\ \A k \in DOMAIN turns : turns[k].by = key[1]
  BY <1>5, LastOfTurns
<1>7. owners \subseteq {key[1]}
  BY <1>6 DEF ToSet
<1>. HIDE DEF turns, owners, about
<1>8. talks' \in Seq(Talking) /\ TurnsAreTheirs'
  BY <1>1, <1>2, <1>6, KeptByKey DEF DeskInv
<1>9. said' \in Seq(Turn)
  BY <1>1, <1>3 DEF DeskInv, DeskTypeOK
<1>10. auth => about = request.token.property
  BY <1>1, SignedFor DEF about
<1>11. /\ Status(request) < 400
       /\ auth => about = request.token.property /\ owners \subseteq {about}
       /\ ~auth => owners \subseteq {about, Nothing}
  BY <1>1, <1>2, <1>7, <1>10
<1>. DEFINE status == Status(request)
<1>12. /\ status \in Int /\ status < 400
       /\ auth \in BOOLEAN /\ clock \in Int /\ UNCHANGED <<auth, clock>>
  BY <1>1
<1>13. reply' = Answer(request, status, about, owners)
  BY <1>1
<1>. HIDE DEF status
<1>14. OwnProperty'
  BY <1>11, <1>12, <1>13, OwnAnswer
<1>. QED BY <1>1, <1>8, <1>9, <1>14 DEF DeskInv, DeskTypeOK

LEMMA AcceptKeepsInv ==
  ASSUME DeskInv, NEW request \in Request, NEW id, NEW named, NEW sentence,
         Accept(request, id, named, sentence)
  PROVE  DeskInv'
<1>. DEFINE about == Selection(request)
            wrong == Compilation(sentence, DEPLOYMENT_KEYS, Windows[TemplateId(named)],
                                 Settings[about]) # {}
            form == FormStatus(id, TemplateId(named))
            status == IF Status(request) # 200 THEN Status(request)
                      ELSE IF form # 200 THEN form
                      ELSE IF wrong THEN 422 ELSE 201
<1>1. /\ auth \in BOOLEAN /\ clock \in Int /\ UNCHANGED <<auth, clock, talks, said>>
      /\ reply' = Answer(request, status, about, {about})
  BY Zenon DEF Accept, DeskInv, DeskTypeOK
<1>2. FormStatus(id, TemplateId(named)) \in {200, 400, 409}
  BY DEF FormStatus
<1>. HIDE DEF wrong
<1>3. status \in Int /\ (status < 400 => Status(request) < 400)
  BY <1>2, Statuses
<1>4. auth /\ Status(request) < 400 => about = request.token.property
  BY <1>1, SignedFor
<1>. HIDE DEF about, status
<1>5. OwnProperty'
  BY <1>1, <1>3, <1>4, OwnAnswer
<1>. QED BY <1>1, <1>5 DEF DeskInv, DeskTypeOK, TurnsAreTheirs

LEMMA DeskInvStep ==
  DeskInv /\ [DeskNext(Request, Replies, Sentences)]_deskVars => DeskInv'
<1>. SUFFICES ASSUME DeskInv, [DeskNext(Request, Replies, Sentences)]_deskVars
              PROVE  DeskInv'
  OBVIOUS
<1>1. CASE Respond
  BY <1>1 DEF Respond, DeskInv, DeskTypeOK, TurnsAreTheirs, OwnProperty
<1>2. CASE Tick
  BY <1>2 DEF Tick, DeskInv, DeskTypeOK, TurnsAreTheirs, OwnProperty
<1>3. CASE UNCHANGED deskVars
  BY <1>3 DEF deskVars, DeskInv, DeskTypeOK, TurnsAreTheirs, OwnProperty
<1>. QED BY <1>1, <1>2, <1>3, BrowseKeepsInv, DecideKeepsInv, TalkKeepsInv, AcceptKeepsInv
         DEF DeskNext

\* Whatever the URL and form name and whoever wrote the token: an answer is about
\* the property it was signed for and shows nobody else's drafts or words; without
\* a secret, a decision is for the property it names.
THEOREM RequestsSeeTheirProperty == DeskSpec => []OwnProperty
<1>1. DeskInv => OwnProperty
  BY DEF DeskInv
<1>. QED BY DeskInvInit, DeskInvStep, <1>1, PTL DEF DeskSpec

------------------------------------------------------------------------------
(* What a proposer is given of a conversation.                              *)

\* turns is the end of what key has said in spoken.
Transcript(turns, key, spoken) ==
  /\ Len(turns) \in 1 .. TurnsKept
  /\ \A k \in 1 .. Len(turns) :
       /\ turns[k].n \in 1 .. Len(spoken) /\ spoken[turns[k].n] = turns[k]
       /\ turns[k].by = key[1] /\ turns[k].in = key[2]
  /\ \A j, k \in 1 .. Len(turns) : j < k => turns[j].n < turns[k].n
  /\ \A m \in turns[1].n .. Len(spoken) :
       spoken[m].by = key[1] /\ spoken[m].in = key[2] =>
         \E k \in 1 .. Len(turns) : turns[k].n = m

\* Every conversation that is kept has one entry, of which this is so.
Kept(list, spoken) ==
  /\ \A i \in 1 .. Len(list) : Transcript(list[i].turns, list[i].key, spoken)
  /\ \A i, j \in 1 .. Len(list) : list[i].key = list[j].key => i = j

LastIsHeard ==
  said # <<>> => \E i \in DOMAIN talks : Last(talks[i].turns) = Last(said)

TalksInv == DeskTypeOK /\ Len(talks) <= TalksKept /\ Kept(talks, said) /\ LastIsHeard

\* What others say does not touch a transcript.
LEMMA TranscriptStays ==
  ASSUME NEW spoken \in Seq(Turn), NEW turn \in Turn, NEW turns \in Seq(Turn),
         NEW key \in Speakers \X Conversations, Transcript(turns, key, spoken),
         ~(turn.by = key[1] /\ turn.in = key[2])
  PROVE  Transcript(turns, key, Append(spoken, turn))
<1>. DEFINE now == Append(spoken, turn)
<1>1. /\ Len(spoken) \in Nat /\ Len(now) = Len(spoken) + 1
      /\ \A m \in 1 .. Len(spoken) : now[m] = spoken[m]
      /\ now[Len(now)] = turn
  OBVIOUS
<1>2. Len(turns) \in 1 .. TurnsKept /\ TurnsKept \in Nat /\ 1 \in 1 .. Len(turns)
  BY TokensAssumption DEF Transcript
<1>3. turns[1].n \in 1 .. Len(spoken)
  BY <1>2 DEF Transcript
<1>. HIDE DEF now
<1>4. \A k \in 1 .. Len(turns) :
        /\ turns[k].n \in 1 .. Len(now) /\ now[turns[k].n] = turns[k]
        /\ turns[k].by = key[1] /\ turns[k].in = key[2]
  BY <1>1 DEF Transcript
<1>5. ASSUME NEW m \in turns[1].n .. Len(now), now[m].by = key[1], now[m].in = key[2]
      PROVE  \E k \in 1 .. Len(turns) : turns[k].n = m
  <2>1. m # Len(now)
    BY <1>1, <1>5
  <2>2. m \in turns[1].n .. Len(spoken) /\ m \in 1 .. Len(spoken)
    BY <1>1, <1>3, <2>1
  <2>3. spoken[m].by = key[1] /\ spoken[m].in = key[2]
    BY <1>1, <1>5, <2>2
  <2>. QED BY <2>2, <2>3 DEF Transcript
<1>. QED BY <1>4, <1>5 DEF Transcript, now

\* What is said joins the end of its own transcript, of which the end is kept.
LEMMA TranscriptGrows ==
  ASSUME NEW spoken \in Seq(Turn), NEW turns \in Seq(Turn), NEW turn \in Turn,
         NEW key \in Speakers \X Conversations,
         turns = <<>> \/ Transcript(turns, key, spoken),
         turn.n = Len(spoken) + 1, turn.by = key[1], turn.in = key[2]
  PROVE  /\ Transcript(LastOf(Append(turns, turn)), key, Append(spoken, turn))
         /\ Last(LastOf(Append(turns, turn))) = turn
<1>. DEFINE now == Append(spoken, turn)
            all == Append(turns, turn)
            from == IF Len(all) <= TurnsKept THEN 1 ELSE Len(all) - TurnsKept + 1
            kept == LastOf(all)
<1>1. /\ Len(spoken) \in Nat /\ Len(now) = Len(spoken) + 1
      /\ \A m \in 1 .. Len(spoken) : now[m] = spoken[m]
      /\ now[Len(now)] = turn
  OBVIOUS
<1>2. /\ Len(turns) \in Nat /\ Len(all) = Len(turns) + 1 /\ all \in Seq(Turn)
      /\ \A k \in 1 .. Len(turns) : all[k] = turns[k]
      /\ all[Len(all)] = turn
  OBVIOUS
<1>3. TurnsKept \in Nat /\ TurnsKept > 0
  BY TokensAssumption
<1>. HIDE DEF now, all
<1>4. \A k \in 1 .. Len(turns) :
        /\ turns[k].n \in 1 .. Len(spoken) /\ spoken[turns[k].n] = turns[k]
        /\ turns[k].by = key[1] /\ turns[k].in = key[2]
  <2>1. CASE turns = <<>>
    <3>1. 1 .. Len(turns) = {}
      BY <2>1
    <3>. QED BY <3>1
  <2>2. CASE Transcript(turns, key, spoken)
    BY <2>2 DEF Transcript
  <2>. QED BY <2>1, <2>2
<1>5. \A k \in 1 .. Len(all) :
        /\ all[k].n \in 1 .. Len(now) /\ now[all[k].n] = all[k]
        /\ all[k].by = key[1] /\ all[k].in = key[2]
  <2>. SUFFICES ASSUME NEW k \in 1 .. Len(all)
                PROVE  /\ all[k].n \in 1 .. Len(now) /\ now[all[k].n] = all[k]
                       /\ all[k].by = key[1] /\ all[k].in = key[2]
    OBVIOUS
  <2>1. CASE k = Len(all)
    BY <1>1, <1>2, <2>1
  <2>2. CASE k # Len(all)
    <3>1. k \in 1 .. Len(turns)
      BY <1>2, <2>2
    <3>. QED BY <1>1, <1>2, <1>4, <3>1
  <2>. QED BY <2>1, <2>2
<1>6. ASSUME NEW j \in 1 .. Len(all), NEW k \in 1 .. Len(all), j < k
      PROVE  all[j].n < all[k].n
  <2>1. j \in 1 .. Len(turns) /\ turns # <<>>
    BY <1>2, <1>6
  <2>2. CASE k = Len(all)
    BY <1>1, <1>2, <1>4, <2>1, <2>2
  <2>3. CASE k # Len(all)
    <3>1. k \in 1 .. Len(turns)
      BY <1>2, <2>3
    <3>2. turns[j].n < turns[k].n
      BY <1>6, <2>1, <3>1 DEF Transcript
    <3>. QED BY <1>2, <2>1, <3>1, <3>2
  <2>. QED BY <2>2, <2>3
<1>7. ASSUME NEW m \in all[1].n .. Len(now), now[m].by = key[1], now[m].in = key[2]
      PROVE  \E k \in 1 .. Len(all) : all[k].n = m
  <2>1. all[1].n \in 1 .. Len(now)
    BY <1>2, <1>5
  <2>2. CASE m = Len(now)
    <3>1. all[Len(all)].n = m /\ Len(all) \in 1 .. Len(all)
      BY <1>1, <1>2, <2>2
    <3>. QED BY <3>1
  <2>3. CASE m # Len(now)
    <3>1. m \in 1 .. Len(spoken)
      BY <1>1, <2>1, <2>3
    <3>2. turns # <<>> /\ 1 \in 1 .. Len(turns)
      <4>1. ASSUME turns = <<>> PROVE FALSE
        <5>1. all[1] = turn
          BY <1>2, <4>1
        <5>. QED BY <1>1, <3>1, <5>1
      <4>. QED BY <1>2, <4>1
    <3>3. m \in turns[1].n .. Len(spoken) /\ spoken[m].by = key[1] /\ spoken[m].in = key[2]
      BY <1>1, <1>2, <1>4, <1>7, <3>1, <3>2
    <3>4. PICK k \in 1 .. Len(turns) : turns[k].n = m
      BY <3>2, <3>3 DEF Transcript
    <3>. QED BY <1>2, <3>4
  <2>. QED BY <2>2, <2>3
<1>8. from \in 1 .. Len(all) /\ Len(all) - from + 1 \in 1 .. TurnsKept
  BY <1>2, <1>3
<1>9. /\ Len(kept) = Len(all) - from + 1
      /\ \A k \in 1 .. Len(kept) : k + from - 1 \in 1 .. Len(all) /\ kept[k] = all[k + from - 1]
  <2>1. CASE Len(all) <= TurnsKept
    <3>1. kept = all /\ from = 1
      BY <2>1 DEF LastOf
    <3>. HIDE DEF kept, from
    <3>. QED BY <1>2, <3>1
  <2>2. CASE ~(Len(all) <= TurnsKept)
    <3>1. kept = SubSeq(all, from, Len(all))
      BY <2>2 DEF LastOf
    <3>. HIDE DEF kept, from
    <3>. QED BY <1>2, <1>8, <3>1
  <2>. QED BY <2>1, <2>2
<1>. HIDE DEF from, kept
<1>10. /\ Len(kept) \in 1 .. TurnsKept /\ Len(kept) + from - 1 = Len(all) /\ from \in Nat
       /\ kept[1] = all[from] /\ kept[Len(kept)] = turn
  <2>1. Len(kept) \in 1 .. TurnsKept /\ Len(kept) + from - 1 = Len(all) /\ from \in Nat
    BY <1>2, <1>3, <1>8, <1>9
  <2>2. 1 \in 1 .. Len(kept) /\ Len(kept) \in 1 .. Len(kept) /\ 1 + from - 1 = from
    BY <1>3, <2>1
  <2>3. kept[1] = all[from] /\ kept[Len(kept)] = all[Len(all)]
    BY <1>9, <2>1, <2>2
  <2>. QED BY <1>2, <2>1, <2>3
<1>11. \A k \in 1 .. Len(kept) :
         /\ kept[k].n \in 1 .. Len(now) /\ now[kept[k].n] = kept[k]
         /\ kept[k].by = key[1] /\ kept[k].in = key[2]
  BY <1>5, <1>9
<1>12. \A j, k \in 1 .. Len(kept) : j < k => kept[j].n < kept[k].n
  <2>. SUFFICES ASSUME NEW j \in 1 .. Len(kept), NEW k \in 1 .. Len(kept), j < k
                PROVE  kept[j].n < kept[k].n
    OBVIOUS
  <2>1. /\ j + from - 1 \in 1 .. Len(all) /\ kept[j] = all[j + from - 1]
        /\ k + from - 1 \in 1 .. Len(all) /\ kept[k] = all[k + from - 1]
    BY <1>9
  <2>2. j + from - 1 < k + from - 1
    BY <1>8
  <2>. QED BY <1>6, <2>1, <2>2
<1>13. ASSUME NEW m \in kept[1].n .. Len(now), now[m].by = key[1], now[m].in = key[2]
       PROVE  \E k \in 1 .. Len(kept) : kept[k].n = m
  <2>1. /\ all[1].n \in Nat /\ all[from].n \in Nat /\ all[1].n <= all[from].n
        /\ Len(now) \in Nat /\ m \in Int
    <3>1. 1 \in 1 .. Len(all) /\ Len(now) \in Nat
      BY <1>1, <1>8
    <3>2. all[1].n \in Nat /\ all[from].n \in Nat
      BY <1>5, <1>8, <3>1
    <3>0. m \in Int
      OBVIOUS
    <3>3. CASE from = 1
      BY <3>0, <3>1, <3>2, <3>3
    <3>4. CASE from # 1
      <4>1. 1 < from
        BY <1>8, <3>4
      <4>2. all[1].n < all[from].n
        BY <1>6, <1>8, <3>1, <4>1
      <4>. QED BY <3>0, <3>1, <3>2, <4>2
    <3>. QED BY <3>3, <3>4
  <2>2. m \in all[1].n .. Len(now)
    BY <1>10, <2>1
  <2>3. PICK k \in 1 .. Len(all) : all[k].n = m
    BY <1>7, <1>13, <2>2
  <2>4. ~(k < from)
    <3>1. ASSUME k < from PROVE FALSE
      <4>1. all[k].n < all[from].n
        BY <1>6, <1>8, <2>3, <3>1
      <4>2. kept[1].n = all[from].n /\ kept[1].n <= m
        BY <1>10, <2>1
      <4>. QED BY <2>1, <2>3, <4>1, <4>2
    <3>. QED BY <3>1
  <2>5. k - from + 1 \in 1 .. Len(kept) /\ (k - from + 1) + from - 1 = k
    BY <1>2, <1>8, <1>10, <2>3, <2>4
  <2>6. kept[k - from + 1] = all[k]
    BY <1>9, <2>5
  <2>. QED BY <2>3, <2>5, <2>6
<1>14. Transcript(kept, key, now)
  BY <1>10, <1>11, <1>12, <1>13 DEF Transcript
<1>. QED BY <1>10, <1>14 DEF Last, kept, all, now

\* The transcript that is looked up, or none yet.
LEMMA TurnsOfTalk ==
  ASSUME TalksInv, NEW key
  PROVE  /\ Turns(key) \in Seq(Turn)
         /\ Turns(key) = <<>> \/ Transcript(Turns(key), key, said)
<1>1. CASE Places(key) = {}
  BY <1>1 DEF Turns
<1>2. CASE Places(key) # {}
  <2>1. Place(key) \in Places(key)
    BY <1>2 DEF Place
  <2>2. talks \in Seq(Talking) /\ Place(key) \in 1 .. Len(talks) /\ talks[Place(key)].key = key
    BY <2>1 DEF Places, TalksInv, DeskTypeOK
  <2>3. Turns(key) = talks[Place(key)].turns /\ talks[Place(key)] \in Talking
    BY <1>2, <2>2 DEF Turns
  <2>. QED BY <2>2, <2>3 DEF TalksInv, Kept, Talking
<1>. QED BY <1>1, <1>2

\* A turn is kept under its key, whatever else has to go.
LEMMA TalkKeepsTranscripts ==
  ASSUME TalksInv, NEW key \in Speakers \X Conversations, NEW turn \in Turn,
         turn.n = Len(said) + 1, turn.by = key[1], turn.in = key[2],
         talks' = Keep(key, LastOf(Append(Turns(key), turn))),
         said' = Append(said, turn), talks' \in Seq(Talking)
  PROVE  Len(talks') <= TalksKept /\ Kept(talks', said') /\ LastIsHeard'
<1>. DEFINE turns == LastOf(Append(Turns(key), turn))
            entry == [key |-> key, turns |-> turns]
            grown == IF Places(key) = {} THEN Append(talks, entry)
                     ELSE [talks EXCEPT ![Place(key)] = entry]
<1>1. /\ talks \in Seq(Talking) /\ said \in Seq(Turn) /\ Len(talks) <= TalksKept
      /\ TalksKept \in Nat \ {0}
      /\ \A i \in 1 .. Len(talks) : Transcript(talks[i].turns, talks[i].key, said)
      /\ \A i, j \in 1 .. Len(talks) : talks[i].key = talks[j].key => i = j
  BY TokensAssumption DEF TalksInv, DeskTypeOK, Kept
<1>2. Transcript(turns, key, said') /\ Last(turns) = turn
  <2>1. Turns(key) \in Seq(Turn) /\ (Turns(key) = <<>> \/ Transcript(Turns(key), key, said))
    BY TurnsOfTalk
  <2>2. said \in Seq(Turn) /\ turn.n = Len(said) + 1 /\ turn.by = key[1] /\ turn.in = key[2]
    BY <1>1
  <2>3. Transcript(LastOf(Append(Turns(key), turn)), key, Append(said, turn))
        /\ Last(LastOf(Append(Turns(key), turn))) = turn
    BY <2>1, <2>2, TranscriptGrows
  <2>. QED BY <2>3
<1>3. said' # <<>> /\ Last(said') = turn
  <2>1. Len(said') = Len(said) + 1 /\ Len(said) \in Nat /\ said'[Len(said) + 1] = turn
    BY <1>1
  <2>2. said' # <<>>
    BY <2>1
  <2>. QED BY <2>1, <2>2 DEF Last
<1>4. ASSUME NEW i \in 1 .. Len(talks), talks[i].key # key
      PROVE  Transcript(talks[i].turns, talks[i].key, said')
  <2>1. talks[i].turns \in Seq(Turn) /\ talks[i].key \in Speakers \X Conversations
    <3>1. talks[i] \in Talking
      BY <1>1
    <3>. QED BY <3>1 DEF Talking
  <2>2. ~(turn.by = talks[i].key[1] /\ turn.in = talks[i].key[2])
    <3>1. talks[i].key = <<talks[i].key[1], talks[i].key[2]>> /\ key = <<key[1], key[2]>>
      BY <2>1
    <3>. QED BY <1>4, <3>1
  <2>. QED BY <1>1, <2>1, <2>2, TranscriptStays
<1>. HIDE DEF turns
<1>. DEFINE Listed(list) ==
       /\ Kept(list, said')
       /\ \E i \in 1 .. Len(list) : list[i] = entry
<1>5. talks' = Capped(grown)
  BY DEF Keep, turns
<1>6. ASSUME Places(key) = {}
      PROVE  Len(talks') <= TalksKept /\ Len(talks') \in Nat /\ Listed(talks')
  <2>1. \A i \in 1 .. Len(talks) : talks[i].key # key
    BY <1>1, <1>6 DEF Places
  <2>2. /\ grown = Append(talks, entry) /\ Len(grown) = Len(talks) + 1 /\ Len(talks) \in Nat
        /\ \A i \in 1 .. Len(talks) : grown[i] = talks[i]
        /\ grown[Len(grown)] = entry
    BY <1>1, <1>6
  <2>. HIDE DEF grown
  <2>3. \A i \in 1 .. Len(grown) : i = Len(grown) \/ i \in 1 .. Len(talks)
    BY <2>2
  <2>. HIDE DEF entry
  <2>4. entry.key = key /\ entry.turns = turns
    BY DEF entry
  <2>5. \A i \in 1 .. Len(grown) : Transcript(grown[i].turns, grown[i].key, said')
    BY <1>2, <1>4, <2>1, <2>2, <2>3, <2>4
  <2>6. ASSUME NEW i \in 1 .. Len(grown), NEW j \in 1 .. Len(grown), grown[i].key = grown[j].key
        PROVE  i = j
    <3>1. CASE i \in 1 .. Len(talks) /\ j \in 1 .. Len(talks)
      BY <1>1, <2>2, <2>6, <3>1
    <3>2. CASE i \in 1 .. Len(talks) /\ j = Len(grown)
      BY <2>1, <2>2, <2>4, <2>6, <3>2
    <3>3. CASE i = Len(grown) /\ j \in 1 .. Len(talks)
      BY <2>1, <2>2, <2>4, <2>6, <3>3
    <3>. QED BY <2>3, <3>1, <3>2, <3>3
  <2>7. CASE Len(grown) > TalksKept
    <3>1. /\ talks' = Tail(grown) /\ Len(talks') = Len(talks)
          /\ \A i \in 1 .. Len(talks) : i + 1 \in 1 .. Len(grown) /\ talks'[i] = grown[i + 1]
      <4>1. talks' = Tail(grown)
        BY <1>5, <2>7 DEF Capped
      <4>2. grown \in Seq(Talking \cup {entry}) /\ grown # <<>>
        <5>1. Append(talks, entry) \in Seq(Talking \cup {entry})
          BY <1>1
        <5>2. grown # <<>>
          <6>1. Len(grown) # 0
            BY <2>2
          <6>. QED BY <6>1
        <5>3. grown = Append(talks, entry)
          BY <2>2
        <5>. QED BY <5>1, <5>2, <5>3
      <4>. QED BY <2>2, <4>1, <4>2
    <3>2. talks'[Len(talks)] = entry /\ Len(talks) \in 1 .. Len(talks)
      BY <1>1, <2>2, <2>7, <3>1
    <3>3. \A j \in 1 .. Len(talks') : Transcript(talks'[j].turns, talks'[j].key, said')
      BY <2>5, <3>1
    <3>4. ASSUME NEW j \in 1 .. Len(talks'), NEW k \in 1 .. Len(talks'),
                 talks'[j].key = talks'[k].key
          PROVE  j = k
      <4>1. j \in Nat /\ k \in Nat /\ j + 1 = k + 1
        BY <2>6, <3>1, <3>4
      <4>. QED BY <4>1
    <3>5. Kept(talks', said')
      BY <3>3, <3>4 DEF Kept
    <3>. QED BY <1>1, <3>1, <3>2, <3>5
  <2>8. CASE ~(Len(grown) > TalksKept)
    <3>1. talks' = grown
      BY <1>5, <2>8 DEF Capped
    <3>2. Kept(talks', said')
      BY <2>5, <2>6, <3>1 DEF Kept
    <3>3. Len(grown) \in 1 .. Len(grown)
      BY <2>2
    <3>. QED BY <1>1, <2>2, <2>8, <3>1, <3>2, <3>3
  <2>. QED BY <2>7, <2>8
<1>7. ASSUME Places(key) # {}
      PROVE  Len(talks') <= TalksKept /\ Len(talks') \in Nat /\ Listed(talks')
  <2>1. Place(key) \in Places(key)
    BY <1>7 DEF Place
  <2>2. Place(key) \in 1 .. Len(talks) /\ talks[Place(key)].key = key
    BY <1>1, <2>1 DEF Places
  <2>3. \A i \in 1 .. Len(talks) : talks[i].key = key => i = Place(key)
    BY <1>1, <2>2
  <2>4. /\ Len(grown) = Len(talks)
        /\ \A i \in 1 .. Len(talks) : grown[i] = IF i = Place(key) THEN entry ELSE talks[i]
    BY <1>1, <1>7, <2>2
  <2>. HIDE DEF grown, entry
  <2>5. entry.key = key /\ entry.turns = turns
    BY DEF entry
  <2>6. talks' = grown
    BY <1>1, <1>5, <2>4 DEF Capped
  <2>7. \A i \in 1 .. Len(grown) : Transcript(grown[i].turns, grown[i].key, said')
    BY <1>2, <1>4, <2>3, <2>4, <2>5
  <2>8. \A i, j \in 1 .. Len(grown) : grown[i].key = grown[j].key => i = j
    BY <1>1, <2>2, <2>3, <2>4, <2>5
  <2>9. Kept(talks', said')
    BY <2>6, <2>7, <2>8 DEF Kept
  <2>. QED BY <1>1, <2>2, <2>4, <2>6, <2>9
<1>. HIDE DEF grown
<1>8. Len(talks') <= TalksKept /\ Len(talks') \in Nat /\ Listed(talks')
  BY <1>6, <1>7
<1>9. PICK i \in 1 .. Len(talks') : talks'[i] = entry
  BY <1>8
<1>10. i \in DOMAIN talks' /\ Last(talks'[i].turns) = turn
  BY <1>2, <1>8, <1>9
<1>. QED BY <1>3, <1>8, <1>10 DEF LastIsHeard

LEMMA TalksInvStep ==
  DeskInv' /\ TalksInv /\ [DeskNext(Request, Replies, Sentences)]_deskVars => TalksInv'
<1>. SUFFICES ASSUME DeskInv', TalksInv, [DeskNext(Request, Replies, Sentences)]_deskVars
              PROVE  TalksInv'
  OBVIOUS
<1>1. CASE UNCHANGED <<talks, said>>
  BY <1>1 DEF TalksInv, DeskInv, LastIsHeard
<1>2. ASSUME NEW request \in Request, NEW conversation \in Conversations,
             NEW template, NEW lines, Talk(request, conversation, template, lines)
      PROVE  TalksInv'
  <2>. DEFINE key == Key(request, conversation)
              turn == [by |-> Speaker(request), in |-> conversation, n |-> Len(said) + 1,
                       outcome |-> Outcome(lines, template)]
  <2>1. /\ auth \in BOOLEAN /\ clock \in Int /\ said \in Seq(Turn)
        /\ Status(request) = 200
        /\ talks' = Keep(key, LastOf(Append(Turns(key), turn))) /\ said' = Append(said, turn)
    BY <1>2, Zenon DEF Talk, TalksInv, DeskTypeOK
  <2>2. key \in Speakers \X Conversations /\ key[1] = Speaker(request)
    BY <2>1, KeyOwner
  <2>3. key[2] = conversation
    BY DEF Key
  <2>4. turn \in Turn /\ turn.n = Len(said) + 1 /\ turn.by = key[1] /\ turn.in = key[2]
    <3>1. Outcome(lines, template) \in {"rule", "question", "problem"}
      BY DEF Outcome
    <3>2. Len(said) + 1 \in Nat /\ Speaker(request) \in Speakers
      BY <2>1, <2>2
    <3>. HIDE DEF key
    <3>. QED BY <2>2, <2>3, <3>1, <3>2 DEF Turn
  <2>. HIDE DEF key, turn
  <2>. QED BY <2>1, <2>2, <2>4, TalkKeepsTranscripts DEF TalksInv, DeskInv, DeskTypeOK
<1>3. ASSUME NEW request \in Request, NEW conversation \in Conversations,
             Browse(request, conversation) \/ Decide(request)
      PROVE  UNCHANGED <<talks, said>>
  BY <1>3 DEF Browse, Decide
<1>4. ASSUME NEW request \in Request, NEW id, NEW named, NEW sentence,
             Accept(request, id, named, sentence)
      PROVE  UNCHANGED <<talks, said>>
  BY <1>4, Zenon DEF Accept
<1>5. Respond \/ Tick \/ UNCHANGED deskVars => UNCHANGED <<talks, said>>
  BY DEF Respond, Tick, deskVars
<1>6. ASSUME NEW request \in Request, Decide(request)
      PROVE  UNCHANGED <<talks, said>>
  BY <1>6 DEF Decide
<1>. QED BY <1>1, <1>2, <1>3, <1>4, <1>5, <1>6 DEF DeskNext

LEMMA TalksInvSays == TalksInv => TranscriptIsOwn
<1>. SUFFICES ASSUME TalksInv PROVE TranscriptIsOwn
  OBVIOUS
<1>. USE DEF TalksInv
<1>1. ASSUME NEW i \in DOMAIN talks
      PROVE  LET turns == talks[i].turns IN
             /\ Len(turns) \in 1 .. TurnsKept
             /\ \A k \in DOMAIN turns : turns[k] = said[turns[k].n]
             /\ \A j, k \in DOMAIN turns : j < k => turns[j].n < turns[k].n
             /\ {turns[k].n : k \in DOMAIN turns} =
                  SaidFrom(turns[1].n, <<turns[1].by, turns[1].in>>)
  <2>. DEFINE turns == talks[i].turns
              key == talks[i].key
              owner == <<turns[1].by, turns[1].in>>
  <2>1. i \in 1 .. Len(talks) /\ talks[i] \in Talking
    BY DEF DeskTypeOK
  <2>2. Transcript(turns, key, said)
    BY <2>1 DEF Kept
  <2>3. turns \in Seq(Turn) /\ DOMAIN turns = 1 .. Len(turns) /\ said \in Seq(Turn)
    BY <2>1 DEF Talking, DeskTypeOK
  <2>4. 1 \in 1 .. Len(turns) /\ turns[1].n \in Nat
    <3>1. 1 \in 1 .. Len(turns)
      BY <2>2, TokensAssumption DEF Transcript
    <3>2. turns[1] \in Turn
      BY <2>3, <3>1
    <3>. QED BY <3>1, <3>2 DEF Turn
  <2>. HIDE DEF turns, key
  <2>5. owner = <<key[1], key[2]>>
    BY <2>2, <2>4 DEF Transcript
  <2>6. \A m : m \in SaidFrom(turns[1].n, owner) <=>
          /\ m \in turns[1].n .. Len(said)
          /\ said[m].by = key[1] /\ said[m].in = key[2]
    BY <2>5 DEF SaidFrom
  <2>. HIDE DEF owner
  <2>7. ASSUME NEW k \in 1 .. Len(turns)
        PROVE  turns[k].n \in SaidFrom(turns[1].n, owner)
    <3>1. turns[1].n <= turns[k].n
      <4>1. CASE k = 1
        BY <2>4, <4>1
      <4>2. CASE k # 1
        <5>1. 1 < k
          BY <4>2
        <5>2. turns[1].n < turns[k].n /\ turns[k].n \in 1 .. Len(said)
          BY <2>2, <2>4, <5>1 DEF Transcript
        <5>. QED BY <2>4, <5>2
      <4>. QED BY <4>1, <4>2
    <3>2. /\ turns[k].n \in 1 .. Len(said)
          /\ said[turns[k].n].by = key[1] /\ said[turns[k].n].in = key[2]
      BY <2>2 DEF Transcript
    <3>3. turns[k].n \in turns[1].n .. Len(said)
      BY <2>4, <3>1, <3>2
    <3>. QED BY <2>6, <3>2, <3>3
  <2>8. ASSUME NEW m \in SaidFrom(turns[1].n, owner)
        PROVE  \E k \in 1 .. Len(turns) : turns[k].n = m
    BY <2>2, <2>6 DEF Transcript
  <2>9. {turns[k].n : k \in DOMAIN turns} = SaidFrom(turns[1].n, owner)
    BY <2>3, <2>7, <2>8
  <2>. QED BY <2>2, <2>3, <2>9 DEF Transcript, turns, owner
<1>. QED BY <1>1 DEF TranscriptIsOwn, LastIsHeard

\* A proposer is given the end of what that property said in that conversation,
\* in order and without a gap, however many conversations there are, whoever else
\* speaks in between and whichever of them had to go; the one that has just been
\* spoken in never goes.
THEOREM TranscriptsAreOwn == DeskSpec => []TranscriptIsOwn
<1>1. DeskInit => TalksInv
  <2>. SUFFICES ASSUME DeskInit PROVE TalksInv
    OBVIOUS
  <2>1. DeskTypeOK
    BY DeskInvInit DEF DeskInv
  <2>2. talks = <<>> /\ said = <<>> /\ Len(talks) = 0 /\ 1 .. Len(talks) = {}
    BY DEF DeskInit
  <2>. QED BY <2>1, <2>2, TokensAssumption DEF TalksInv, Kept, LastIsHeard
<1>. QED BY <1>1, DeskInvInit, DeskInvStep, TalksInvStep, TalksInvSays, PTL DEF DeskSpec

------------------------------------------------------------------------------
(* What is filed of a sentence.                                             *)

\* A set of natural numbers that is not empty has a least one.
LEMMA SomeLeast ==
  ASSUME NEW T, T \subseteq Nat, T # {}
  PROVE  \E x \in T : \A y \in T : x <= y
<1>. DEFINE R == {ss \in Nat \X Nat : ss[1] < ss[2]}
<1>1. IsWellFoundedOn(R, Nat)
  BY NatLessThanWellFounded, Zenon DEF OpToRel
<1>2. \A x, y \in Nat : <<y, x>> \in R \/ x <= y
  OBVIOUS
<1>. HIDE DEF R
<1>3. \E x \in T : \A y \in T : ~ (<<y, x>> \in R)
  BY <1>1, WFMin
<1>. QED BY <1>2, <1>3, Zenon

\* Nothing is refused when no part is.
LEMMA FirstOfNothing ==
  ASSUME NEW refusals, DOMAIN refusals \subseteq Nat, FirstOf(refusals) = Nothing
  PROVE  \A i \in DOMAIN refusals : refusals[i] = Nothing
<1>. DEFINE spoken == {i \in DOMAIN refusals : refusals[i] # Nothing}
<1>1. SUFFICES ASSUME spoken # {} PROVE FALSE
  OBVIOUS
<1>2. \E i \in spoken : \A j \in spoken : i <= j
  BY <1>1, SomeLeast
<1>3. (CHOOSE i \in spoken : \A j \in spoken : i <= j) \in spoken
  BY <1>2
<1>4. FirstOf(refusals) = refusals[CHOOSE i \in spoken : \A j \in spoken : i <= j]
  BY <1>1 DEF FirstOf
<1>. QED BY <1>3, <1>4

\* The phrases: what each is when it is said and when it is negated.
LEMMA Phrases ==
  /\ DOMAIN OPERATOR_PHRASES = {"oneOf", "within", "atMost", "atLeast", "lessThan", "moreThan",
       "greaterThan", "exists", "present", "missing", "resolved", "unresolved", "matching",
       "matches"}
  /\ OPERATOR_PHRASES["oneOf"] = [positive |-> "in", negative |-> "not_in", kind |-> "one"]
  /\ OPERATOR_PHRASES["within"] = [positive |-> "within", negative |-> "not_within", kind |-> "interval"]
  /\ OPERATOR_PHRASES["atMost"] = [positive |-> "lte", negative |-> Nothing, kind |-> "one"]
  /\ OPERATOR_PHRASES["atLeast"] = [positive |-> "gte", negative |-> Nothing, kind |-> "one"]
  /\ OPERATOR_PHRASES["lessThan"] = [positive |-> "lt", negative |-> Nothing, kind |-> "one"]
  /\ OPERATOR_PHRASES["moreThan"] = [positive |-> "gt", negative |-> Nothing, kind |-> "one"]
  /\ OPERATOR_PHRASES["greaterThan"] = [positive |-> "gt", negative |-> Nothing, kind |-> "one"]
  /\ OPERATOR_PHRASES["exists"] = [positive |-> "exists", negative |-> "not_exists", kind |-> "none"]
  /\ OPERATOR_PHRASES["present"] = [positive |-> "exists", negative |-> "not_exists", kind |-> "none"]
  /\ OPERATOR_PHRASES["missing"] = [positive |-> "not_exists", negative |-> Nothing, kind |-> "none"]
  /\ OPERATOR_PHRASES["resolved"] = [positive |-> "reference_exists", negative |-> "reference_missing", kind |-> "none"]
  /\ OPERATOR_PHRASES["unresolved"] = [positive |-> "reference_missing", negative |-> Nothing, kind |-> "none"]
  /\ OPERATOR_PHRASES["matching"] = [positive |-> "matches_ignore_case", negative |-> Nothing, kind |-> "one"]
  /\ OPERATOR_PHRASES["matches"] = [positive |-> "matches_ignore_case", negative |-> Nothing, kind |-> "one"]
BY DEF OPERATOR_PHRASES

\* What an accepted condition is.
AcceptedCondition(c) ==
  /\ IsCondition(c)
  /\ c.not => PhraseOf(c).negative # Nothing
  /\ PhraseOf(c).kind # "one" => c.absence = Nothing

LEMMA Unrefused ==
  /\ \A condition \in BOOLEAN : ParseError(condition) = Nothing => ~condition
  /\ Nothing # "parse" /\ Nothing \notin Dotted
BY NothingAssumption DEF ParseError

LEMMA ConditionIsAccepted ==
  ASSUME NEW c, IsCondition(c), ConditionRefusal(c) = Nothing
  PROVE  AcceptedCondition(c)
<1>. DEFINE third == ParseError(c.not /\ PhraseOf(c).negative = Nothing)
            fourth == CASE PhraseOf(c).kind = "one" -> FirstOf(<<OperandRefusal(c), AbsenceRefusal(c)>>)
              [] PhraseOf(c).kind = "interval" ->
                   FirstOf(<<FieldRefusal(c.interval.start), FieldRefusal(c.interval.end),
                             ParseError(c.absence # Nothing)>>)
              [] OTHER -> ParseError(c.absence # Nothing)
            all == <<FieldRefusal(c.field), ParseError(c.phrase = Nothing /\ ~c.is), third, fourth>>
<1>1. FirstOf(all) = Nothing
  BY DEF ConditionRefusal
<1>2. DOMAIN all = 1 .. 4 /\ all[3] = third /\ all[4] = fourth
  OBVIOUS
<1>3. third = Nothing /\ fourth = Nothing
  BY <1>1, <1>2, FirstOfNothing
<1>4. c.not => PhraseOf(c).negative # Nothing
  BY <1>3, Unrefused
<1>5. ASSUME PhraseOf(c).kind # "one" PROVE c.absence = Nothing
  <2>1. CASE PhraseOf(c).kind = "interval"
    <3>. DEFINE three == <<FieldRefusal(c.interval.start), FieldRefusal(c.interval.end),
                           ParseError(c.absence # Nothing)>>
    <3>1. FirstOf(three) = Nothing
      BY <1>3, <2>1
    <3>2. DOMAIN three = 1 .. 3 /\ three[3] = ParseError(c.absence # Nothing)
      OBVIOUS
    <3>3. ParseError(c.absence # Nothing) = Nothing
      BY <3>1, <3>2, FirstOfNothing
    <3>. QED BY <3>3, Unrefused
  <2>2. CASE PhraseOf(c).kind # "interval"
    BY <1>3, <1>5, <2>2, Unrefused
  <2>. QED BY <2>1, <2>2
<1>. QED BY <1>4, <1>5 DEF AcceptedCondition

LEMMA ConditionsAreAccepted ==
  ASSUME NEW conditions, conditions \in Seq(ToSet(conditions)),
         \A c \in ToSet(conditions) : IsCondition(c), ConditionsRefusal(conditions) = Nothing
  PROVE  \A i \in DOMAIN conditions : AcceptedCondition(conditions[i])
<1>. DEFINE each == [i \in DOMAIN conditions |-> ConditionRefusal(conditions[i])]
<1>1. DOMAIN each \subseteq Nat /\ FirstOf(each) = Nothing
  BY DEF ConditionsRefusal
<1>2. \A i \in DOMAIN conditions : ConditionRefusal(conditions[i]) = Nothing
  BY <1>1, FirstOfNothing
<1>. QED BY <1>2, ConditionIsAccepted DEF ToSet

\* What each operator says: the verb, whether it is said to hold, what it wants.
SAYS(verb, sense, kind) == [verb |-> verb, sense |-> sense, kind |-> kind]
OperatorSays ==
  [op \in {"equals", "not_equals", "in", "not_in", "within", "not_within", "lte", "gte", "lt", "gt",
           "exists", "not_exists", "reference_exists", "reference_missing", "matches_ignore_case"} |->
     CASE op = "equals"     -> SAYS(Nothing, "so", "one")
       [] op = "not_equals" -> SAYS(Nothing, "not so", "one")
       [] op = "in"         -> SAYS("oneOf", "so", "one")
       [] op = "not_in"     -> SAYS("oneOf", "not so", "one")
       [] op = "within"     -> SAYS("within", "so", "interval")
       [] op = "not_within" -> SAYS("within", "not so", "interval")
       [] op = "lte"        -> SAYS("atMost", "so", "one")
       [] op = "gte"        -> SAYS("atLeast", "so", "one")
       [] op = "lt"         -> SAYS("lessThan", "so", "one")
       [] op = "gt"         -> SAYS("moreThan", "so", "one")
       [] op = "exists"     -> SAYS("exists", "so", "none")
       [] op = "not_exists" -> SAYS("exists", "not so", "none")
       [] op = "reference_exists"  -> SAYS("resolved", "so", "none")
       [] op = "reference_missing" -> SAYS("resolved", "not so", "none")
       [] op = "matches_ignore_case" -> SAYS("matching", "so", "one")]

LEMMA SayingOfPhrase ==
  ASSUME NEW c, AcceptedCondition(c)
  PROVE  /\ Saying(c).verb = IF c.phrase \in DOMAIN VERB THEN VERB[c.phrase] ELSE c.phrase
         /\ (c.not <=> c.phrase \in OPPOSITES) => Saying(c).sense = "so"
         /\ ~(c.not <=> c.phrase \in OPPOSITES) => Saying(c).sense = "not so"
         /\ c.phrase \in DOMAIN OPERATOR_PHRASES => PhraseOf(c) = OPERATOR_PHRASES[c.phrase]
         /\ c.not => Operator(c) = PhraseOf(c).negative /\ PhraseOf(c).negative # Nothing
         /\ ~c.not => Operator(c) = PhraseOf(c).positive
BY NothingAssumption DEF Saying, PhraseOf, Operator, AcceptedCondition

\* The saying of one phrase, from what the phrase is.
LEMMA SayingBy ==
  ASSUME NEW c, AcceptedCondition(c), NEW verb, NEW positive, NEW negative, NEW kind,
         Saying(c).verb = verb, c.phrase \notin OPPOSITES,
         PhraseOf(c) = [positive |-> positive, negative |-> negative, kind |-> kind]
  PROVE  /\ PhraseOf(c).kind = kind
         /\ c.not => negative # Nothing /\ Saying(c).sense = "not so" /\ Operator(c) = negative
         /\ ~c.not => Saying(c).sense = "so" /\ Operator(c) = positive
<1>1. /\ (c.not <=> c.phrase \in OPPOSITES) => Saying(c).sense = "so"
      /\ ~(c.not <=> c.phrase \in OPPOSITES) => Saying(c).sense = "not so"
  BY SayingOfPhrase
<1>2. /\ c.not => Operator(c) = PhraseOf(c).negative /\ PhraseOf(c).negative # Nothing
      /\ ~c.not => Operator(c) = PhraseOf(c).positive
  BY SayingOfPhrase
<1>3. PhraseOf(c).positive = positive /\ PhraseOf(c).negative = negative /\ PhraseOf(c).kind = kind
  OBVIOUS
<1>. QED BY <1>1, <1>2, <1>3

LEMMA SaidOf ==
  ASSUME NEW c, NEW op, NEW verb, NEW sense, NEW kind,
         OperatorSays[op] = [verb |-> verb, sense |-> sense, kind |-> kind],
         Saying(c).verb = verb, Saying(c).sense = sense, PhraseOf(c).kind = kind, Operator(c) = op
  PROVE  /\ Saying(c).verb = OperatorSays[Operator(c)].verb
         /\ Saying(c).sense = OperatorSays[Operator(c)].sense
         /\ PhraseOf(c).kind = OperatorSays[Operator(c)].kind
OBVIOUS

\* A phrase that is not an opposite says of its operators what they say.
LEMMA PhraseSays ==
  ASSUME NEW c, AcceptedCondition(c), NEW verb, NEW positive, NEW negative, NEW kind,
         PhraseOf(c) = [positive |-> positive, negative |-> negative, kind |-> kind],
         Saying(c).verb = verb, c.phrase \notin OPPOSITES,
         OperatorSays[positive] = [verb |-> verb, sense |-> "so", kind |-> kind],
         negative # Nothing =>
           OperatorSays[negative] = [verb |-> verb, sense |-> "not so", kind |-> kind]
  PROVE  /\ Saying(c).verb = OperatorSays[Operator(c)].verb
         /\ Saying(c).sense = OperatorSays[Operator(c)].sense
         /\ PhraseOf(c).kind = OperatorSays[Operator(c)].kind
<1>1. /\ PhraseOf(c).kind = kind
      /\ c.not => negative # Nothing /\ Saying(c).sense = "not so" /\ Operator(c) = negative
      /\ ~c.not => Saying(c).sense = "so" /\ Operator(c) = positive
  BY SayingBy, Zenon
<1>2. CASE c.not
  <2>1. negative # Nothing /\ Saying(c).sense = "not so" /\ Operator(c) = negative
    BY <1>1, <1>2, Zenon
  <2>. QED BY <1>1, <2>1, SaidOf, Zenon
<1>3. CASE ~c.not
  <2>1. Saying(c).sense = "so" /\ Operator(c) = positive
    BY <1>1, <1>3, Zenon
  <2>. QED BY <1>1, <2>1, SaidOf, Zenon
<1>. QED BY <1>2, <1>3

\* The operator tells the verb, whether it is said to hold, and what is wanted.
LEMMA OperatorIsTheSaying ==
  ASSUME NEW c, AcceptedCondition(c)
  PROVE  /\ Saying(c).verb = OperatorSays[Operator(c)].verb
         /\ Saying(c).sense = OperatorSays[Operator(c)].sense
         /\ PhraseOf(c).kind = OperatorSays[Operator(c)].kind
<1>1. /\ DOMAIN VERB = {"present", "missing", "unresolved", "matches", "greaterThan"}
      /\ VERB["present"] = "exists" /\ VERB["missing"] = "exists" /\ VERB["unresolved"] = "resolved"
      /\ VERB["matches"] = "matching" /\ VERB["greaterThan"] = "moreThan"
      /\ OPPOSITES = {"missing", "unresolved"}
  BY DEF VERB, OPPOSITES
<1>2. c.phrase \in DOMAIN OPERATOR_PHRASES \cup {Nothing} /\ Nothing \notin DOMAIN OPERATOR_PHRASES
  BY NothingAssumption DEF AcceptedCondition, IsCondition
<1>3. CASE c.phrase = Nothing
  <2>1. PhraseOf(c) = [positive |-> "equals", negative |-> "not_equals", kind |-> "one"]
    BY <1>3, SayingOfPhrase, Phrases DEF PhraseOf
  <2>2. Saying(c).verb = Nothing /\ c.phrase \notin OPPOSITES
    BY <1>1, <1>2, <1>3, SayingOfPhrase, Phrases
  <2>3. OperatorSays["equals"] = [verb |-> Nothing, sense |-> "so", kind |-> "one"]
    BY DEF OperatorSays, SAYS
  <2>4. OperatorSays["not_equals"] = [verb |-> Nothing, sense |-> "not so", kind |-> "one"]
    BY DEF OperatorSays, SAYS
  <2>. QED BY <2>1, <2>2, <2>3, <2>4, PhraseSays
<1>4. CASE c.phrase = "oneOf"
  <2>1. PhraseOf(c) = [positive |-> "in", negative |-> "not_in", kind |-> "one"]
    BY <1>4, NothingAssumption DEF PhraseOf, OPERATOR_PHRASES
  <2>2. Saying(c).verb = "oneOf" /\ c.phrase \notin OPPOSITES
    BY <1>1, <1>4, SayingOfPhrase
  <2>3. OperatorSays["in"] = [verb |-> "oneOf", sense |-> "so", kind |-> "one"]
    BY DEF OperatorSays, SAYS
  <2>4. OperatorSays["not_in"] = [verb |-> "oneOf", sense |-> "not so", kind |-> "one"]
    BY DEF OperatorSays, SAYS
  <2>. QED BY <2>1, <2>2, <2>3, <2>4, PhraseSays
<1>5. CASE c.phrase = "within"
  <2>1. PhraseOf(c) = [positive |-> "within", negative |-> "not_within", kind |-> "interval"]
    BY <1>5, NothingAssumption DEF PhraseOf, OPERATOR_PHRASES
  <2>2. Saying(c).verb = "within" /\ c.phrase \notin OPPOSITES
    BY <1>1, <1>5, SayingOfPhrase
  <2>3. OperatorSays["within"] = [verb |-> "within", sense |-> "so", kind |-> "interval"]
    BY DEF OperatorSays, SAYS
  <2>4. OperatorSays["not_within"] = [verb |-> "within", sense |-> "not so", kind |-> "interval"]
    BY DEF OperatorSays, SAYS
  <2>. QED BY <2>1, <2>2, <2>3, <2>4, PhraseSays
<1>6. CASE c.phrase = "atMost"
  <2>1. PhraseOf(c) = [positive |-> "lte", negative |-> Nothing, kind |-> "one"]
    BY <1>6, NothingAssumption DEF PhraseOf, OPERATOR_PHRASES
  <2>2. Saying(c).verb = "atMost" /\ c.phrase \notin OPPOSITES
    BY <1>1, <1>6, SayingOfPhrase
  <2>3. OperatorSays["lte"] = [verb |-> "atMost", sense |-> "so", kind |-> "one"]
    BY DEF OperatorSays, SAYS
  <2>. QED BY <2>1, <2>2, <2>3, PhraseSays
<1>7. CASE c.phrase = "atLeast"
  <2>1. PhraseOf(c) = [positive |-> "gte", negative |-> Nothing, kind |-> "one"]
    BY <1>7, NothingAssumption DEF PhraseOf, OPERATOR_PHRASES
  <2>2. Saying(c).verb = "atLeast" /\ c.phrase \notin OPPOSITES
    BY <1>1, <1>7, SayingOfPhrase
  <2>3. OperatorSays["gte"] = [verb |-> "atLeast", sense |-> "so", kind |-> "one"]
    BY DEF OperatorSays, SAYS
  <2>. QED BY <2>1, <2>2, <2>3, PhraseSays
<1>8. CASE c.phrase = "lessThan"
  <2>1. PhraseOf(c) = [positive |-> "lt", negative |-> Nothing, kind |-> "one"]
    BY <1>8, NothingAssumption DEF PhraseOf, OPERATOR_PHRASES
  <2>2. Saying(c).verb = "lessThan" /\ c.phrase \notin OPPOSITES
    BY <1>1, <1>8, SayingOfPhrase
  <2>3. OperatorSays["lt"] = [verb |-> "lessThan", sense |-> "so", kind |-> "one"]
    BY DEF OperatorSays, SAYS
  <2>. QED BY <2>1, <2>2, <2>3, PhraseSays
<1>9. CASE c.phrase = "moreThan"
  <2>1. PhraseOf(c) = [positive |-> "gt", negative |-> Nothing, kind |-> "one"]
    BY <1>9, NothingAssumption DEF PhraseOf, OPERATOR_PHRASES
  <2>2. Saying(c).verb = "moreThan" /\ c.phrase \notin OPPOSITES
    BY <1>1, <1>9, SayingOfPhrase
  <2>3. OperatorSays["gt"] = [verb |-> "moreThan", sense |-> "so", kind |-> "one"]
    BY DEF OperatorSays, SAYS
  <2>. QED BY <2>1, <2>2, <2>3, PhraseSays
<1>10. CASE c.phrase = "greaterThan"
  <2>1. PhraseOf(c) = [positive |-> "gt", negative |-> Nothing, kind |-> "one"]
    BY <1>10, NothingAssumption DEF PhraseOf, OPERATOR_PHRASES
  <2>2. Saying(c).verb = "moreThan" /\ c.phrase \notin OPPOSITES
    BY <1>1, <1>10, SayingOfPhrase
  <2>3. OperatorSays["gt"] = [verb |-> "moreThan", sense |-> "so", kind |-> "one"]
    BY DEF OperatorSays, SAYS
  <2>. QED BY <2>1, <2>2, <2>3, PhraseSays
<1>11. CASE c.phrase = "exists"
  <2>1. PhraseOf(c) = [positive |-> "exists", negative |-> "not_exists", kind |-> "none"]
    BY <1>11, NothingAssumption DEF PhraseOf, OPERATOR_PHRASES
  <2>2. Saying(c).verb = "exists" /\ c.phrase \notin OPPOSITES
    BY <1>1, <1>11, SayingOfPhrase
  <2>3. OperatorSays["exists"] = [verb |-> "exists", sense |-> "so", kind |-> "none"]
    BY DEF OperatorSays, SAYS
  <2>4. OperatorSays["not_exists"] = [verb |-> "exists", sense |-> "not so", kind |-> "none"]
    BY DEF OperatorSays, SAYS
  <2>. QED BY <2>1, <2>2, <2>3, <2>4, PhraseSays
<1>12. CASE c.phrase = "present"
  <2>1. PhraseOf(c) = [positive |-> "exists", negative |-> "not_exists", kind |-> "none"]
    BY <1>12, NothingAssumption DEF PhraseOf, OPERATOR_PHRASES
  <2>2. Saying(c).verb = "exists" /\ c.phrase \notin OPPOSITES
    BY <1>1, <1>12, SayingOfPhrase
  <2>3. OperatorSays["exists"] = [verb |-> "exists", sense |-> "so", kind |-> "none"]
    BY DEF OperatorSays, SAYS
  <2>4. OperatorSays["not_exists"] = [verb |-> "exists", sense |-> "not so", kind |-> "none"]
    BY DEF OperatorSays, SAYS
  <2>. QED BY <2>1, <2>2, <2>3, <2>4, PhraseSays
<1>13. CASE c.phrase = "resolved"
  <2>1. PhraseOf(c) = [positive |-> "reference_exists", negative |-> "reference_missing", kind |-> "none"]
    BY <1>13, NothingAssumption DEF PhraseOf, OPERATOR_PHRASES
  <2>2. Saying(c).verb = "resolved" /\ c.phrase \notin OPPOSITES
    BY <1>1, <1>13, SayingOfPhrase
  <2>3. OperatorSays["reference_exists"] = [verb |-> "resolved", sense |-> "so", kind |-> "none"]
    BY DEF OperatorSays, SAYS
  <2>4. OperatorSays["reference_missing"] = [verb |-> "resolved", sense |-> "not so", kind |-> "none"]
    BY DEF OperatorSays, SAYS
  <2>. QED BY <2>1, <2>2, <2>3, <2>4, PhraseSays
<1>14. CASE c.phrase = "matching"
  <2>1. PhraseOf(c) = [positive |-> "matches_ignore_case", negative |-> Nothing, kind |-> "one"]
    BY <1>14, NothingAssumption DEF PhraseOf, OPERATOR_PHRASES
  <2>2. Saying(c).verb = "matching" /\ c.phrase \notin OPPOSITES
    BY <1>1, <1>14, SayingOfPhrase
  <2>3. OperatorSays["matches_ignore_case"] = [verb |-> "matching", sense |-> "so", kind |-> "one"]
    BY DEF OperatorSays, SAYS
  <2>. QED BY <2>1, <2>2, <2>3, PhraseSays
<1>15. CASE c.phrase = "matches"
  <2>1. PhraseOf(c) = [positive |-> "matches_ignore_case", negative |-> Nothing, kind |-> "one"]
    BY <1>15, NothingAssumption DEF PhraseOf, OPERATOR_PHRASES
  <2>2. Saying(c).verb = "matching" /\ c.phrase \notin OPPOSITES
    BY <1>1, <1>15, SayingOfPhrase
  <2>3. OperatorSays["matches_ignore_case"] = [verb |-> "matching", sense |-> "so", kind |-> "one"]
    BY DEF OperatorSays, SAYS
  <2>. QED BY <2>1, <2>2, <2>3, PhraseSays
<1>16. CASE c.phrase = "missing"
  <2>1. PhraseOf(c) = [positive |-> "not_exists", negative |-> Nothing, kind |-> "none"]
    BY <1>16, NothingAssumption DEF PhraseOf, OPERATOR_PHRASES
  <2>2. Saying(c).verb = "exists" /\ c.phrase \in OPPOSITES
    BY <1>1, <1>16, SayingOfPhrase
  <2>3. ~c.not /\ Saying(c).sense = "not so" /\ Operator(c) = "not_exists" /\ PhraseOf(c).kind = "none"
    <3>1. PhraseOf(c).positive = "not_exists" /\ PhraseOf(c).negative = Nothing /\ PhraseOf(c).kind = "none"
      BY <2>1
    <3>2. ~c.not
      BY <3>1, SayingOfPhrase
    <3>3. Operator(c) = "not_exists"
      BY <3>1, <3>2, SayingOfPhrase
    <3>4. Saying(c).sense = "not so"
      BY <2>2, <3>2, SayingOfPhrase
    <3>. QED BY <3>1, <3>2, <3>3, <3>4
  <2>4. OperatorSays["not_exists"] = [verb |-> "exists", sense |-> "not so", kind |-> "none"]
    BY DEF OperatorSays, SAYS
  <2>. QED BY <2>2, <2>3, <2>4, SaidOf
<1>17. CASE c.phrase = "unresolved"
  <2>1. PhraseOf(c) = [positive |-> "reference_missing", negative |-> Nothing, kind |-> "none"]
    BY <1>17, NothingAssumption DEF PhraseOf, OPERATOR_PHRASES
  <2>2. Saying(c).verb = "resolved" /\ c.phrase \in OPPOSITES
    BY <1>1, <1>17, SayingOfPhrase
  <2>3. ~c.not /\ Saying(c).sense = "not so" /\ Operator(c) = "reference_missing" /\ PhraseOf(c).kind = "none"
    <3>1. PhraseOf(c).positive = "reference_missing" /\ PhraseOf(c).negative = Nothing /\ PhraseOf(c).kind = "none"
      BY <2>1
    <3>2. ~c.not
      BY <3>1, SayingOfPhrase
    <3>3. Operator(c) = "reference_missing"
      BY <3>1, <3>2, SayingOfPhrase
    <3>4. Saying(c).sense = "not so"
      BY <2>2, <3>2, SayingOfPhrase
    <3>. QED BY <3>1, <3>2, <3>3, <3>4
  <2>4. OperatorSays["reference_missing"] = [verb |-> "resolved", sense |-> "not so", kind |-> "none"]
    BY DEF OperatorSays, SAYS
  <2>. QED BY <2>2, <2>3, <2>4, SaidOf
<1>. QED BY <1>2, <1>3, <1>4, <1>5, <1>6, <1>7, <1>8, <1>9, <1>10, <1>11, <1>12, <1>13, <1>14,
         <1>15, <1>16, <1>17, Phrases

\* Conditions that make one predicate say one thing.
LEMMA OnePredicateOneSaying ==
  ASSUME NEW c, NEW d, AcceptedCondition(c), AcceptedCondition(d), Predicate(c) = Predicate(d)
  PROVE  Saying(c) = Saying(d)
<1>1. /\ Predicate(c).operator = Operator(c) /\ Predicate(d).operator = Operator(d)
      /\ Predicate(c).field = c.field /\ Predicate(d).field = d.field
  BY DEF Predicate
<1>2. PhraseOf(c).kind = PhraseOf(d).kind
  BY <1>1, OperatorIsTheSaying
<1>3. ASSUME NEW e, AcceptedCondition(e)
      PROVE  /\ Predicate(e).sides = IF PhraseOf(e).kind = "one" THEN {e.operand} ELSE {}
             /\ PhraseOf(e).kind # "one" => e.operand = [kind |-> "none", of |-> Nothing]
             /\ Predicate(e).interval = e.interval
             /\ Predicate(e).absent = e.absence
  BY <1>3 DEF Predicate, AcceptedCondition, IsCondition
<1>4. c.operand = d.operand
  BY <1>2, <1>3
<1>5. c.interval = d.interval /\ c.absence = d.absence /\ c.field = d.field
  BY <1>1, <1>3
<1>6. Saying(c).verb = Saying(d).verb /\ Saying(c).sense = Saying(d).sense
  BY <1>1, OperatorIsTheSaying
<1>7. \A e : Saying(e) = [field |-> e.field, verb |-> Saying(e).verb, sense |-> Saying(e).sense,
                        operand |-> e.operand, interval |-> e.interval, absence |-> e.absence]
  BY DEF Saying
<1>8. Saying(c) = [field |-> d.field, verb |-> Saying(d).verb, sense |-> Saying(d).sense,
                   operand |-> d.operand, interval |-> d.interval, absence |-> d.absence]
  BY <1>4, <1>5, <1>6, <1>7, Zenon
<1>. QED BY <1>7, <1>8, Zenon

LEMMA OneListOneSaying ==
  ASSUME NEW cs, NEW ds, Predicates(cs) = Predicates(ds),
         \A i \in DOMAIN cs : AcceptedCondition(cs[i]),
         \A i \in DOMAIN ds : AcceptedCondition(ds[i])
  PROVE  Sayings(cs) = Sayings(ds)
<1>1. /\ DOMAIN Predicates(cs) = DOMAIN cs /\ DOMAIN Predicates(ds) = DOMAIN ds
      /\ \A i \in DOMAIN cs : Predicates(cs)[i] = Predicate(cs[i])
      /\ \A i \in DOMAIN ds : Predicates(ds)[i] = Predicate(ds[i])
  BY DEF Predicates
<1>2. DOMAIN cs = DOMAIN ds /\ \A i \in DOMAIN cs : Predicate(cs[i]) = Predicate(ds[i])
  BY <1>1
<1>3. \A i \in DOMAIN cs : Saying(cs[i]) = Saying(ds[i])
  BY <1>2, OnePredicateOneSaying
<1>. QED BY <1>2, <1>3 DEF Sayings

\* Joins that make one reference are one join.
JoinSays(j) ==
  IF j.set # Nothing THEN <<j.set>> ELSE <<j.word, j.entity, j.hotel, j.local, j.remote>>

LEMMA OneReferenceOneJoin ==
  ASSUME NEW j, NEW k, IsJoin(j), IsJoin(k), Reference(j) = Reference(k)
  PROVE  JoinSays(j) = JoinSays(k)
<1>1. \A m : m.set # Nothing => Reference(m).kind = "set" /\ Reference(m).field = m.set
  BY DEF Reference
<1>2. \A m : m.set = Nothing /\ IsJoin(m) =>
               /\ Reference(m).kind = (IF m.word = "collecting" THEN "collection" ELSE "lookup")
               /\ Reference(m).entity = m.entity
               /\ Reference(m).local = m.local /\ Reference(m).remote = m.remote
               /\ Reference(m).source = (IF m.hotel THEN "tenant" ELSE "pms")
               /\ m.word \in {"joining", "collecting"} /\ m.hotel \in BOOLEAN
  BY DEF Reference, IsJoin
<1>3. CASE j.set # Nothing
  BY <1>1, <1>2, <1>3 DEF JoinSays
<1>4. CASE j.set = Nothing
  <2>1. k.set = Nothing
    BY <1>1, <1>2, <1>4
  <2>2. j.word = k.word
    BY <1>2, <1>4, <2>1
  <2>3. j.hotel = k.hotel
    BY <1>2, <1>4, <2>1
  <2>4. j.entity = k.entity /\ j.local = k.local /\ j.remote = k.remote
    BY <1>2, <1>4, <2>1
  <2>. QED BY <1>4, <2>1, <2>2, <2>3, <2>4 DEF JoinSays
<1>. QED BY <1>3, <1>4

\* What an accepted sentence is.
AcceptedSentence(s) ==
  /\ IsSentence(s)
  /\ \A i \in DOMAIN s.where : AcceptedCondition(s.where[i])
  /\ \A i \in DOMAIN s.unless : AcceptedCondition(s.unless[i])
  /\ \A i \in DOMAIN s.claim.conditions : AcceptedCondition(s.claim.conditions[i])
  /\ s.modal \in {"must have", "must not have", "must satisfy", "may have"}
  /\ IsAggregate(s) => s.claim.per # Nothing /\ ~s.claim.also

LEMMA SentenceIsAccepted ==
  ASSUME NEW s, IsSentence(s), Refusal(s) = Nothing
  PROVE  AcceptedSentence(s)
<1>. DEFINE joins == FirstOf([i \in DOMAIN s.joins |-> JoinRefusal(s.joins[i])])
            shown == FirstOf([i \in DOMAIN s.showing |-> FieldRefusal(s.showing[i])])
            parts == <<ParseError(s.quantifier \notin QUANTIFIERS),
                       ParseError(s.subject \notin SubjectEntities), joins,
                       ParseError(s.population), ConditionsRefusal(s.where),
                       ConditionsRefusal(s.unless), ModalRefusal(s), AssertionRefusal(s), shown,
                       ParseError(s.rest)>>
<1>1. FirstOf(parts) = Nothing
  BY DEF Refusal
<1>. HIDE DEF joins, shown
<1>2. /\ DOMAIN parts = 1 .. 10 /\ parts[5] = ConditionsRefusal(s.where)
      /\ parts[6] = ConditionsRefusal(s.unless) /\ parts[7] = ModalRefusal(s)
      /\ parts[8] = AssertionRefusal(s)
  OBVIOUS
<1>. HIDE DEF parts
<1>3. /\ ConditionsRefusal(s.where) = Nothing /\ ConditionsRefusal(s.unless) = Nothing
      /\ ModalRefusal(s) = Nothing /\ AssertionRefusal(s) = Nothing
  BY <1>1, <1>2, FirstOfNothing
<1>4. \A cs \in {s.where, s.unless, s.claim.conditions} :
        cs \in Seq(ToSet(cs)) /\ \A c \in ToSet(cs) : IsCondition(c)
  BY Zenon DEF IsSentence
<1>5. \A cs \in {s.where, s.unless, s.claim.conditions} :
        ConditionsRefusal(cs) = Nothing => \A i \in DOMAIN cs : AcceptedCondition(cs[i])
  BY <1>4, ConditionsAreAccepted, Zenon
<1>6. s.modal \in {"must have", "must not have", "must satisfy", "may have"}
  BY <1>3, Unrefused DEF ModalRefusal
<1>7. ASSUME IsAggregate(s) PROVE s.claim.per # Nothing /\ ~s.claim.also /\ s.claim.conditions = <<>>
  <2>. DEFINE overlap == IF s.claim.interval = Nothing THEN Nothing
                         ELSE FirstOf(<<FieldRefusal(s.claim.interval.start),
                                        FieldRefusal(s.claim.interval.end)>>)
              asked == <<ParseError(s.modal \in {"must not have", "may have"}),
                         FieldRefusal(s.claim.field), overlap, FieldRefusal(s.claim.per),
                         ParseError(s.claim.also)>>
  <2>1. FirstOf(asked) = Nothing
    BY <1>3, <1>7 DEF AssertionRefusal, AggregateRefusal
  <2>. HIDE DEF overlap
  <2>2. DOMAIN asked = 1 .. 5 /\ asked[4] = FieldRefusal(s.claim.per) /\ asked[5] = ParseError(s.claim.also)
    OBVIOUS
  <2>. HIDE DEF asked
  <2>3. FieldRefusal(s.claim.per) = Nothing /\ ParseError(s.claim.also) = Nothing
    BY <2>1, <2>2, FirstOfNothing
  <2>4. s.claim.also \in BOOLEAN
    BY DEF IsSentence, IsClaim
  <2>5. s.claim.per \in Dotted
    BY <2>3, Unrefused DEF FieldRefusal
  <2>. QED BY <1>7, <2>3, <2>4, <2>5, Unrefused DEF IsAggregate
<1>8. ~IsAggregate(s) => ConditionsRefusal(s.claim.conditions) = Nothing
  BY <1>3 DEF AssertionRefusal
<1>9. \A i \in DOMAIN s.claim.conditions : AcceptedCondition(s.claim.conditions[i])
  BY <1>5, <1>7, <1>8
<1>. QED BY <1>3, <1>5, <1>6, <1>7, <1>9 DEF AcceptedSentence

\* What is required, said once for both kinds of assertion.
Demand(s) ==
  IF IsAggregate(s) THEN "a limit"
  ELSE IF s.modal = "may have" THEN "must not have" ELSE s.modal

\* Claims that make one assertion are one claim, demanded or forbidden alike.
LEMMA OneAssertionOneClaim ==
  ASSUME NEW s, NEW t, AcceptedSentence(s), AcceptedSentence(t), Assertion(s) = Assertion(t)
  PROVE  /\ Demand(s) = Demand(t)
         /\ [s.claim EXCEPT !.conditions = Sayings(@)] = [t.claim EXCEPT !.conditions = Sayings(@)]
<1>. DEFINE names == {"conditions", "limit", "field", "interval", "per", "also"}
<1>1. ASSUME NEW r, AcceptedSentence(r)
      PROVE  /\ DOMAIN r.claim = names /\ r.claim.also \in BOOLEAN
             /\ r.claim.interval # Nothing => r.claim.limit = Nothing
             /\ ~IsAggregate(r) =>
                  /\ r.claim.limit = Nothing /\ r.claim.field = Nothing
                  /\ r.claim.interval = Nothing /\ r.claim.per = Nothing /\ ~r.claim.also
             /\ IsAggregate(r) => ~r.claim.also /\ r.claim.conditions = <<>>
             /\ [r.claim EXCEPT !.conditions = Sayings(@)] =
                  [n \in names |-> IF n = "conditions" THEN Sayings(r.claim.conditions)
                                   ELSE r.claim[n]]
  BY <1>1 DEF AcceptedSentence, IsSentence, IsClaim, IsAggregate
<1>2. ASSUME NEW r
      PROVE  /\ IsAggregate(r) =>
                  /\ Assertion(r).mode = "aggregate" /\ Assertion(r).group_by = r.claim.per
                  /\ Assertion(r).predicates = <<AggregatePredicate(r.claim)>>
             /\ ~IsAggregate(r) =>
                  /\ Assertion(r).mode = Mode(r)
                  /\ Assertion(r).predicates = Predicates(r.claim.conditions)
  BY DEF Assertion
<1>3. \A r : Mode(r) # "aggregate"
  BY DEF Mode
<1>4. IsAggregate(s) <=> IsAggregate(t)
  BY <1>2, <1>3
<1>5. CASE IsAggregate(s)
  <2>1. s.claim.per = t.claim.per /\ AggregatePredicate(s.claim) = AggregatePredicate(t.claim)
    BY <1>2, <1>4, <1>5
  <2>2. ASSUME NEW r
        PROVE  /\ AggregatePredicate(r).field = r.field /\ AggregatePredicate(r).interval = r.interval
               /\ AggregatePredicate(r).sides =
                    IF r.interval = Nothing THEN {[kind |-> "value", of |-> r.limit]} ELSE {}
    BY DEF AggregatePredicate
  <2>3. s.claim.field = t.claim.field /\ s.claim.interval = t.claim.interval
    <3>1. /\ AggregatePredicate(s.claim).field = AggregatePredicate(t.claim).field
          /\ AggregatePredicate(s.claim).interval = AggregatePredicate(t.claim).interval
      BY <2>1, Zenon
    <3>. QED BY <2>2, <3>1, Zenon
  <2>4. s.claim.limit = t.claim.limit
    <3>1. CASE s.claim.interval = Nothing
      <4>. DEFINE side(r) == [kind |-> "value", of |-> r.claim.limit]
      <4>1. AggregatePredicate(s.claim).sides = AggregatePredicate(t.claim).sides
        BY <2>1, Zenon
      <4>2. {side(s)} = {side(t)}
        <5>1. ASSUME NEW r, r.claim.interval = Nothing
              PROVE  AggregatePredicate(r.claim).sides = {side(r)}
          BY <5>1 DEF AggregatePredicate
        <5>2. t.claim.interval = Nothing
          BY <2>3, <3>1, Zenon
        <5>. HIDE DEF side
        <5>. QED BY <3>1, <4>1, <5>1, <5>2, Zenon
      <4>3. side(s) = side(t)
        <5>. HIDE DEF side
        <5>. QED BY <4>2, Zenon
      <4>4. side(s).of = s.claim.limit /\ side(t).of = t.claim.limit
        OBVIOUS
      <4>. QED BY <4>3, <4>4, Zenon
    <3>2. CASE s.claim.interval # Nothing
      BY <1>1, <2>3, <3>2
    <3>. QED BY <3>1, <3>2
  <2>5. s.claim.also = t.claim.also /\ s.claim.conditions = t.claim.conditions
    BY <1>1, <1>4, <1>5
  <2>6. \A n \in names : s.claim[n] = t.claim[n]
    BY <2>1, <2>3, <2>4, <2>5
  <2>7. Demand(s) = Demand(t)
    BY <1>4, <1>5 DEF Demand
  <2>. QED BY <1>1, <2>5, <2>6, <2>7
<1>6. CASE ~IsAggregate(s)
  <2>1. Mode(s) = Mode(t) /\ Predicates(s.claim.conditions) = Predicates(t.claim.conditions)
    BY <1>2, <1>4, <1>6
  <2>2. Demand(s) = Demand(t)
    BY <1>4, <1>6, <2>1 DEF Demand, Mode, AcceptedSentence
  <2>3. Sayings(s.claim.conditions) = Sayings(t.claim.conditions)
    <3>1. /\ \A i \in DOMAIN s.claim.conditions : AcceptedCondition(s.claim.conditions[i])
          /\ \A i \in DOMAIN t.claim.conditions : AcceptedCondition(t.claim.conditions[i])
      BY Zenon DEF AcceptedSentence
    <3>. QED BY <2>1, <3>1, OneListOneSaying, Zenon
  <2>4. \A n \in names \ {"conditions"} : s.claim[n] = t.claim[n]
    BY <1>1, <1>4, <1>6
  <2>. QED BY <1>1, <2>2, <2>3, <2>4
<1>. QED BY <1>5, <1>6

\* The rule that is filed, part by part.
MakesRule(s, rule) ==
  /\ rule.entity = s.subject
  /\ rule.references = [i \in DOMAIN s.joins |-> Reference(s.joins[i])]
  /\ rule.scope = Predicates(s.where)
  /\ rule.exceptions = Predicates(s.unless)
  /\ rule.assertion = Assertion(s)

LEMMA MergedMakesRule ==
  ASSUME NEW s, NEW windows
  PROVE  MakesRule(s, Merged(s, windows))
<1>. DEFINE logic == Logic(s)
<1>1. /\ DOMAIN logic = {"entity", "references", "scope", "exceptions", "assertion",
                         "required_evidence"}
      /\ MakesRule(s, logic)
  BY DEF Logic, MakesRule
<1>2. Merged(s, windows) = [key \in DOMAIN logic \cup {"windows"} |->
                              IF key = "windows" THEN windows ELSE logic[key]]
  BY DEF Merged
<1>. HIDE DEF logic
<1>. QED BY <1>1, <1>2 DEF MakesRule

\* Sentences that make one rule say one thing.
LEMMA OneRuleOneMeaning ==
  ASSUME NEW s, NEW t, AcceptedSentence(s), AcceptedSentence(t), NEW rule,
         MakesRule(t, rule), Compiles(s, rule)
  PROVE  Meaning(s) = Meaning(t)
<1>1. /\ s.subject = t.subject /\ Assertion(s) = Assertion(t)
      /\ Predicates(s.where) = Predicates(t.where) /\ Predicates(s.unless) = Predicates(t.unless)
      /\ [i \in DOMAIN s.joins |-> Reference(s.joins[i])] =
           [i \in DOMAIN t.joins |-> Reference(t.joins[i])]
  BY Zenon DEF MakesRule, Compiles
<1>2. Sayings(s.where) = Sayings(t.where) /\ Sayings(s.unless) = Sayings(t.unless)
  <2>1. /\ \A i \in DOMAIN s.where : AcceptedCondition(s.where[i])
        /\ \A i \in DOMAIN t.where : AcceptedCondition(t.where[i])
        /\ \A i \in DOMAIN s.unless : AcceptedCondition(s.unless[i])
        /\ \A i \in DOMAIN t.unless : AcceptedCondition(t.unless[i])
    BY Zenon DEF AcceptedSentence
  <2>. QED BY <1>1, <2>1, OneListOneSaying, Zenon
<1>3. [i \in DOMAIN s.joins |-> JoinSays(s.joins[i])] = [i \in DOMAIN t.joins |-> JoinSays(t.joins[i])]
  <2>1. \A r \in {s, t} : \A i \in DOMAIN r.joins : IsJoin(r.joins[i])
    BY DEF AcceptedSentence, IsSentence, ToSet
  <2>2. DOMAIN s.joins = DOMAIN t.joins
        /\ \A i \in DOMAIN s.joins : Reference(s.joins[i]) = Reference(t.joins[i])
    BY <1>1
  <2>3. \A i \in DOMAIN s.joins : JoinSays(s.joins[i]) = JoinSays(t.joins[i])
    BY <2>1, <2>2, OneReferenceOneJoin
  <2>. QED BY <2>2, <2>3
<1>4. /\ Demand(s) = Demand(t)
      /\ [s.claim EXCEPT !.conditions = Sayings(@)] = [t.claim EXCEPT !.conditions = Sayings(@)]
  BY <1>1, OneAssertionOneClaim, Zenon
<1>5. ASSUME NEW r
      PROVE  Meaning(r) = [subject |-> r.subject,
                           joins |-> [i \in DOMAIN r.joins |-> JoinSays(r.joins[i])],
                           where |-> Sayings(r.where), unless |-> Sayings(r.unless),
                           demands |-> Demand(r),
                           claim |-> [r.claim EXCEPT !.conditions = Sayings(@)]]
  BY DEF Meaning, JoinSays, Demand
<1>. QED BY <1>1, <1>2, <1>3, <1>4, <1>5, Zenon

------------------------------------------------------------------------------
\* Nothing that is required of is left out of the rule.
FieldsOfCondition(c) ==
  {c.field} \cup (IF c.operand.kind = "compare_to" THEN {c.operand.of} ELSE {})
            \cup (IF c.interval = Nothing THEN {} ELSE {c.interval.start, c.interval.end})

LEMMA PredicateReads ==
  ASSUME NEW c, AcceptedCondition(c)
  PROVE  FieldsOfCondition(c) \subseteq FieldsOfPredicate(Predicate(c))
<1>1. /\ Predicate(c).field = c.field /\ Predicate(c).interval = c.interval
      /\ c.operand.kind = "compare_to" => Predicate(c).sides = {c.operand}
  BY DEF Predicate, AcceptedCondition, IsCondition
<1>. QED BY <1>1 DEF FieldsOfCondition, FieldsOfPredicate

\* The members of three lists one after the other.
LEMMA MembersOfThree ==
  ASSUME NEW A, NEW B, NEW C, NEW a \in Seq(A), NEW b \in Seq(B), NEW c \in Seq(C)
  PROVE  /\ ToSet(a \o b \o c) \subseteq ToSet(a) \cup ToSet(b) \cup ToSet(c)
         /\ ToSet(a) \cup ToSet(b) \cup ToSet(c) \subseteq ToSet(a \o b \o c)
<1>. DEFINE S == A \cup B \cup C
<1>1. a \in Seq(S) /\ b \in Seq(S) /\ c \in Seq(S)
  OBVIOUS
<1>2. ASSUME NEW p \in Seq(S), NEW q \in Seq(S)
      PROVE  p \o q \in Seq(S) /\ ToSet(p \o q) = ToSet(p) \cup ToSet(q)
  <2>1. /\ p \o q \in Seq(S) /\ Len(p \o q) = Len(p) + Len(q)
        /\ \A i \in 1 .. Len(p) : (p \o q)[i] = p[i]
        /\ \A i \in 1 .. Len(q) : (p \o q)[Len(p) + i] = q[i]
    BY ConcatProperties
  <2>2. /\ DOMAIN p = 1 .. Len(p) /\ DOMAIN q = 1 .. Len(q) /\ DOMAIN (p \o q) = 1 .. Len(p \o q)
        /\ Len(p) \in Nat /\ Len(q) \in Nat
    BY <2>1
  <2>3. ASSUME NEW i \in DOMAIN (p \o q) PROVE (p \o q)[i] \in ToSet(p) \cup ToSet(q)
    <3>1. CASE i <= Len(p)
      BY <2>1, <2>2, <3>1 DEF ToSet
    <3>2. CASE i > Len(p)
      <4>1. i - Len(p) \in 1 .. Len(q) /\ i = Len(p) + (i - Len(p))
        BY <2>1, <2>2, <3>2
      <4>. QED BY <2>1, <2>2, <4>1 DEF ToSet
    <3>. QED BY <2>1, <2>2, <3>1, <3>2
  <2>4. ASSUME NEW i \in 1 .. Len(p) PROVE p[i] \in ToSet(p \o q)
    BY <2>1, <2>2 DEF ToSet
  <2>5. ASSUME NEW i \in 1 .. Len(q) PROVE q[i] \in ToSet(p \o q)
    <3>1. Len(p) + i \in DOMAIN (p \o q)
      BY <2>1, <2>2
    <3>. QED BY <2>1, <3>1 DEF ToSet
  <2>. QED BY <2>1, <2>2, <2>3, <2>4, <2>5 DEF ToSet
<1>. HIDE DEF S
<1>3. a \o b \in Seq(S) /\ ToSet(a \o b) = ToSet(a) \cup ToSet(b)
  BY <1>1, <1>2, Zenon
<1>4. ToSet((a \o b) \o c) = ToSet(a \o b) \cup ToSet(c)
  BY <1>1, <1>2, <1>3, Zenon
<1>. QED BY <1>3, <1>4

LEMMA PredicatesAreASequence ==
  ASSUME NEW cs, cs \in Seq(ToSet(cs))
  PROVE  Predicates(cs) \in Seq({Predicate(c) : c \in ToSet(cs)})
         /\ \A i \in DOMAIN cs : Predicate(cs[i]) \in ToSet(Predicates(cs))
<1>1. Len(cs) \in Nat /\ DOMAIN cs = 1 .. Len(cs)
  OBVIOUS
<1>2. Predicates(cs) \in [1 .. Len(cs) -> {Predicate(c) : c \in ToSet(cs)}]
  BY <1>1 DEF Predicates, ToSet
<1>. QED BY <1>1, <1>2 DEF Predicates, ToSet

\* The three places a rule names fields in.
LEMMA RuleReads ==
  ASSUME NEW rule
  PROVE  /\ FieldsOfPredicates(rule.scope \o rule.exceptions \o rule.assertion.predicates)
              \subseteq FieldsOfRule(rule)
         /\ Named({rule.assertion.group_by}) \subseteq FieldsOfRule(rule)
         /\ \A r \in ToSet(rule.references) :
              Named({r.local, r.remote, r.field}) \subseteq FieldsOfRule(rule)
<1>. DEFINE joined == UNION {Named({r.local, r.remote, r.field}) : r \in ToSet(rule.references)}
            tested == FieldsOfPredicates(rule.scope \o rule.exceptions \o rule.assertion.predicates)
            grouped == Named({rule.assertion.group_by})
<1>1. FieldsOfRule(rule) = joined \cup tested \cup grouped
  BY Zenon DEF FieldsOfRule
<1>2. \A r \in ToSet(rule.references) : Named({r.local, r.remote, r.field}) \subseteq joined
  OBVIOUS
<1>. HIDE DEF joined, tested, grouped
<1>3. tested \subseteq FieldsOfRule(rule) /\ grouped \subseteq FieldsOfRule(rule)
      /\ joined \subseteq FieldsOfRule(rule)
  BY <1>1
<1>. QED BY <1>2, <1>3 DEF tested, grouped

\* The clauses of a rule that a sentence makes: every condition is in one.
LEMMA ConditionsAreClauses ==
  ASSUME NEW s, AcceptedSentence(s), NEW rule, MakesRule(s, rule),
         NEW c \in ToSet(s.where \o s.unless \o s.claim.conditions)
  PROVE  /\ AcceptedCondition(c)
         /\ \E clause : <<clause, Predicate(c)>> \in Clauses(rule)
         /\ FieldsOfPredicate(Predicate(c)) \subseteq FieldsOfRule(rule)
<1>1. \A cs \in {s.where, s.unless, s.claim.conditions} :
        cs \in Seq(ToSet(cs)) /\ \A i \in DOMAIN cs : AcceptedCondition(cs[i])
  BY Zenon DEF AcceptedSentence, IsSentence
<1>2. c \in ToSet(s.where) \cup ToSet(s.unless) \cup ToSet(s.claim.conditions)
  BY <1>1, MembersOfThree
<1>3. AcceptedCondition(c)
  BY <1>1, <1>2 DEF ToSet
<1>4. /\ rule.scope = Predicates(s.where) /\ rule.exceptions = Predicates(s.unless)
      /\ rule.assertion = Assertion(s)
  BY DEF MakesRule
<1>5. IsAggregate(s) => s.claim.conditions = <<>> /\ ToSet(s.claim.conditions) = {}
  BY DEF IsAggregate, ToSet
<1>6. ~IsAggregate(s) => rule.assertion.predicates = Predicates(s.claim.conditions)
  BY <1>4 DEF Assertion
<1>7. IsAggregate(s) => rule.assertion.predicates = <<AggregatePredicate(s.claim)>>
  BY <1>4 DEF Assertion
<1>8. \A cs \in {s.where, s.unless, s.claim.conditions} :
        \A m \in ToSet(cs) : Predicate(m) \in ToSet(Predicates(cs))
  BY <1>1, PredicatesAreASequence DEF ToSet
<1>9. Predicate(c) \in ToSet(rule.scope) \cup ToSet(rule.exceptions) \cup ToSet(rule.assertion.predicates)
  BY <1>2, <1>4, <1>5, <1>6, <1>8
<1>10. \E clause : <<clause, Predicate(c)>> \in Clauses(rule)
  BY <1>9 DEF Clauses
<1>11. /\ rule.scope \in Seq(ToSet(rule.scope)) /\ rule.exceptions \in Seq(ToSet(rule.exceptions))
       /\ rule.assertion.predicates \in Seq(ToSet(rule.assertion.predicates))
  <2>1. ASSUME NEW cs, cs \in Seq(ToSet(cs)) PROVE Predicates(cs) \in Seq(ToSet(Predicates(cs)))
    <3>1. PICK P : Predicates(cs) \in Seq(P)
      BY <2>1, PredicatesAreASequence
    <3>2. DOMAIN Predicates(cs) = 1 .. Len(Predicates(cs)) /\ Len(Predicates(cs)) \in Nat
          /\ Predicates(cs) = [i \in 1 .. Len(Predicates(cs)) |-> Predicates(cs)[i]]
      BY <3>1
    <3>3. Predicates(cs) \in [1 .. Len(Predicates(cs)) -> ToSet(Predicates(cs))]
      BY <3>2 DEF ToSet
    <3>. QED BY <3>2, <3>3
  <2>2. <<AggregatePredicate(s.claim)>> \in Seq(ToSet(<<AggregatePredicate(s.claim)>>))
    BY DEF ToSet
  <2>. QED BY <1>1, <1>4, <1>6, <1>7, <2>1, <2>2
<1>12. Predicate(c) \in ToSet(rule.scope \o rule.exceptions \o rule.assertion.predicates)
  BY <1>9, <1>11, MembersOfThree
<1>13. FieldsOfPredicate(Predicate(c)) \subseteq
         FieldsOfPredicates(rule.scope \o rule.exceptions \o rule.assertion.predicates)
  BY <1>12 DEF FieldsOfPredicates, ToSet
<1>14. FieldsOfPredicate(Predicate(c)) \subseteq FieldsOfRule(rule)
  BY <1>13, RuleReads
<1>. QED BY <1>3, <1>10, <1>14

LEMMA AggregateIsAClause ==
  ASSUME NEW s, AcceptedSentence(s), NEW rule, MakesRule(s, rule), IsAggregate(s)
  PROVE  FieldsOfPredicate(AggregatePredicate(s.claim)) \subseteq FieldsOfRule(rule)
<1>. DEFINE p == AggregatePredicate(s.claim)
<1>1. /\ rule.scope = Predicates(s.where) /\ rule.exceptions = Predicates(s.unless)
      /\ rule.assertion.predicates = <<p>>
  BY DEF MakesRule, Assertion
<1>2. s.where \in Seq(ToSet(s.where)) /\ s.unless \in Seq(ToSet(s.unless))
  BY Zenon DEF AcceptedSentence, IsSentence
<1>. HIDE DEF p
<1>3. <<p>> \in Seq({p}) /\ p \in ToSet(<<p>>)
  BY DEF ToSet
<1>4. PICK A : rule.scope \in Seq(A)
  BY <1>1, <1>2, PredicatesAreASequence, Zenon
<1>. PICK B : rule.exceptions \in Seq(B)
  BY <1>1, <1>2, PredicatesAreASequence, Zenon
<1>5. p \in ToSet(rule.scope \o rule.exceptions \o rule.assertion.predicates)
  BY <1>1, <1>3, <1>4, MembersOfThree
<1>6. FieldsOfPredicate(p) \subseteq
        FieldsOfPredicates(rule.scope \o rule.exceptions \o rule.assertion.predicates)
  BY <1>5 DEF FieldsOfPredicates, ToSet
<1>7. FieldsOfPredicate(p) \subseteq FieldsOfRule(rule)
  BY <1>6, RuleReads
<1>. QED BY <1>7 DEF p

LEMMA AllFieldsAreRead ==
  ASSUME NEW s, AcceptedSentence(s), NEW rule, MakesRule(s, rule)
  PROVE  FieldsOfSentence(s) \subseteq FieldsOfRule(rule)
<1>. DEFINE all == s.where \o s.unless \o s.claim.conditions
            joined == UNION {Named({j.local, j.remote, j.set}) : j \in ToSet(s.joins)}
            limited == {s.claim.field, s.claim.per}
                         \cup (IF s.claim.interval = Nothing THEN {}
                               ELSE {s.claim.interval.start, s.claim.interval.end})
<1>1. FieldsOfSentence(s) =
        FieldsOfConditions(all) \cup joined \cup (IF IsAggregate(s) THEN limited ELSE {})
  BY Zenon DEF FieldsOfSentence
<1>2. FieldsOfConditions(all) \subseteq FieldsOfRule(rule)
  <2>1. FieldsOfConditions(all) = UNION {FieldsOfCondition(c) : c \in ToSet(all)}
    BY DEF FieldsOfConditions, FieldsOfCondition
  <2>2. ASSUME NEW c \in ToSet(all) PROVE FieldsOfCondition(c) \subseteq FieldsOfRule(rule)
    BY ConditionsAreClauses, PredicateReads
  <2>. HIDE DEF all
  <2>. QED BY <2>1, <2>2
<1>3. joined \subseteq FieldsOfRule(rule)
  <2>1. ASSUME NEW j \in ToSet(s.joins)
        PROVE  Named({j.local, j.remote, j.set}) \subseteq FieldsOfRule(rule)
    <3>1. Reference(j) \in ToSet(rule.references)
      BY DEF ToSet, MakesRule
    <3>2. IsJoin(j)
      BY DEF AcceptedSentence, IsSentence
    <3>3. Named({j.local, j.remote, j.set}) \subseteq
            Named({Reference(j).local, Reference(j).remote, Reference(j).field})
      BY <3>2 DEF Reference, IsJoin, Named
    <3>. QED BY <3>1, <3>3, RuleReads
  <2>. QED BY <2>1
<1>4. ASSUME IsAggregate(s) PROVE limited \subseteq FieldsOfRule(rule)
  <2>1. /\ rule.assertion.group_by = s.claim.per
        /\ rule.assertion.predicates = <<AggregatePredicate(s.claim)>>
    BY <1>4 DEF MakesRule, Assertion
  <2>2. s.claim.per \in FieldsOfRule(rule)
    <3>1. s.claim.per # Nothing
      BY <1>4 DEF AcceptedSentence
    <3>2. Named({rule.assertion.group_by}) \subseteq FieldsOfRule(rule)
      BY RuleReads
    <3>3. rule.assertion.group_by \in Named({rule.assertion.group_by})
      BY <2>1, <3>1 DEF Named
    <3>. QED BY <2>1, <3>2, <3>3
  <2>3. FieldsOfPredicate(AggregatePredicate(s.claim)) \subseteq FieldsOfRule(rule)
    BY <1>4, AggregateIsAClause
  <2>4. {s.claim.field} \cup (IF s.claim.interval = Nothing THEN {}
                               ELSE {s.claim.interval.start, s.claim.interval.end})
          \subseteq FieldsOfPredicate(AggregatePredicate(s.claim))
    <3>1. /\ AggregatePredicate(s.claim).field = s.claim.field
          /\ AggregatePredicate(s.claim).interval = s.claim.interval
      BY DEF AggregatePredicate
    <3>. QED BY <3>1 DEF FieldsOfPredicate
  <2>. QED BY <2>2, <2>3, <2>4
<1>. HIDE DEF joined, limited, all
<1>. QED BY <1>1, <1>2, <1>3, <1>4

\* Every setting a sentence names is looked for among the property's.
LEMMA SettingsAreKnown ==
  ASSUME NEW s, AcceptedSentence(s), NEW rule, MakesRule(s, rule), NEW settings,
         CheckTenantSettings(rule, settings) = {},
         NEW c \in ToSet(s.where \o s.unless \o s.claim.conditions),
         c.operand.kind = "tenant_setting"
  PROVE  /\ c.operand.of \in DOMAIN settings
         /\ c.phrase = "oneOf" => settings[c.operand.of] # "text"
<1>1. AcceptedCondition(c)
  BY ConditionsAreClauses
<1>2. PICK clause : <<clause, Predicate(c)>> \in Clauses(rule)
  BY ConditionsAreClauses
<1>. DEFINE wrong(d) == \E side \in d[2].sides :
                          /\ side.kind = "tenant_setting"
                          /\ \/ side.of \notin DOMAIN settings
                             \/ d[2].operator \in {"in", "not_in"} /\ settings[side.of] = "text"
<1>3. ~wrong(<<clause, Predicate(c)>>)
  BY <1>2 DEF CheckTenantSettings
<1>4. PhraseOf(c).kind = "one" /\ Predicate(c).sides = {c.operand}
  BY <1>1 DEF Predicate, AcceptedCondition, IsCondition
<1>5. ~(\/ c.operand.of \notin DOMAIN settings
        \/ Predicate(c).operator \in {"in", "not_in"} /\ settings[c.operand.of] = "text")
  BY <1>3, <1>4
<1>6. c.phrase = "oneOf" => Predicate(c).operator \in {"in", "not_in"}
  <2>1. SUFFICES ASSUME c.phrase = "oneOf" PROVE Operator(c) \in {"in", "not_in"}
    BY DEF Predicate
  <2>2. PhraseOf(c).positive = "in" /\ PhraseOf(c).negative = "not_in"
    <3>1. c.phrase \in DOMAIN OPERATOR_PHRASES => PhraseOf(c) = OPERATOR_PHRASES[c.phrase]
      BY <1>1, SayingOfPhrase
    <3>2. "oneOf" \in DOMAIN OPERATOR_PHRASES
      BY Phrases
    <3>3. OPERATOR_PHRASES["oneOf"] = [positive |-> "in", negative |-> "not_in", kind |-> "one"]
      BY Phrases
    <3>. QED BY <2>1, <3>1, <3>2, <3>3
  <2>. QED BY <2>2 DEF Operator
<1>. QED BY <1>5, <1>6

\* What is filed was accepted, and is the rule its sentence makes.
Whole(d) ==
  /\ d.sentence \in Sentences
  /\ Refusal(d.sentence) = Nothing
  /\ MakesRule(d.sentence, d.rule)
  /\ CheckVocabulary(d.rule) = {} /\ CheckEvidenceDeclared(d.rule) = {}
  /\ CheckTenantSettings(d.rule, Settings[d.property]) = {}

LEMMA CompiledIsChecked ==
  ASSUME NEW s, NEW windows, NEW settings, settings # Nothing,
         Compilation(s, DEPLOYMENT_KEYS, windows, settings) = {}
  PROVE  /\ Refusal(s) = Nothing
         /\ CheckVocabulary(Merged(s, windows)) = {}
         /\ CheckEvidenceDeclared(Merged(s, windows)) = {}
         /\ CheckTenantSettings(Merged(s, windows), settings) = {}
<1>. DEFINE rule == Merged(s, windows)
<1>1. Refusal(s) = Nothing
  <2>1. <<Refusal(s), s.subject>> \notin {}
    OBVIOUS
  <2>. QED BY <2>1, Zenon DEF Compilation
<1>2. DeploymentProblems(DEPLOYMENT_KEYS) = {}
  BY <1>1 DEF Compilation
<1>3. Problems(rule, settings) = {}
  BY <1>1, <1>2, Zenon DEF Compilation
<1>. HIDE DEF rule
<1>4. RuleProblems(rule) = {} /\ CheckTenantSettings(rule, settings) = {}
  BY <1>3 DEF Problems
<1>5. CheckVocabulary(rule) = {} /\ CheckEvidenceDeclared(rule) = {}
  BY <1>4 DEF RuleProblems
<1>. QED BY <1>1, <1>4, <1>5 DEF rule

LEMMA WholeIsWhole == (\A d \in drafts : Whole(d)) => FiledIsWhole
<1>. SUFFICES ASSUME NEW d \in drafts, Whole(d)
     PROVE  /\ FieldsOfSentence(d.sentence) \subseteq
                 DOMAIN Registry \cap {e.field : e \in d.rule.required_evidence}
            /\ \A c \in ToSet(d.sentence.where \o d.sentence.unless \o d.sentence.claim.conditions) :
                 c.operand.kind = "tenant_setting" =>
                   /\ c.operand.of \in DOMAIN Settings[d.property]
                   /\ c.phrase = "oneOf" => Settings[d.property][c.operand.of] # "text"
            /\ \A s \in Sentences : Compiles(s, d.rule) => Meaning(s) = Meaning(d.sentence)
  BY Zenon DEF FiledIsWhole
<1>1. AcceptedSentence(d.sentence) /\ MakesRule(d.sentence, d.rule)
  BY SentencesAssumption, SentenceIsAccepted DEF Whole
<1>2. FieldsOfRule(d.rule) \subseteq DOMAIN Registry
  BY DEF Whole, CheckVocabulary, Declared
<1>3. FieldsOfRule(d.rule) \subseteq {e.field : e \in d.rule.required_evidence}
  BY DEF Whole, CheckEvidenceDeclared
<1>4. FieldsOfSentence(d.sentence) \subseteq FieldsOfRule(d.rule)
  BY <1>1, AllFieldsAreRead
<1>5. CheckTenantSettings(d.rule, Settings[d.property]) = {}
  BY DEF Whole
<1>6. ASSUME NEW c \in ToSet(d.sentence.where \o d.sentence.unless \o d.sentence.claim.conditions),
             c.operand.kind = "tenant_setting"
      PROVE  /\ c.operand.of \in DOMAIN Settings[d.property]
             /\ c.phrase = "oneOf" => Settings[d.property][c.operand.of] # "text"
  BY <1>1, <1>5, <1>6, SettingsAreKnown
<1>7. ASSUME NEW s \in Sentences, Compiles(s, d.rule)
      PROVE  Meaning(s) = Meaning(d.sentence)
  <2>1. AcceptedSentence(s)
    BY <1>7, SentencesAssumption, SentenceIsAccepted DEF Compiles
  <2>. QED BY <1>1, <1>7, <2>1, OneRuleOneMeaning
<1>8. FieldsOfSentence(d.sentence) \subseteq
        DOMAIN Registry \cap {e.field : e \in d.rule.required_evidence}
  BY <1>2, <1>3, <1>4
<1>. QED BY <1>6, <1>7, <1>8

\* A page is about a property there is, and so one whose settings are known.
LEMMA SelectionIsAProperty ==
  ASSUME auth \in BOOLEAN, clock \in Int, NEW request \in Request, Status(request) = 200
  PROVE  Settings[Selection(request)] # Nothing
<1>1. CASE auth
  <2>1. Status(request) = VerifyStatus(request.token)
    BY <1>1 DEF Status
  <2>2. request.token.property \in Properties
    BY <2>1 DEF VerifyStatus
  <2>3. Asked(request) = request.token.property
    BY <1>1 DEF Asked
  <2>4. Selection(request) \in Properties
    BY <2>2, <2>3 DEF Selection
  <2>. QED BY <2>4, PropertiesAssumption DEF Properties
<1>2. CASE ~auth
  <2>1. Head(Tenants) \in Properties
    <3>1. PICK P : Tenants \in Seq(P)
      BY PropertiesAssumption
    <3>2. Head(Tenants) = Tenants[1] /\ 1 \in DOMAIN Tenants
      BY <3>1, PropertiesAssumption
    <3>. QED BY <3>2 DEF Properties, ToSet
  <2>2. Selection(request) \in Properties
    BY <1>2, <2>1 DEF Selection, Visible
  <2>. QED BY <2>2, PropertiesAssumption DEF Properties
<1>. QED BY <1>1, <1>2

DraftsInv == auth \in BOOLEAN /\ clock \in Int /\ \A d \in drafts : Whole(d)

LEMMA AcceptKeepsWhole ==
  ASSUME DraftsInv, NEW request \in Request, NEW id, NEW named, NEW sentence \in Sentences,
         Accept(request, id, named, sentence)
  PROVE  \A d \in drafts' : Whole(d)
<1>. DEFINE template == TemplateId(named)
            property == Selection(request)
            refusals == Compilation(sentence, DEPLOYMENT_KEYS, Windows[template],
                                    Settings[property])
            status == IF Status(request) # 200 THEN Status(request)
                      ELSE IF FormStatus(id, template) # 200 THEN FormStatus(id, template)
                      ELSE IF refusals # {} THEN 422 ELSE 201
            draft == [property |-> property, id |-> DraftIds[id], sentence |-> sentence,
                      rule |-> Merged(sentence, Windows[template])]
<1>1. drafts' = IF status # 201 THEN drafts
                ELSE {d \in drafts : d.property # property \/ d.id # draft.id} \cup {draft}
  BY Zenon DEF Accept
<1>2. ASSUME status = 201 PROVE Whole(draft)
  <2>1. Status(request) = 200 /\ refusals = {}
    <3>1. Status(request) \in {200, 401, 403} /\ FormStatus(id, template) \in {200, 400, 409}
      BY DEF Status, VerifyStatus, FormStatus
    <3>. HIDE DEF refusals, template
    <3>. QED BY <1>2, <3>1
  <2>2. Settings[property] # Nothing
    BY <2>1, SelectionIsAProperty DEF DraftsInv
  <2>. DEFINE rule == Merged(sentence, Windows[template])
  <2>3. /\ Refusal(sentence) = Nothing
        /\ CheckVocabulary(rule) = {} /\ CheckEvidenceDeclared(rule) = {}
        /\ CheckTenantSettings(rule, Settings[property]) = {}
    <3>. HIDE DEF template, property
    <3>. QED BY <2>1, <2>2, CompiledIsChecked
  <2>4. MakesRule(sentence, rule)
    <3>1. AcceptedSentence(sentence)
      BY <2>3, SentencesAssumption, SentenceIsAccepted
    <3>. QED BY <3>1, MergedMakesRule
  <2>5. /\ draft.property = property /\ draft.sentence = sentence /\ draft.rule = rule
    OBVIOUS
  <2>. HIDE DEF draft, rule, property
  <2>. QED BY <2>3, <2>4, <2>5 DEF Whole
<1>. HIDE DEF status, draft, property
<1>. QED BY <1>1, <1>2 DEF DraftsInv

LEMMA DraftsInvInit == DeskInit => \A d \in drafts : Whole(d)
BY DEF DeskInit

LEMMA DraftsInvStep ==
  ASSUME DraftsInv, [DeskNext(Request, Replies, Sentences)]_deskVars
  PROVE  \A d \in drafts' : Whole(d)
<1>1. ASSUME NEW request \in Request, NEW conversation \in Conversations,
             Browse(request, conversation)
      PROVE  drafts' = drafts
  BY <1>1 DEF Browse
<1>2. ASSUME NEW request \in Request, Decide(request) PROVE drafts' = drafts
  BY <1>2 DEF Decide
<1>3. ASSUME NEW request \in Request, NEW conversation \in Conversations,
             NEW template \in ToSet(Library), NEW lines \in Replies,
             Talk(request, conversation, template, lines)
      PROVE  drafts' = drafts
  BY <1>3 DEF Talk
<1>4. Respond \/ Tick \/ UNCHANGED deskVars => drafts' = drafts
  BY DEF Respond, Tick, deskVars
<1>. QED BY <1>1, <1>2, <1>3, <1>4, AcceptKeepsWhole DEF DeskNext, DraftsInv

\* "The sentence is the rule", for any registry, settings, windows, sentences and
\* requests: nothing that a filed sentence requires is left out of its rule, every
\* field of it is declared and every setting is one its property has, and whatever
\* other sentence makes the same rule says the same.
THEOREM DraftsAreWhole == DeskSpec => []FiledIsWhole
<1>. DEFINE AllWhole == \A d \in drafts : Whole(d)
<1>1. DeskInit => AllWhole
  BY DraftsInvInit
<1>2. DeskInv /\ AllWhole /\ [DeskNext(Request, Replies, Sentences)]_deskVars => AllWhole'
  BY DraftsInvStep DEF DeskInv, DeskTypeOK, DraftsInv
<1>3. AllWhole => FiledIsWhole
  BY WholeIsWhole
<1>. HIDE DEF AllWhole
<1>. QED BY <1>1, <1>2, <1>3, DeskInvInit, DeskInvStep, PTL DEF DeskSpec

------------------------------------------------------------------------------
(* The lock.                                                                *)


\* What the present lock says is the last word on every version it has passed:
\* what it recorded under its own number is what it now holds.
LastWord ==
  \A x \in recorded :
    x.control \notin dropped =>
      /\ lock[x.control] # Absent
      /\ x.version <= lock[x.control].version
      /\ x.version = lock[x.control].version => x.rule = lock[x.control].digest

OneRulePerVersion ==
  \A x, y \in recorded :
    x.control \notin dropped /\ x.control = y.control /\ x.version = y.version => x.rule = y.rule

LockInv == LockTypeOK /\ LastWord /\ OneRulePerVersion

\* Nothing is recorded to begin with.
LEMMA LockInvInit == LockInit => LockInv
BY LockAssumption DEF LockInit, LockInv, LockTypeOK, LastWord, OneRulePerVersion

\* An edit of the files touches no lock.
LEMMA LockInvEdit ==
  ASSUME LockInv,
         \/ \E c \in Reviewed, v \in Versions, r \in Rules, n \in Notes : Write(c, v, r, n)
         \/ \E c \in Reviewed : Drop(c)
         \/ UNCHANGED lockVars
  PROVE  LockInv'
<1>1. CASE \E c \in Reviewed, v \in Versions, r \in Rules, n \in Notes : Write(c, v, r, n)
  <2>1. PICK c \in Reviewed, v \in Versions, r \in Rules, n \in Notes : Write(c, v, r, n)
    BY <1>1
  <2>2. LockTypeOK'
    BY <2>1 DEF Write, LockInv, LockTypeOK
  <2>. QED BY <2>1, <2>2 DEF Write, LockInv, LastWord, OneRulePerVersion
<1>2. CASE \E c \in Reviewed : Drop(c)
  <2>1. PICK c \in Reviewed : Drop(c)
    BY <1>2
  <2>2. LockTypeOK'
    BY <2>1 DEF Drop, LockInv, LockTypeOK
  <2>. QED BY <2>1, <2>2 DEF Drop, LockInv, LastWord, OneRulePerVersion
<1>3. CASE UNCHANGED lockVars
  BY <1>3 DEF lockVars, LockInv, LockTypeOK, LastWord, OneRulePerVersion
<1>. QED BY <1>1, <1>2, <1>3

\* A lock is rebuilt only over files that have not gone back on it.
LEMMA LockInvBuild == LockInv /\ BuildLock => LockInv'
<1>. SUFFICES ASSUME LockInv, BuildLock PROVE LockInv'
  OBVIOUS
<1>. DEFINE New == {[control |-> c, version |-> files[c].version, rule |-> files[c].rule] : c \in Present}
<1>1. /\ LockProblems = {}
      /\ lock' = [c \in Reviewed |->
                    IF c \in Present THEN [version |-> files[c].version, digest |-> files[c].rule]
                    ELSE Absent]
      /\ recorded' = recorded \cup New
      /\ dropped' = dropped \cup {c \in Reviewed \ Present : lock[c] # Absent}
      /\ files' = files
  BY DEF BuildLock, PolicyDigest
<1>2. \A c \in Present :
        /\ c \in Reviewed
        /\ files[c] \in [version : Versions, rule : Rules, note : Notes]
        /\ files[c].version \in Versions /\ files[c].rule \in Rules
  BY DEF Present, LockInv, LockTypeOK
<1>3. New \subseteq [control : Reviewed, version : Versions, rule : Rules]
  BY <1>2
<1>4. LockTypeOK'
  <2>1. lock' \in [Reviewed -> [version : Versions, digest : Rules] \cup {Absent}]
    BY <1>1, <1>2
  <2>. QED BY <1>1, <1>3, <2>1 DEF LockInv, LockTypeOK
<1>5. \A x \in recorded' : x.control \notin dropped' =>
        /\ x.control \in Present
        /\ x.version <= files[x.control].version
        /\ x.version = files[x.control].version => x.rule = files[x.control].rule
  <2>. SUFFICES ASSUME NEW x \in recorded', x.control \notin dropped'
                PROVE  /\ x.control \in Present
                       /\ x.version <= files[x.control].version
                       /\ x.version = files[x.control].version => x.rule = files[x.control].rule
    OBVIOUS
  <2>1. CASE x \in New
    <3>1. PICK c \in Present :
            x = [control |-> c, version |-> files[c].version, rule |-> files[c].rule]
      BY <2>1
    <3>. QED BY <1>2, <3>1 DEF Versions
  <2>2. CASE x \in recorded
    <3>. DEFINE c == x.control
    <3>1. /\ c \in Reviewed /\ x.version \in Versions
          /\ c \notin dropped
      BY <1>1, <2>2 DEF LockInv, LockTypeOK
    <3>2. /\ lock[c] # Absent
          /\ x.version <= lock[c].version
          /\ x.version = lock[c].version => x.rule = lock[c].digest
      BY <2>2, <3>1 DEF LockInv, LastWord
    <3>3. c \in Present
      BY <1>1, <3>1, <3>2
    <3>4. /\ ~(files[c].version < lock[c].version)
          /\ files[c].version = lock[c].version => files[c].rule = lock[c].digest
      BY <1>1, <3>2, <3>3 DEF LockProblems, PolicyDigest
    <3>5. lock[c].version \in Versions /\ files[c].version \in Versions
      BY <1>2, <3>1, <3>2, <3>3 DEF LockInv, LockTypeOK
    <3>. QED BY <3>1, <3>2, <3>3, <3>4, <3>5 DEF Versions
  <2>. QED BY <1>1, <2>1, <2>2
<1>6. \A c \in Present : lock'[c] = [version |-> files[c].version, digest |-> files[c].rule]
  BY <1>1, <1>2
<1>7. LastWord'
  <2>. SUFFICES ASSUME NEW x \in recorded', x.control \notin dropped'
                PROVE  /\ lock'[x.control] # Absent
                       /\ x.version <= lock'[x.control].version
                       /\ x.version = lock'[x.control].version => x.rule = lock'[x.control].digest
    BY DEF LastWord
  <2>1. lock'[x.control] = [version |-> files[x.control].version, digest |-> files[x.control].rule]
    BY <1>5, <1>6
  <2>2. lock'[x.control] \in [version : Versions, digest : Rules]
    BY <1>2, <1>5, <2>1
  <2>3. lock'[x.control] # Absent
    BY <2>2, LockAssumption DEF Versions
  <2>4. /\ lock'[x.control].version = files[x.control].version
        /\ lock'[x.control].digest = files[x.control].rule
    BY <2>1
  <2>. QED BY <1>5, <2>3, <2>4
<1>8. OneRulePerVersion'
  <2>. SUFFICES ASSUME NEW x \in recorded', NEW y \in recorded', x.control \notin dropped',
                       x.control = y.control, x.version = y.version
                PROVE  x.rule = y.rule
    BY DEF OneRulePerVersion
  <2>1. CASE x \in recorded /\ y \in recorded
    BY <1>1, <2>1 DEF LockInv, OneRulePerVersion
  <2>2. CASE x \in New \/ y \in New
    <3>1. x.version = files[x.control].version
      BY <2>2
    <3>. QED BY <1>5, <3>1
  <2>. QED BY <1>1, <2>1, <2>2
<1>. QED BY <1>4, <1>7, <1>8 DEF LockInv

LEMMA LockInvStep == LockInv /\ [LockNext]_lockVars => LockInv'
BY LockInvEdit, LockInvBuild DEF LockNext

\* What was recorded is never above what is locked, and never two rules.
LEMMA LockInvHonest == LockInv => LockIsHonest
BY DEF LockInv, LastWord, OneRulePerVersion, LockIsHonest

\* The files, the lock and its history keep their types.
THEOREM LockTypeCorrect == LockSpec => []LockTypeOK
<1>1. LockInv => LockTypeOK
  BY DEF LockInv
<1>. QED BY LockInvInit, LockInvStep, <1>1, PTL DEF LockSpec

\* "A version number cannot lie", for any controls, rules and version numbers and
\* however people edit them: lock_problems() is enough, but for what was removed.
THEOREM VersionsAreHonest == LockSpec => []LockIsHonest
BY LockInvInit, LockInvStep, LockInvHonest, PTL DEF LockSpec
==============================================================================
