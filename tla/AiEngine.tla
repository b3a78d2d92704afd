----------------------------- MODULE AiEngine -----------------------------
(* The AI test engineer: governed analysis requests, their attempts, log and *)
(* risk analyses, test suggestions on their way into the catalogue, private  *)
(* conversations with an expiry, and immutable evidence projections of all   *)
(* of these.  Every operation below a request locks the request or the row   *)
(* it changes, except a projection, which reads its source without a lock    *)
(* and is inserted by a later statement.                                     *)
EXTENDS TestCatalog, AnalysisRules

CONSTANTS
    AiRequests, Attempts, LogAnalyses, RiskAnalyses, Suggestions,
    Conversations, Exchanges, Projections,
    Users, Evidence, Contents,
    Adapters,      \* kinds of the enabled adapters; the code ships a local one
    MaxAttempts,   \* 3
    MaxCitations,  \* references the local adapter cites, 10
    MaxExchanges,  \* 50
    Null

VARIABLES
    aiRequests,    \* analysis request -> NotStored or its row
    attempts,      \* execution -> NotStored or its row
    logAnalyses, riskAnalyses, suggestions,
    conversations, exchanges,
    projections,   \* projection -> NotStored or the card
    projecting,    \* projection -> Idle or what its request has read
    answered,      \* projection -> the answers its retries were given
    authored       \* definition -> None or its content, author included

analysisVars == <<aiRequests, attempts, logAnalyses, riskAnalyses>>
chatVars == <<conversations, exchanges>>
cardVars == <<projections, projecting, answered>>
aiVars == <<analysisVars, suggestions, chatVars, cardVars, authored>>

Tasks == {"log_analysis", "test_suggestion", "root_cause"}
LogTasks == {"log_analysis", "root_cause"}
RiskTasks == {"root_cause"}
Policies == {"local_only", "external_allowed"}
Classes == {"internal", "restricted"}

(* The rows of the tables, as far as the rules read them.                    *)
RequestRow == [task : Tasks, owner : Users, policy : Policies, class : Classes,
               evidence : SUBSET Evidence, status : {"queued", "succeeded", "failed"}, attempts : 0..MaxAttempts]
AttemptRow == [request : AiRequests, attempt : 1..MaxAttempts, status : {"succeeded", "failed"},
               kind : Adapters, citations : SUBSET Evidence]
LogRow == [request : AiRequests, lines : LogBatches, parsed : Nat,
           anomalies : SUBSET [type : {"severe_event", "burst"}, severity : {"medium", "high", "critical"},
                               cluster : Nat, lines : SUBSET Nat]]
RiskRow(signals) ==
    [request : AiRequests, top : signals, signals : {signals}, score : 0..100,
     band : {"low", "medium", "high", "critical"}, predicted : BOOLEAN, version : 1..2,
     outcome : BOOLEAN \cup {Null}, correct : BOOLEAN \cup {Null}]
SuggestionRow == [request : AiRequests, content : Contents, evidence : SUBSET Evidence,
                  status : {"draft", "approved", "rejected", "promoted"}, version : 1..3,
                  definition : Definitions \cup {Null}]
ConversationRow == [request : AiRequests, owner : Users, status : {"active", "expired"}, due : BOOLEAN,
                    count : 0..MaxExchanges]
ExchangeRow == [conversation : Conversations, citations : SUBSET Evidence, sequence : 1..MaxExchanges]

(* No row is mistaken for none, nor a definition or an outcome.              *)
ASSUME AiAssumption ==
    /\ MaxAttempts \in 0..3 /\ MaxCitations \in Nat /\ MaxExchanges \in Nat /\ Users # {}
    /\ Null \notin Definitions /\ Null \notin BOOLEAN
    /\ NotStored \notin RequestRow /\ NotStored \notin AttemptRow /\ NotStored \notin LogRow
    /\ NotStored \notin SuggestionRow /\ NotStored \notin ConversationRow /\ NotStored \notin ExchangeRow
    /\ \A signals \in SignalSets : NotStored \notin RiskRow(signals)

Known(row) == row # NotStored
Evidences(r) == aiRequests[r].evidence

-----------------------------------------------------------------------------
(* A request is stored once; restricted data stays with local adapters.      *)
CreateRequest(r, task, owner, policy, class, evidence) ==
    /\ ~Known(aiRequests[r])
    /\ class = "restricted" => policy = "local_only"
    /\ aiRequests' = [aiRequests EXCEPT ![r] =
                      [task |-> task, owner |-> owner, policy |-> policy, class |-> class,
                       evidence |-> evidence, status |-> "queued", attempts |-> 0]]
    /\ UNCHANGED <<attempts, logAnalyses, riskAnalyses, suggestions, chatVars, cardVars, authored, catalogVars>>

(* One attempt under the request's lock: the adapter answers or fails, and   *)
(* the attempt and the request's status are stored together.  The local      *)
(* adapter cites the first references of the request, a failed one cites     *)
(* none.                                                                     *)
ExecuteRequest(x, r, kind, outcome, cited) ==
    /\ ~Known(attempts[x]) /\ Known(aiRequests[r])
    /\ aiRequests[r].status \notin {"succeeded", "running"}
    /\ aiRequests[r].attempts < MaxAttempts
    /\ kind \in Adapters
    /\ kind = "external" => aiRequests[r].policy = "external_allowed" /\ aiRequests[r].class # "restricted"
    /\ cited \subseteq (IF outcome = "succeeded" THEN Evidences(r) ELSE {})
    /\ kind = "local" /\ outcome = "succeeded" =>
          Cardinality(cited) = LET all == Cardinality(Evidences(r)) IN IF all < MaxCitations THEN all ELSE MaxCitations
    /\ aiRequests' = [aiRequests EXCEPT ![r].status = outcome, ![r].attempts = @ + 1]
    /\ attempts' = [attempts EXCEPT ![x] =
                      [request |-> r, attempt |-> aiRequests[r].attempts + 1, status |-> outcome, kind |-> kind,
                       citations |-> cited]]
    /\ UNCHANGED <<logAnalyses, riskAnalyses, suggestions, chatVars, cardVars, authored, catalogVars>>

NoneFor(table, r) == \A x \in DOMAIN table : Known(table[x]) => table[x].request # r

CreateLogAnalysis(x, r, lines) ==
    /\ ~Known(logAnalyses[x]) /\ Known(aiRequests[r])
    /\ aiRequests[r].task \in LogTasks
    /\ NoneFor(logAnalyses, r)
    /\ Analysable(lines)
    /\ logAnalyses' = [logAnalyses EXCEPT ![x] =
                         [request |-> r, lines |-> lines, parsed |-> Len(Timeline(lines)),
                          anomalies |-> Anomalies(lines)]]
    /\ UNCHANGED <<aiRequests, attempts, riskAnalyses, suggestions, chatVars, cardVars, authored, catalogVars>>

(* Signals must cite evidence of the request.                                *)
CreateRiskAnalysis(x, r, signals) ==
    /\ ~Known(riskAnalyses[x]) /\ Known(aiRequests[r])
    /\ aiRequests[r].task \in RiskTasks
    /\ NoneFor(riskAnalyses, r)
    /\ UNION {s.evidence : s \in signals} \subseteq Evidences(r)
    /\ LET score == RiskScore(signals) IN
       riskAnalyses' = [riskAnalyses EXCEPT ![x] =
                          [request |-> r, top |-> RankHypotheses(signals)[1], signals |-> signals,
                           score |-> score, band |-> RiskBand(score), predicted |-> score >= 50,
                           version |-> 1, outcome |-> Null, correct |-> Null]]
    /\ UNCHANGED <<aiRequests, attempts, logAnalyses, suggestions, chatVars, cardVars, authored, catalogVars>>

(* The observed outcome is recorded once.  The evidence it cites and the     *)
(* hypothesis it confirms, which must be the request's and one of those      *)
(* ranked, decide nothing later and are left out.                            *)
EvaluatePrediction(x, failed, expected) ==
    /\ Known(riskAnalyses[x])
    /\ riskAnalyses[x].outcome = Null
    /\ riskAnalyses[x].version = expected
    /\ riskAnalyses' = [riskAnalyses EXCEPT ![x].outcome = failed,
                          ![x].correct = (riskAnalyses[x].predicted = failed), ![x].version = @ + 1]
    /\ UNCHANGED <<aiRequests, attempts, logAnalyses, suggestions, chatVars, cardVars, authored, catalogVars>>

-----------------------------------------------------------------------------
(* Suggestions: one per request, reviewed once, promoted once approved.      *)
CreateSuggestion(x, r, content, evidence) ==
    /\ ~Known(suggestions[x]) /\ Known(aiRequests[r])
    /\ aiRequests[r].task = "test_suggestion"
    /\ NoneFor(suggestions, r)
    /\ suggestions' = [suggestions EXCEPT ![x] =
                         [request |-> r, content |-> content, evidence |-> Evidences(r) \cup evidence,
                          status |-> "draft", version |-> 1, definition |-> Null]]
    /\ UNCHANGED <<analysisVars, chatVars, cardVars, authored, catalogVars>>

\* Faulty variant: a reviewed suggestion may be reviewed again.
ReviewSuggestionAgain(x, decision, expected) ==
    /\ Known(suggestions[x])
    /\ suggestions[x].status # "promoted" /\ suggestions[x].version = expected
    /\ suggestions' = [suggestions EXCEPT ![x].status = decision, ![x].version = @ + 1]
    /\ UNCHANGED <<analysisVars, chatVars, cardVars, authored, catalogVars>>

ReviewSuggestion(x, decision, expected) ==
    /\ Known(suggestions[x])
    /\ suggestions[x].status = "draft" /\ suggestions[x].version = expected
    /\ suggestions' = [suggestions EXCEPT ![x].status = decision, ![x].version = @ + 1]
    /\ UNCHANGED <<analysisVars, chatVars, cardVars, authored, catalogVars>>

(* Somebody else writes a definition of the catalogue by hand.               *)
AuthorDefinition(d, content) ==
    /\ CreateDefinition(d)
    /\ authored' = [authored EXCEPT ![d] = content]
    /\ UNCHANGED <<analysisVars, suggestions, chatVars, cardVars>>

\* Faulty variant: promotion takes whatever definition has the identifier.
PromoteSuggestionOntoAny(x, d, expected) ==
    /\ Known(suggestions[x])
    /\ suggestions[x].status = "approved" /\ suggestions[x].version = expected
    /\ \/ CreateDefinition(d) /\ authored' = [authored EXCEPT ![d] = suggestions[x].content]
       \/ Stored(d) /\ UNCHANGED <<catalogVars, authored>>
    /\ suggestions' = [suggestions EXCEPT ![x].status = "promoted", ![x].version = @ + 1, ![x].definition = d]
    /\ UNCHANGED <<analysisVars, chatVars, cardVars>>

(* Promotion creates the definition in the same transaction, as a draft; an  *)
(* identifier that holds the same content already is taken as it stands, one *)
(* that holds another is a conflict.                                         *)
PromoteSuggestion(x, d, expected) ==
    /\ Known(suggestions[x])
    /\ suggestions[x].status = "approved" /\ suggestions[x].version = expected
    /\ \/ CreateDefinition(d) /\ authored' = [authored EXCEPT ![d] = suggestions[x].content]
       \/ /\ Stored(d) /\ authored[d] = suggestions[x].content
          /\ UNCHANGED <<catalogVars, authored>>
    /\ suggestions' = [suggestions EXCEPT ![x].status = "promoted", ![x].version = @ + 1, ![x].definition = d]
    /\ UNCHANGED <<analysisVars, chatVars, cardVars>>

-----------------------------------------------------------------------------
(* Conversations: only the owner of the request opens one and asks in it.    *)
Of(c) == {x \in Exchanges : Known(exchanges[x]) /\ exchanges[x].conversation = c}

CreateConversation(c, r, u) ==
    /\ ~Known(conversations[c]) /\ Known(aiRequests[r])
    /\ aiRequests[r].owner = u
    /\ conversations' = [conversations EXCEPT ![c] =
                           [request |-> r, owner |-> u, status |-> "active", due |-> FALSE, count |-> 0]]
    /\ UNCHANGED <<analysisVars, suggestions, exchanges, cardVars, authored, catalogVars>>

CreateExchange(x, c, u, citations) ==
    /\ ~Known(exchanges[x]) /\ Known(conversations[c])
    /\ conversations[c].owner = u
    /\ conversations[c].status = "active" /\ ~conversations[c].due
    /\ conversations[c].count < MaxExchanges
    /\ citations # {} /\ citations \subseteq Evidences(conversations[c].request)
    /\ exchanges' = [exchanges EXCEPT ![x] = [conversation |-> c, citations |-> citations,
                                              sequence |-> conversations[c].count + 1]]
    /\ conversations' = [conversations EXCEPT ![c].count = @ + 1]
    /\ UNCHANGED <<analysisVars, suggestions, cardVars, authored, catalogVars>>

(* The retention period of a conversation ends.                              *)
Expire(c) ==
    /\ Known(conversations[c]) /\ ~conversations[c].due
    /\ conversations' = [conversations EXCEPT ![c].due = TRUE]
    /\ UNCHANGED <<analysisVars, suggestions, exchanges, cardVars, authored, catalogVars>>

(* The purge deletes what was said in every conversation past its period.    *)
PurgeExpired ==
    LET over == {c \in Conversations : Known(conversations[c]) /\ conversations[c].status = "active"
                                       /\ conversations[c].due}
    IN /\ over # {}
       /\ conversations' = [c \in Conversations |->
            IF c \in over THEN [conversations[c] EXCEPT !.status = "expired", !.count = 0]
            ELSE conversations[c]]
       /\ exchanges' = [x \in Exchanges |->
            IF Known(exchanges[x]) /\ exchanges[x].conversation \in over THEN NotStored ELSE exchanges[x]]
       /\ UNCHANGED <<analysisVars, suggestions, cardVars, authored, catalogVars>>

-----------------------------------------------------------------------------
(* What a card copies from its source.  A posted command names one source;   *)
(* a retry repeats it.                                                       *)
Sources == [of : {"execution"}, id : Attempts] \cup [of : {"risk"}, id : RiskAnalyses]
           \cup [of : {"suggestion"}, id : Suggestions] \cup [of : {"chat"}, id : Exchanges]
           \cup [of : {"log"}, id : LogAnalyses]

SourceRow(s) ==
    CASE s.of = "execution" -> attempts[s.id] [] s.of = "risk" -> riskAnalyses[s.id]
      [] s.of = "log" -> logAnalyses[s.id] [] s.of = "suggestion" -> suggestions[s.id]
      [] s.of = "chat" -> exchanges[s.id]

Card(s) ==
    LET row == SourceRow(s)
        Shows(status, citations) == [source |-> s, status |-> status, citations |-> citations] IN
    CASE s.of = "execution" -> Shows(row.status, row.citations)
      [] s.of = "log" -> Shows("completed", Evidences(row.request))
      [] s.of = "suggestion" -> Shows(row.status, row.evidence)
      [] s.of = "risk" -> Shows(IF row.outcome = Null THEN "completed" ELSE "evaluated", row.top.evidence)
      [] s.of = "chat" -> Shows("answered", row.citations)

CardRow == [source : Sources, citations : SUBSET Evidence,
            status : {"succeeded", "failed", "completed", "evaluated", "answered",
                      "draft", "approved", "rejected", "promoted"}]

Answer(p, what) == answered' = [answered EXCEPT ![p] = @ \cup {what}]

(* The request for projection p always names source s: the first post and    *)
(* every retry of it read the source as it is now.  A chat is only read by   *)
(* its owner.                                                                *)
ReadSource(p, s) ==
    /\ projecting[p] = Idle
    /\ Known(projections[p]) => projections[p].source = s
    /\ IF Known(SourceRow(s)) /\ Card(s).citations # {}
       THEN projecting' = [projecting EXCEPT ![p] = Card(s)] /\ UNCHANGED answered
       ELSE Known(projections[p]) /\ Answer(p, "refused") /\ UNCHANGED projecting
    /\ UNCHANGED <<analysisVars, suggestions, chatVars, projections, authored, catalogVars>>

(* The card is stored once; what was read must equal a stored card.          *)
CreateProjection(p) ==
    /\ projecting[p] # Idle
    /\ IF ~Known(projections[p])
       THEN projections' = [projections EXCEPT ![p] = projecting[p]] /\ Answer(p, "created")
       ELSE /\ Answer(p, IF projections[p] = projecting[p] THEN "duplicate" ELSE "conflict")
            /\ UNCHANGED projections
    /\ projecting' = [projecting EXCEPT ![p] = Idle]
    /\ UNCHANGED <<analysisVars, suggestions, chatVars, authored, catalogVars>>

-----------------------------------------------------------------------------
AiInit ==
    /\ aiRequests = [r \in AiRequests |-> NotStored]
    /\ attempts = [x \in Attempts |-> NotStored]
    /\ logAnalyses = [x \in LogAnalyses |-> NotStored]
    /\ riskAnalyses = [x \in RiskAnalyses |-> NotStored]
    /\ suggestions = [x \in Suggestions |-> NotStored]
    /\ conversations = [c \in Conversations |-> NotStored]
    /\ exchanges = [x \in Exchanges |-> NotStored]
    /\ projections = [p \in Projections |-> NotStored]
    /\ projecting = [p \in Projections |-> Idle]
    /\ answered = [p \in Projections |-> {}]
    /\ authored = [d \in Definitions |-> Null]

Terms == Policies \X Classes
Ordinary == {<<"local_only", "internal">>}

AskFor(tasks, terms, owners) ==
    \E r \in AiRequests, task \in tasks, t \in terms, u \in owners, evidence \in {{}, Evidence} :
        CreateRequest(r, task, u, t[1], t[2], evidence)

Project(kinds) ==
    \/ \E p \in Projections, s \in Sources : s.of \in kinds /\ ReadSource(p, s)
    \/ \E p \in Projections : CreateProjection(p)

AttemptStep ==
    \/ AskFor({"root_cause"}, Terms, {CHOOSE u \in Users : TRUE})
    \/ \E x \in Attempts, r \in AiRequests, kind \in {"local", "external"},
          outcome \in {"succeeded", "failed"}, cited \in SUBSET Evidence :
          ExecuteRequest(x, r, kind, outcome, cited)
    \/ Project({"execution"})

LogStep ==
    \/ AskFor(Tasks \ {"log_analysis"}, Ordinary, {CHOOSE u \in Users : TRUE})
    \/ \E x \in LogAnalyses, r \in AiRequests, lines \in LogBatches : CreateLogAnalysis(x, r, lines)
    \/ Project({"log"})

RiskStep ==
    \/ AskFor({"root_cause"}, Ordinary, {CHOOSE u \in Users : TRUE})
    \/ \E x \in RiskAnalyses, r \in AiRequests, signals \in SignalSets : CreateRiskAnalysis(x, r, signals)
    \/ \E x \in RiskAnalyses, failed \in BOOLEAN, expected \in 1..2 : EvaluatePrediction(x, failed, expected)
    \/ Project({"risk"})

SuggestionStep ==
    \/ AskFor({"test_suggestion"}, Ordinary, {CHOOSE u \in Users : TRUE})
    \/ \E x \in Suggestions, r \in AiRequests, content \in Contents, evidence \in {{}, Evidence} :
          CreateSuggestion(x, r, content, evidence)
    \/ \E x \in Suggestions, decision \in {"approved", "rejected"}, expected \in 1..3 :
          ReviewSuggestion(x, decision, expected)
    \/ \E d \in Definitions, content \in Contents : AuthorDefinition(d, content)
    \/ \E x \in Suggestions, d \in Definitions, expected \in 1..3 : PromoteSuggestion(x, d, expected)
    \/ Project({"suggestion"})

ChatStep ==
    \/ AskFor({"log_analysis"}, Ordinary, Users)
    \/ \E c \in Conversations, r \in AiRequests, u \in Users : CreateConversation(c, r, u)
    \/ \E x \in Exchanges, c \in Conversations, u \in Users, citations \in SUBSET Evidence :
          CreateExchange(x, c, u, citations)
    \/ \E c \in Conversations : Expire(c)
    \/ PurgeExpired
    \/ Project({"chat"})

AiTypeOK ==
    LET Typed(table, row) == \A x \in DOMAIN table : Known(table[x]) => table[x] \in row IN
    /\ Typed(aiRequests, RequestRow) /\ Typed(attempts, AttemptRow) /\ Typed(suggestions, SuggestionRow)
    /\ Typed(conversations, ConversationRow) /\ Typed(exchanges, ExchangeRow) /\ Typed(logAnalyses, LogRow)
    /\ Typed(projections, CardRow)
    /\ \A x \in RiskAnalyses : Known(riskAnalyses[x]) => riskAnalyses[x] \in RiskRow(riskAnalyses[x].signals)
    /\ \A d \in Definitions : authored[d] \in Contents \cup {Null}

-----------------------------------------------------------------------------
(* The attempts of a request are one history: numbered without a gap, at     *)
(* most three, only the last one successful, its outcome the request's; and  *)
(* restricted data never went to an external adapter.                        *)
AttemptsAreOneHistory ==
    \A r \in AiRequests : Known(aiRequests[r]) =>
        LET its == {x \in Attempts : Known(attempts[x]) /\ attempts[x].request = r} IN
        /\ {attempts[x].attempt : x \in its} = 1..aiRequests[r].attempts
        /\ Cardinality(its) = aiRequests[r].attempts /\ aiRequests[r].attempts <= 3
        /\ \A x \in its : IF attempts[x].attempt = aiRequests[r].attempts
                          THEN attempts[x].status = aiRequests[r].status
                          ELSE attempts[x].status = "failed"
        /\ aiRequests[r].class = "restricted" => \A x \in its : attempts[x].kind = "local"

(* A conversation holds exactly the exchanges it counts, in one sequence     *)
(* without a gap; what was said is gone once it expired; and nothing cites   *)
(* what its request does not govern.                                         *)
ConversationsAreSound ==
    /\ \A c \in Conversations : Known(conversations[c]) =>
         /\ Cardinality(Of(c)) = conversations[c].count
         /\ {exchanges[x].sequence : x \in Of(c)} = 1..conversations[c].count
         /\ conversations[c].status = "expired" => Of(c) = {}
         /\ conversations[c].owner = aiRequests[conversations[c].request].owner
         /\ \A x \in Of(c) : exchanges[x].citations \subseteq Evidences(conversations[c].request)
    /\ \A x \in Exchanges : Known(exchanges[x]) => Known(conversations[exchanges[x].conversation])

(* A promoted suggestion names a definition with exactly its content, and no *)
(* request has two suggestions or two analyses.                              *)
SuggestionsAreTraceable ==
    /\ \A x \in Suggestions : Known(suggestions[x]) =>
         /\ (suggestions[x].definition # Null) <=> (suggestions[x].status = "promoted")
         /\ suggestions[x].status = "promoted" =>
              /\ Stored(suggestions[x].definition)
              /\ authored[suggestions[x].definition] = suggestions[x].content
    /\ \A table \in {suggestions, logAnalyses, riskAnalyses} : \A x, y \in DOMAIN table :
         Known(table[x]) /\ Known(table[y]) /\ x # y => table[x].request # table[y].request

(* The anomalies of a batch are those a reader of the raw lines would name:  *)
(* any three lines of one cluster within ten seconds are a burst, whatever   *)
(* stands between them; and a failure is predicted exactly for the two       *)
(* upper bands, on the strength of the best supported signal.                *)
AnalysesAreGrounded ==
    /\ \A x \in LogAnalyses : Known(logAnalyses[x]) =>
         LET lines == logAnalyses[x].lines
             Lines(c) == {i \in DOMAIN lines : lines[i] # NoMatch /\ lines[i].cluster = c}
         IN /\ logAnalyses[x].parsed = Cardinality({i \in DOMAIN lines : lines[i] # NoMatch})
            /\ \A c \in ClusterIds(lines) :
                 (\E a \in logAnalyses[x].anomalies : a.type = "burst" /\ a.cluster = c)
                   <=> \E T \in SUBSET Lines(c) : Cardinality(T) = 3
                         /\ \A i, j \in T : lines[i].time - lines[j].time <= 10
            /\ \A a \in logAnalyses[x].anomalies :
                 a.type = "severe_event" => \E i \in a.lines : lines[i].level \in SevereLevels
    /\ \A x \in RiskAnalyses : Known(riskAnalyses[x]) =>
         LET row == riskAnalyses[x] IN
         /\ row.predicted <=> (row.band \in {"high", "critical"})
         /\ \A s \in row.signals : Support(s) <= Support(row.top)
         /\ row.version = IF row.outcome = Null THEN 1 ELSE 2

(* A card shows a state its source has had: of a suggestion, an analysis or  *)
(* a conversation that has moved on since, never one it has not reached.     *)
Reached(s, status) ==
    LET row == SourceRow(s) IN
    CASE s.of = "suggestion" -> status = "draft" \/ status = row.status
                                \/ (status = "approved" /\ row.status = "promoted")
      [] s.of = "risk" -> status = "completed" \/ row.outcome # Null
      [] s.of = "chat" -> TRUE
      [] OTHER -> status = Card(s).status

CardsAreSnapshots ==
    \A p \in Projections : Known(projections[p]) =>
        /\ projections[p].citations # {}
        /\ projections[p].source.of # "chat" => Known(SourceRow(projections[p].source))
        /\ Reached(projections[p].source, projections[p].status)
=============================================================================
