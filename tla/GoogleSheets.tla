---------------------------- MODULE GoogleSheets ----------------------------
(***************************************************************************)
(* The Google Sheets stream manager                                       *)
(* (services/streammanager/googlesheets/googlesheetsmanager.go).          *)
(*                                                                         *)
(* NewProducer writes the header row to A1 with Values.Update; Produce    *)
(* parses the transformed payload into a row and appends it with          *)
(* Values.Append, and maps a failed request to a status code.  The state  *)
(* is the spreadsheet itself, the producer the caller holds, and the last *)
(* response the caller saw for each message.  The caller (the router,     *)
(* outside this repository) is the environment: it uses a producer only  *)
(* when NewProducer returned no error, and produces a message again after *)
(* any response other than 200 and 400, a bounded number of times.        *)
(*                                                                         *)
(* A request to the Sheets API ends in one of RequestOutcomes; a context  *)
(* deadline may expire before or after the server applied the write.      *)
(***************************************************************************)
EXTENDS Naturals, Sequences, FiniteSets, SequencesExt

CONSTANTS
    Messages,        \* message ids
    Payload,         \* Payload[m]: the "message" object, key -> attributeValue
    BadKeys,         \* keys for which strconv.Atoi fails
    Headers,         \* header rows, one per destination config (EventKeyMap)
    Empty,           \* the Go zero string of an unset slice element
    NoMsg,           \* the msg field of a header row
    NoClient,        \* the caller holds no producer
    NotSent,         \* no response for the message yet
    ApiErrorCode,    \* the Code of a *googleapi.Error
    MaxProducers,    \* bound on NewProducer calls (restarts, config changes)
    MaxAttempts      \* bound on Produce calls per message

VARIABLES
    sheet,      \* the rows of the spreadsheet tab, top to bottom
    client,     \* the header of the producer NewProducer returned last, or NoClient
    clientErr,  \* NewProducer returned that client together with an error
    producers,  \* NewProducer calls so far
    status,     \* status[m]: the status code of the last Produce of m
    attempts,   \* attempts[m]: Produce calls for m so far
    panicked    \* the message whose Produce panicked (crashing the server), or NoMsg

vars == <<sheet, client, clientErr, producers, status, attempts, panicked>>

RequestOutcomes ==
    {"ok", "deadline_applied", "deadline_lost", "api_error", "token_expired", "transport_error"}

\* The server wrote the row (the client may still have seen an error).
Applied(o) == o \in {"ok", "deadline_applied"}

Values == UNION {Range(Payload[m]) : m \in Messages} \cup {Empty}

-----------------------------------------------------------------------------
(* handleServiceError: 500 by default, 504 for a deadline, 721 for an     *)
(* expired token without a refresh token, the API's code for a            *)
(* *googleapi.Error.                                                       *)
\* Mutant: the default statusCode = 500 dropped, Go's zero code returned.
handleServiceErrorNoDefault(o) ==
    CASE o \in {"deadline_applied", "deadline_lost"} -> 504
      [] o = "token_expired"                         -> 721
      [] o = "api_error"                             -> ApiErrorCode
      [] OTHER                                       -> 0

handleServiceError(o) ==
    CASE o \in {"deadline_applied", "deadline_lost"} -> 504
      [] o = "token_expired"                         -> 721
      [] o = "api_error"                             -> ApiErrorCode
      [] o = "transport_error"                       -> 500

(* insertDataToSheet: the header is written over A1 with Values.Update,  *)
(* a data row is appended after the table anchored at A1.                 *)
SetRowOne(s, row) == IF s = <<>> THEN <<row>> ELSE [s EXCEPT ![1] = row]

\* Mutant: rows written with Values.Update as well, over A1.
insertDataToSheetUpdatesOnly(s, row, isHeader) == SetRowOne(s, row)

insertDataToSheet(s, row, isHeader) ==
    IF isHeader THEN SetRowOne(s, row) ELSE Append(s, row)

(* parseTransformedData: values has one slot per key of the message;     *)
(* the keys are visited in Go's random map order; a key that is not a    *)
(* number returns an error, a number outside the slice panics.            *)
Slots(p) == 0..(Cardinality(DOMAIN p) - 1)

RECURSIVE Fill(_, _, _)
Fill(p, vals, ord) ==
    IF ord = <<>> THEN [kind |-> "ok", vals |-> vals]
    ELSE LET k == Head(ord) IN
         IF k \in BadKeys THEN [kind |-> "error", vals |-> vals]
         ELSE IF k \notin DOMAIN vals THEN [kind |-> "panic", vals |-> vals]
         ELSE Fill(p, [vals EXCEPT ![k] = p[k]], Tail(ord))

parseTransformedData(p) ==
    {Fill(p, [i \in Slots(p) |-> Empty], ord) : ord \in SetToSeqs(DOMAIN p)}

\* The row a payload whose keys are 0..n-1 stands for: column i holds key i.
ExpectedRow(p) == [i \in Slots(p) |-> p[i]]

-----------------------------------------------------------------------------
Init ==
    /\ sheet = <<>>
    /\ client = NoClient
    /\ clientErr = FALSE
    /\ producers = 0
    /\ status = [m \in Messages |-> NotSent]
    /\ attempts = [m \in Messages |-> 0]
    /\ panicked = NoMsg

(* NewProducer: the config, OAuth client or service may fail (nil client);*)
(* otherwise the header row messageId|EventKeyMap.to... is written to A1  *)
(* and the client is returned together with the Update's error.           *)
NewProducerFails ==
    /\ panicked = NoMsg
    /\ producers < MaxProducers
    /\ producers' = producers + 1
    /\ client' = NoClient
    /\ clientErr' = TRUE
    /\ UNCHANGED <<sheet, status, attempts, panicked>>

NewProducer(h) ==
    /\ panicked = NoMsg
    /\ producers < MaxProducers
    /\ producers' = producers + 1
    /\ \E o \in RequestOutcomes :
         /\ sheet' = IF Applied(o)
                     THEN insertDataToSheet(sheet, [msg |-> NoMsg, cols |-> h], TRUE)
                     ELSE sheet
         /\ client' = h
         /\ clientErr' = (o # "ok")
    /\ UNCHANGED <<status, attempts, panicked>>

(* Produce: parse (400 on an error), append the row, and answer 200 or    *)
(* the code handleServiceError gives the request's error.  The caller     *)
(* calls it only with a producer NewProducer returned without an error.   *)
Produce(m) ==
    /\ panicked = NoMsg
    /\ client # NoClient /\ ~clientErr
    /\ status[m] \notin {200, 400}
    /\ attempts[m] < MaxAttempts
    /\ attempts' = [attempts EXCEPT ![m] = @ + 1]
    /\ \E r \in parseTransformedData(Payload[m]) :
         \/ /\ r.kind = "panic"
            /\ panicked' = m
            /\ UNCHANGED <<sheet, status>>
         \/ /\ r.kind = "error"
            /\ status' = [status EXCEPT ![m] = 400]
            /\ UNCHANGED <<sheet, panicked>>
         \/ /\ r.kind = "ok"
            /\ \E o \in RequestOutcomes :
                 /\ sheet' = IF Applied(o)
                             THEN insertDataToSheet(sheet, [msg |-> m, cols |-> r.vals], FALSE)
                             ELSE sheet
                 /\ status' = [status EXCEPT ![m] = IF o = "ok" THEN 200 ELSE handleServiceError(o)]
            /\ UNCHANGED panicked
    /\ UNCHANGED <<client, clientErr, producers>>

Next ==
    \/ NewProducerFails
    \/ \E h \in Headers : NewProducer(h)
    \/ \E m \in Messages : Produce(m)

Spec == Init /\ [][Next]_vars

-----------------------------------------------------------------------------
StatusCodes == {200, 400, 500, 504, 721, ApiErrorCode}

TypeOK ==
    /\ sheet \in Seq([msg : Messages \cup {NoMsg}, cols : Headers \cup UNION {[S -> Values] : S \in {Slots(Payload[m]) : m \in Messages}}])
    /\ client \in Headers \cup {NoClient}
    /\ clientErr \in BOOLEAN
    /\ producers \in 0..MaxProducers
    /\ status \in [Messages -> StatusCodes \cup {NotSent}]
    /\ attempts \in [Messages -> 0..MaxAttempts]
    /\ panicked \in Messages \cup {NoMsg}

\* A message answered 200 has a row in the sheet holding its attribute
\* values in key order, and keeps it: no later header Update, append or
\* retry overwrites it, whichever order Go's map iteration took.
AcknowledgedRowsPersist ==
    \A m \in Messages :
        status[m] = 200 =>
            \E i \in 1..Len(sheet) : sheet[i] = [msg |-> m, cols |-> ExpectedRow(Payload[m])]
====
