-------------------------------- MODULE Dns --------------------------------
(***************************************************************************)
(* Dns: queries over one UDP socket, a table of the outstanding ones in      *)
(* buckets, and the answers read edge triggered in the thread of the loop.   *)
(* Nothing locks the table, and any thread may call Dns.  An answered task is *)
(* work of the loop, which runs it and then deletes it.  The server and the   *)
(* network may lose, repeat and reorder answers.  A name is the sequence of   *)
(* the lengths of its labels, an answer packet that of its records' types.    *)
(***************************************************************************)
EXTENDS Integers, Sequences, SequencesExt, FiniteSetsExt

CONSTANTS Tasks,        \* DnsTask objects
          Names,        \* names asked for
          Answers,      \* record types of the packets the server sends
          DNS_BUCKET_SIZE,
          IdCount,      \* values of query_id: 2^16 in the code
          MaxRequests,  \* bound: calls of request
          MaxSocket     \* bound: datagrams waiting in the socket

ASSUME DnsAssumption == DNS_BUCKET_SIZE \in Nat \ {0} /\ IdCount \in Nat \ {0}

VARIABLES
  dnsUp,      \* init() has run, stop() has not
  dnsStopped, \* stop() has run at least once
  server,     \* setNameServer has connected the socket
  current_,
  queryId,    \* task -> query_id; -1 before the first request
  bucket_,    \* index -> entries, the latest first: [task, no], no the request's number
  count_,
  asked,      \* query ids the server has received
  datagrams,  \* kernel: [id, response, answers] in the socket
  dnsEdge,    \* epoll: the socket is on the ready list
  reading,    \* handle_read is in its loop
  response,   \* the response it works on: [id, answers], answers those ahead; or None
  addresses,  \* task -> entries of answer_address
  posted,     \* task -> number of times handle_read gave it to addWork
  ran,        \* task -> number of times the loop has run it and deleted it
  requested,  \* history: task -> number of requests entered into the table
  raced,      \* history: a call of another thread met handle_read
  undefined   \* freed memory or a torn list has been used: nothing is known

dnsVars == <<dnsUp, dnsStopped, server, current_, queryId, bucket_, count_, asked, datagrams, dnsEdge,
             reading, response, addresses, posted, ran, requested, raced, undefined>>
tableVars == <<current_, queryId, bucket_, count_, asked, requested>>
resultVars == <<addresses, posted>>
heapVars == <<ran, raced, undefined>>

MaxLabel == 64

None == <<>>
EmptyTable == [i \in 0 .. DNS_BUCKET_SIZE - 1 |-> <<>>]
Idle == dnsUp /\ ~reading
Deleted(t) == ran[t] > 0
InQueue(t) == ran[t] < posted[t]

DnsInit ==
  /\ dnsUp = FALSE /\ dnsStopped = FALSE /\ server = FALSE
  /\ current_ = 0 /\ queryId = [t \in Tasks |-> -1] /\ bucket_ = EmptyTable /\ count_ = 0
  /\ asked = {} /\ datagrams = <<>> /\ dnsEdge = FALSE /\ reading = FALSE /\ response = None
  /\ addresses = [t \in Tasks |-> 0] /\ posted = addresses /\ requested = addresses
  /\ ran = addresses /\ raced = FALSE /\ undefined = FALSE

(* init: a new socket, enrolled for input. *)
dnsInit ==
  /\ ~dnsUp
  /\ dnsUp' = TRUE /\ server' = FALSE /\ datagrams' = <<>> /\ dnsEdge' = FALSE
  /\ UNCHANGED <<dnsStopped, tableVars, reading, response, resultVars, heapVars>>

(* stop: the entries go, count_ stays. *)
dnsStop ==
  /\ Idle
  /\ dnsUp' = FALSE /\ dnsStopped' = TRUE /\ bucket_' = EmptyTable
  /\ datagrams' = <<>> /\ dnsEdge' = FALSE
  /\ UNCHANGED <<server, current_, queryId, count_, asked, reading, response, resultVars, heapVars, requested>>

(* setNameServer: refused while count_ says that there are requests; its
   recv() drops a datagram that is there. *)
setNameServer ==
  /\ Idle /\ count_ = 0
  /\ server' = TRUE
  /\ datagrams' = IF datagrams = <<>> THEN <<>> ELSE Tail(datagrams)
  /\ UNCHANGED <<dnsUp, dnsStopped, tableVars, dnsEdge, reading, response, resultVars, heapVars>>

-----------------------------------------------------------------------------
(* The lengths go where the dots are; a label that is too long fails. *)
coding(name) == \A i \in DOMAIN name : name[i] <= MaxLabel

(* request: the entry is taken back when the name cannot be coded, and stays
   when send() fails, as it does without a name server.  (A later failure is
   to the table what a lost packet is.)  A thread may call it while
   handle_read works on the table, and be lucky. *)
request(t, name) ==
  LET id == current_ % IdCount
      b == id % DNS_BUCKET_SIZE
  IN  /\ dnsUp /\ ~Deleted(t) /\ current_ < MaxRequests
      /\ current_' = current_ + 1
      /\ queryId' = [queryId EXCEPT ![t] = id]
      /\ IF coding(name)
         THEN /\ bucket_' = [bucket_ EXCEPT ![b] = <<[task |-> t, no |-> current_]>> \o @]
              /\ count_' = count_ + 1
              /\ requested' = [requested EXCEPT ![t] = @ + 1]
              /\ asked' = IF server THEN asked \cup {id} ELSE asked
         ELSE UNCHANGED <<bucket_, count_, requested, asked>>
      /\ raced' = (raced \/ reading)
      /\ UNCHANGED <<dnsUp, dnsStopped, server, datagrams, dnsEdge, reading, response, resultVars, ran, undefined>>

(* request, setNameServer or stop tears the list, or takes away the channel,
   that handle_read is using in the thread of the loop. *)
callRaces ==
  /\ dnsUp /\ reading
  /\ raced' = TRUE /\ undefined' = TRUE
  /\ UNCHANGED <<dnsUp, dnsStopped, server, tableVars, datagrams, dnsEdge, reading, response, resultVars, ran>>

(* The network brings an answer to any query, again perhaps, or a packet that
   is no response. *)
DnsArrives ==
  /\ dnsUp /\ server /\ Len(datagrams) < MaxSocket
  /\ \/ \E id \in asked, a \in Answers :
          datagrams' = Append(datagrams, [id |-> id, response |-> TRUE, answers |-> a])
     \/ datagrams' = Append(datagrams, [id |-> 0, response |-> FALSE, answers |-> <<>>])
  /\ dnsEdge' = TRUE
  /\ UNCHANGED <<dnsUp, dnsStopped, server, tableVars, reading, response, resultVars, heapVars>>

-----------------------------------------------------------------------------
(* epoll_wait returns the socket, and handle_read begins. *)
handle_read ==
  /\ Idle /\ dnsEdge
  /\ reading' = TRUE /\ dnsEdge' = FALSE
  /\ UNCHANGED <<dnsUp, dnsStopped, server, tableVars, datagrams, response, resultVars, heapVars>>

Receiving == reading /\ response = None

(* recv() returns -1. *)
handle_readEmpty ==
  /\ Receiving /\ datagrams = <<>> /\ reading' = FALSE
  /\ UNCHANGED <<dnsUp, dnsStopped, server, tableVars, datagrams, dnsEdge, response, resultVars, heapVars>>

handle_readNoResponse ==
  /\ Receiving /\ datagrams # <<>> /\ ~Head(datagrams).response
  /\ datagrams' = Tail(datagrams)
  /\ UNCHANGED <<dnsUp, dnsStopped, server, tableVars, dnsEdge, reading, response, resultVars, heapVars>>

(* A response is taken up; one without answers ends handle_read. *)
handle_readResponse ==
  /\ Receiving /\ datagrams # <<>> /\ Head(datagrams).response
  /\ LET p == Head(datagrams)
     IN  IF p.answers = <<>>
         THEN reading' = FALSE /\ UNCHANGED response
         ELSE response' = [id |-> p.id, answers |-> p.answers] /\ UNCHANGED reading
  /\ datagrams' = Tail(datagrams)
  /\ UNCHANGED <<dnsUp, dnsStopped, server, tableVars, dnsEdge, resultVars, heapVars>>

Bucket(id) == bucket_[id % DNS_BUCKET_SIZE]

(* The entries whose task has this id now. *)
Matches(id) ==
  LET b == Bucket(id)
  IN  {i \in DOMAIN b : ~Deleted(b[i].task) /\ queryId[b[i].task] = id}

(* The entries find_query may stop at: the first of these, or one before it
   whose deleted task still shows this id. *)
Stops(id) ==
  LET b == Bucket(id)
  IN  {i \in DOMAIN b : /\ Deleted(b[i].task) \/ i \in Matches(id)
                       /\ \A k \in Matches(id) : i <= k}

(* A bug: the entry that was found stays in the list. *)
find_queryKeeps(id, i) == count_' = count_ - 1 /\ UNCHANGED bucket_

(* find_query: the entry it stops at leaves the bucket. *)
find_query(id, i) ==
  /\ bucket_' = [bucket_ EXCEPT ![id % DNS_BUCKET_SIZE] = RemoveAt(@, i)]
  /\ count_' = count_ - 1

LastRecord == Len(response.answers) = 1
RecordsLeft == [id |-> response.id, answers |-> Tail(response.answers)]
AtRecord == reading /\ response # None

(* An A record whose query is found adds an address to the task; the task is
   posted, and the next datagram read, when it is the last record of all. *)
recordFound ==
  /\ AtRecord /\ Head(response.answers) = "A"
  /\ \E i \in Stops(response.id) :
       LET t == Bucket(response.id)[i].task
       IN  /\ addresses' = [addresses EXCEPT ![t] = @ + 1]
           /\ posted' = IF LastRecord THEN [posted EXCEPT ![t] = @ + 1] ELSE posted
           /\ find_query(response.id, i)
  /\ response' = IF LastRecord THEN None ELSE RecordsLeft
  /\ UNCHANGED <<dnsUp, dnsStopped, server, current_, queryId, asked, datagrams, dnsEdge, reading,
                 requested, heapVars>>

(* Any other record is passed over; after the last one handle_read returns,
   with datagrams perhaps left in the socket. *)
recordPassed ==
  /\ AtRecord /\ (Head(response.answers) # "A" \/ Matches(response.id) = {})
  /\ reading' = ~LastRecord
  /\ response' = IF LastRecord THEN None ELSE RecordsLeft
  /\ UNCHANGED <<dnsUp, dnsStopped, server, tableVars, datagrams, dnsEdge, resultVars, heapVars>>

(* find_query reads the id of a task that has been deleted. *)
recordDangles ==
  /\ AtRecord /\ Head(response.answers) = "A"
  /\ \E i \in Stops(response.id) : Deleted(Bucket(response.id)[i].task)
  /\ undefined' = TRUE
  /\ UNCHANGED <<dnsUp, dnsStopped, server, tableVars, datagrams, dnsEdge, reading, response, resultVars,
                 ran, raced>>

(* WorkQueue::doit in the thread of the loop: the task's callback, and delete.
   (The order of different tasks is that of the queue, which EventLoop models.) *)
runTask(t) ==
  /\ ~reading /\ InQueue(t)
  /\ ran' = [ran EXCEPT ![t] = @ + 1]
  /\ undefined' = Deleted(t)
  /\ UNCHANGED <<dnsUp, dnsStopped, server, tableVars, datagrams, dnsEdge, reading, response, resultVars, raced>>

DnsNext ==
  /\ ~undefined
  /\ \/ dnsInit \/ dnsStop \/ setNameServer \/ callRaces
     \/ \E t \in Tasks, name \in Names : request(t, name)
     \/ DnsArrives
     \/ handle_read \/ handle_readEmpty \/ handle_readNoResponse \/ handle_readResponse
     \/ recordFound \/ recordPassed \/ recordDangles
     \/ \E t \in Tasks : runTask(t)

DnsSpec == DnsInit /\ [][DnsNext]_dnsVars

-----------------------------------------------------------------------------
(* Properties *)

(* The entries of the table. *)
Entries == UNION {Range(bucket_[i]) : i \in DOMAIN bucket_}

(* Dns and WorkQueue::doit: however often the network repeats an answer, a task
   is posted at most once for each request, each time with another address; a
   task asked once is deleted once, and when it is deleted no entry of the table
   points at it; so freed memory is used, or the table torn, only after a task
   was asked twice or a call of another thread met handle_read.  Until stop()
   count_, which decides over setNameServer, agrees with the table. *)
PostedOnce ==
  /\ \A t \in Tasks : posted[t] <= requested[t] /\ posted[t] <= addresses[t]
  /\ \A t \in Tasks : Deleted(t) /\ requested[t] = 1 => ~InQueue(t) /\ \A e \in Entries : e.task # t
  /\ undefined => raced \/ \E t \in Tasks : requested[t] > 1
  /\ ~dnsStopped => count_ = Cardinality(Entries)
=============================================================================
