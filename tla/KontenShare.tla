----------------------------- MODULE KontenShare -----------------------------
(***************************************************************************)
(* GET /v1/kitab/{id}/konten (internal/handler/konten.go): the handler     *)
(* translates the sections it got from the service in place, in the slice  *)
(* itself.  Who else holds that slice?  On a cache hit nobody: the entry   *)
(* was decoded for this request.  On a miss singleflight hands the slice   *)
(* of the leader to every client of the flight, by reference.              *)
(*                                                                         *)
(* All clients ask for one page of one kitab, so they share one cache key; *)
(* each serves one request.  A slice is named by the client that made it.  *)
(* The text of a section is known by its language.  Assigning to a string  *)
(* variable of Go stores two words, the data pointer and the length, with  *)
(* no lock: a concurrent reader may see the first word without the second. *)
(***************************************************************************)
EXTENDS Naturals

CONSTANTS
  Clients,      \* goroutines, one request each
  Sections,     \* the number of sections on the page
  LangOf,       \* the lang parameter of each request, Arabic if none
  Arabic,       \* the language the text is stored in
  NotFound,     \* the response 404
  Failed,       \* the response 500
  None          \* no cache entry, no flight, no slice, no response

Langs == {Arabic} \cup {LangOf[c] : c \in Clients}
Index == 1..Sections
Words == [ptr : Langs, len : Langs]
Page  == [Index -> Words]

Text(lang) == [ptr |-> lang, len |-> lang]
Original   == [i \in Index |-> Text(Arabic)]

ASSUME ConstantsAssumption ==
  /\ Sections \in Nat
  /\ LangOf \in [Clients -> Langs]
  /\ None \notin Clients \cup Langs \cup Page

VARIABLES
  pc,       \* where each client is
  heap,     \* the slices made so far, by the client that made them
  slice,    \* the slice a client holds
  cache,    \* the entry in Redis, encoded: a copy of a page
  flight,   \* the leader of the singleflight call in flight
  sec,      \* the section a client translates next
  resp      \* the response a client has sent

vars == <<pc, heap, slice, cache, flight, sec, resp>>

PCs == {"kitab", "get", "do", "wait", "read", "store", "finish",
        "trans", "ptr", "len", "encode", "done"}

Errors == {NotFound, Failed}

Goto(c, label) == pc' = [pc EXCEPT ![c] = label]

Init ==
  /\ pc = [c \in Clients |-> "kitab"]
  /\ heap = [c \in Clients |-> None]
  /\ slice = [c \in Clients |-> None]
  /\ cache = None
  /\ flight = None
  /\ sec = [c \in Clients |-> 1]
  /\ resp = [c \in Clients |-> None]

-------------------------------------------------------------------------------
(* The handler up to the page: the kitab first, then its konten.             *)

\* The answer of GetKitab: found, unknown, or an error.
KitabFound(c) ==
  /\ pc[c] = "kitab"
  /\ Goto(c, "get")
  /\ UNCHANGED <<heap, slice, cache, flight, sec, resp>>

KitabRefused(c, code) ==
  /\ pc[c] = "kitab"
  /\ resp' = [resp EXCEPT ![c] = code]
  /\ Goto(c, "done")
  /\ UNCHANGED <<heap, slice, cache, flight, sec>>

\* A hit decodes the entry into a slice of this client's own.
CacheHit(c) ==
  /\ pc[c] = "get"
  /\ cache # None
  /\ heap' = [heap EXCEPT ![c] = cache]
  /\ slice' = [slice EXCEPT ![c] = c]
  /\ Goto(c, "trans")
  /\ UNCHANGED <<cache, flight, sec, resp>>

\* Also an error of Get, even when there is an entry.
CacheMiss(c) ==
  /\ pc[c] = "get"
  /\ Goto(c, "do")
  /\ UNCHANGED <<heap, slice, cache, flight, sec, resp>>

Lead(c) ==
  /\ pc[c] = "do"
  /\ flight = None
  /\ flight' = c
  /\ Goto(c, "read")
  /\ UNCHANGED <<heap, slice, cache, sec, resp>>

Follow(c) ==
  /\ pc[c] = "do"
  /\ flight # None
  /\ Goto(c, "wait")
  /\ UNCHANGED <<heap, slice, cache, flight, sec, resp>>

RepoRead(c) ==
  /\ pc[c] = "read"
  /\ heap' = [heap EXCEPT ![c] = Original]
  /\ slice' = [slice EXCEPT ![c] = c]
  /\ Goto(c, "store")
  /\ UNCHANGED <<cache, flight, sec, resp>>

RepoFail(c) ==
  /\ pc[c] = "read"
  /\ Goto(c, "finish")
  /\ UNCHANGED <<heap, slice, cache, flight, sec, resp>>

\* Mutant of CacheSet: the page is stored after the flight has ended.
CacheSetLate(c) ==
  /\ pc[c] = "trans"
  /\ slice[c] = c
  /\ cache' = heap[c]
  /\ UNCHANGED <<pc, heap, slice, flight, sec, resp>>

\* Set, inside the flight; its error is ignored.
CacheSet(c) ==
  /\ pc[c] = "store"
  /\ cache' = heap[c]
  /\ Goto(c, "finish")
  /\ UNCHANGED <<heap, slice, flight, sec, resp>>

CacheSetFail(c) ==
  /\ pc[c] = "store"
  /\ Goto(c, "finish")
  /\ UNCHANGED <<heap, slice, cache, flight, sec, resp>>

\* Mutant of FinishCall: the error of the call is not looked at.
FinishCallUnchecked(c) ==
  /\ pc[c] = "finish"
  /\ LET flyers == {c} \cup {d \in Clients : pc[d] = "wait"} IN
       /\ slice' = [d \in Clients |-> IF d \in flyers THEN slice[c] ELSE slice[d]]
       /\ pc' = [d \in Clients |-> IF d \in flyers THEN "trans" ELSE pc[d]]
  /\ flight' = None
  /\ UNCHANGED <<heap, cache, sec, resp>>

\* The flight ends: everyone in it gets the leader's slice, or its error.
FinishCall(c) ==
  /\ pc[c] = "finish"
  /\ LET flyers == {c} \cup {d \in Clients : pc[d] = "wait"} IN
       /\ slice' = [d \in Clients |-> IF d \in flyers THEN slice[c] ELSE slice[d]]
       /\ pc' = [d \in Clients |->
                   IF d \notin flyers THEN pc[d]
                   ELSE IF slice[c] = None THEN "done" ELSE "trans"]
       /\ resp' = [d \in Clients |->
                     IF d \in flyers /\ slice[c] = None THEN Failed ELSE resp[d]]
  /\ flight' = None
  /\ UNCHANGED <<heap, cache, sec>>

\* Redis drops the entry when its TTL has passed.
Expire ==
  /\ cache # None
  /\ cache' = None
  /\ UNCHANGED <<pc, heap, slice, flight, sec, resp>>

-------------------------------------------------------------------------------
(* The loop over the sections, and the response.                             *)

\* Without lang, and after the last section, the response is encoded.
EndOfLoop(c) ==
  /\ pc[c] = "trans"
  /\ LangOf[c] = Arabic \/ sec[c] > Sections
  /\ sec' = [sec EXCEPT ![c] = 1]
  /\ resp' = [resp EXCEPT ![c] = <<>>]
  /\ Goto(c, "encode")
  /\ UNCHANGED <<heap, slice, cache, flight>>

InLoop(c) == pc[c] = "trans" /\ LangOf[c] # Arabic /\ sec[c] <= Sections

\* translateText succeeds, whatever language the text is in by now.
Translate(c) ==
  /\ InLoop(c)
  /\ Goto(c, "ptr")
  /\ UNCHANGED <<heap, slice, cache, flight, sec, resp>>

\* trans fails: the section is left as it is.
TranslateFail(c) ==
  /\ InLoop(c)
  /\ sec' = [sec EXCEPT ![c] = @ + 1]
  /\ UNCHANGED <<pc, heap, slice, cache, flight, resp>>

\* items[i].IsiTeks = translated, one word after the other.
WritePtr(c) ==
  /\ pc[c] = "ptr"
  /\ heap' = [heap EXCEPT ![slice[c]][sec[c]].ptr = LangOf[c]]
  /\ Goto(c, "len")
  /\ UNCHANGED <<slice, cache, flight, sec, resp>>

WriteLen(c) ==
  /\ pc[c] = "len"
  /\ heap' = [heap EXCEPT ![slice[c]][sec[c]].len = LangOf[c]]
  /\ sec' = [sec EXCEPT ![c] = @ + 1]
  /\ Goto(c, "trans")
  /\ UNCHANGED <<slice, cache, flight, resp>>

\* json.Encoder reads the sections in order.
Encode(c) ==
  /\ pc[c] = "encode"
  /\ \/ /\ sec[c] <= Sections
        /\ resp' = [resp EXCEPT ![c] =
                      [i \in 1..sec[c] |-> IF i < sec[c] THEN resp[c][i]
                                           ELSE heap[slice[c]][i]]]
        /\ sec' = [sec EXCEPT ![c] = @ + 1]
        /\ UNCHANGED pc
     \/ /\ sec[c] > Sections
        /\ Goto(c, "done")
        /\ UNCHANGED <<sec, resp>>
  /\ UNCHANGED <<heap, slice, cache, flight>>

-------------------------------------------------------------------------------

Step(c) ==
  \/ KitabFound(c) \/ \E code \in Errors : KitabRefused(c, code)
  \/ CacheHit(c) \/ CacheMiss(c) \/ Lead(c) \/ Follow(c)
  \/ RepoRead(c) \/ RepoFail(c) \/ CacheSet(c) \/ CacheSetFail(c)
  \/ FinishCall(c) \/ EndOfLoop(c) \/ Translate(c) \/ TranslateFail(c)
  \/ WritePtr(c) \/ WriteLen(c) \/ Encode(c)

\* Every request has been answered.
Terminating ==
  /\ \A c \in Clients : pc[c] = "done"
  /\ UNCHANGED vars

Next == Expire \/ Terminating \/ \E c \in Clients : Step(c)

Spec == Init /\ [][Next]_vars

-------------------------------------------------------------------------------
(* Properties.                                                               *)

\* Every variable keeps its type; a client past the flight holds a slice that
\* exists, and a response is an error or a beginning of a page.
TypeOK ==
  /\ pc \in [Clients -> PCs]
  /\ heap \in [Clients -> Page \cup {None}]
  /\ slice \in [Clients -> Clients \cup {None}]
  /\ cache \in Page \cup {None}
  /\ flight \in Clients \cup {None}
  /\ sec \in [Clients -> 1..Sections + 1]
  /\ \A c \in Clients :
       /\ resp[c] \in {None} \cup Errors \cup UNION {[1..n -> Words] : n \in 0..Sections}
       /\ slice[c] # None => heap[slice[c]] # None
       /\ pc[c] \in {"trans", "ptr", "len", "encode"} => slice[c] # None

\* No translation ever reaches Redis: an entry is the stored text, because it
\* is encoded before the flight ends and nobody else holds the slice till then
\* (internal/service/kitab.go:132-136).
CacheKeepsOriginal == cache \in {None, Original}

Served(c) == pc[c] = "done" /\ resp[c] \notin Errors

\* A section is as it is stored, or in the language the client asked for.
OwnLanguage(c) == \A i \in Index : resp[c][i] \in {Text(Arabic), Text(LangOf[c])}

\* A client whose slice nobody else holds is served its own language: one that
\* hit the cache, and a leader without followers.
SoloAnswersOwnLanguage ==
  \A c \in Clients :
    Served(c) /\ (\A d \in Clients \ {c} : slice[d] # slice[c]) => OwnLanguage(c)

\* internal/handler/konten.go:61: the text is translated "if 'lang' query
\* parameter is provided", so without it, or with another value, a client never
\* gets that language.  Violated: clients of one flight share one slice.
AnswersRequestedLanguage == \A c \in Clients : Served(c) => OwnLanguage(c)
===============================================================================
