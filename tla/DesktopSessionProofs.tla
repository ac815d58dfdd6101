-------------------------- MODULE DesktopSessionProofs --------------------------
(***************************************************************************)
(* Proofs about the session of the desktop's window, for any set of        *)
(* repositories and however many calls are in flight in whatever order.    *)
(*                                                                         *)
(* The two halves have an argument each.  In the backend the epoch stands  *)
(* for the repository: a page captured in the current epoch is of the open *)
(* repository.  In the frontend the generation stands for the opening:     *)
(* while repositories are opened one after the other there is one call     *)
(* that opens, of the current generation, and until it has been answered   *)
(* nothing is shown; from then on the session is what is shown.            *)
(*                                                                         *)
(* The listings of forges, which share nothing with the session, follow at *)
(* the end.                                                                *)
(***************************************************************************)
EXTENDS DesktopSession, Forges, TLAPS

Answers == {"sent", "done", "failed"}

\* The calls there can be, with what each has read.
OpenCalls ==
    [kind : {"open"}, at : {"sent", "found", "swapped", "done", "failed"},
     generation : Nat, repository : Repositories]
ReadCalls ==
    [kind : {"status", "detect"}, at : Answers, generation : Nat, repository : Optional,
     then : {"detect", "conclude", "nothing", "opened", "status"}]
PageCalls ==
    [kind : {"page"}, at : Answers \cup {"captured", "reading"}, branch : Filters,
     reset : BOOLEAN, repository : Optional, epoch : Nat]
TargetCalls == [kind : {"target"}, at : Answers, repository : Optional]
MutationCalls ==
    [kind : {"mutation"}, at : Answers \cup {"running"}, repository : Optional, epoch : Nat]
Calls == OpenCalls \cup ReadCalls \cup PageCalls \cup TargetCalls \cup MutationCalls

Shape ==
    /\ calls \in [DOMAIN calls -> Nat \ {0}]
    /\ DOMAIN calls \subseteq Calls
    /\ repository \in Optional /\ shown \in Optional
    /\ epoch \in Nat /\ generation \in Nat
    /\ branchFilter \in Filters

\* A page is of the repository of the epoch it was captured in.
PageFits(c) ==
    c.kind = "page" /\ c.at # "sent" =>
        c.epoch <= epoch /\ (c.epoch = epoch => c.repository = repository)

\* A read of the current generation is asked for what is shown, and gets that.
ReadFits(c) ==
    c.kind \in {"status", "detect"} =>
        /\ c.generation <= generation
        /\ c.generation = generation =>
               shown # Nothing /\ (c.at = "done" => c.repository = shown)

\* There is at most one call that opens, of the current generation; when it has
\* swapped the session, that is its repository.
OneOpening ==
    \A c \in DOMAIN calls : c.kind = "open" =>
        /\ c.generation = generation /\ calls[c] = 1
        /\ \A d \in DOMAIN calls : d.kind = "open" => d = c
        /\ c.at \in {"swapped", "done"} => repository = c.repository

\* What is shown has been opened, and is the repository of the session.
ShownIsOpen ==
    shown # Nothing =>
        repository = shown /\ \A c \in DOMAIN calls : c.kind # "open"

BackendInv == (\A c \in DOMAIN calls : PageFits(c)) /\ GraphIsOfOpenRepository

WindowInv ==
    ~ overlapped =>
        /\ \A c \in DOMAIN calls : ReadFits(c)
        /\ OneOpening
        /\ ShownIsOpen
        /\ StatusIsOfShownRepository

IInv == Shape /\ BackendInv /\ WindowInv

-----------------------------------------------------------------------------
USE NothingAssumption

\* What a step does to the calls in flight.
LEMMA Added ==
  ASSUME NEW B, B \in [DOMAIN B -> Nat \ {0}], NEW to
  PROVE  LET A == BagAdd(B, to)
         IN  /\ A \in [DOMAIN A -> Nat \ {0}]
             /\ DOMAIN A = DOMAIN B \cup {to}
             /\ \A x \in DOMAIN B : x # to => A[x] = B[x]
             /\ to \notin DOMAIN B => A[to] = 1
BY DEF BagAdd

LEMMA Removed ==
  ASSUME NEW B, B \in [DOMAIN B -> Nat \ {0}], NEW c \in DOMAIN B
  PROVE  LET A == BagRemove(B, c)
         IN  /\ A \in [DOMAIN A -> Nat \ {0}]
             /\ DOMAIN A \subseteq DOMAIN B
             /\ \A x \in DOMAIN B : x # c => x \in DOMAIN A /\ A[x] = B[x]
             /\ B[c] = 1 => c \notin DOMAIN A
BY DEF BagRemove

LEMMA Sending ==
  ASSUME Shape, NEW c, Send(c)
  PROVE  /\ calls' \in [DOMAIN calls' -> Nat \ {0}]
         /\ DOMAIN calls' = DOMAIN calls \cup {c}
         /\ \A x \in DOMAIN calls : x # c => calls'[x] = calls[x]
         /\ c \notin DOMAIN calls => calls'[c] = 1
<1> DEFINE A == BagAdd(calls, c)
<1>1. /\ A \in [DOMAIN A -> Nat \ {0}]
      /\ DOMAIN A = DOMAIN calls \cup {c}
      /\ \A x \in DOMAIN calls : x # c => A[x] = calls[x]
      /\ c \notin DOMAIN calls => A[c] = 1
  BY Added, Zenon DEF Shape
<1>. QED BY <1>1 DEF Send

LEMMA Answering ==
  ASSUME Shape, NEW c \in DOMAIN calls, Answered(c)
  PROVE  /\ calls' \in [DOMAIN calls' -> Nat \ {0}]
         /\ DOMAIN calls' \subseteq DOMAIN calls
         /\ \A x \in DOMAIN calls : x # c => x \in DOMAIN calls' /\ calls'[x] = calls[x]
         /\ calls[c] = 1 => c \notin DOMAIN calls'
BY Removed DEF Shape, Answered

LEMMA Going ==
  ASSUME Shape, NEW c \in DOMAIN calls, NEW to, Goes(c, to), c # to
  PROVE  /\ calls' \in [DOMAIN calls' -> Nat \ {0}]
         /\ DOMAIN calls' \subseteq DOMAIN calls \cup {to}
         /\ to \in DOMAIN calls'
         /\ \A x \in DOMAIN calls : x # c =>
               x \in DOMAIN calls' /\ (x # to => calls'[x] = calls[x])
         /\ calls[c] = 1 => c \notin DOMAIN calls'
         /\ to \notin DOMAIN calls => calls'[to] = 1
<1> DEFINE B == BagRemove(calls, c)
<1>1. /\ B \in [DOMAIN B -> Nat \ {0}]
      /\ DOMAIN B \subseteq DOMAIN calls
      /\ \A x \in DOMAIN calls : x # c => x \in DOMAIN B /\ B[x] = calls[x]
      /\ calls[c] = 1 => c \notin DOMAIN B
  BY Removed DEF Shape
<1>2. calls' = BagAdd(B, to)
  BY DEF Goes
<1> HIDE DEF B
<1> DEFINE A == BagAdd(B, to)
<1>3. /\ A \in [DOMAIN A -> Nat \ {0}]
      /\ DOMAIN A = DOMAIN B \cup {to}
      /\ \A x \in DOMAIN B : x # to => A[x] = B[x]
      /\ to \notin DOMAIN B => A[to] = 1
  BY <1>1, Added, Zenon
<1>. QED BY <1>1, <1>2, <1>3

LEMMA NewCalls ==
  ASSUME Shape
  PROVE  /\ \A r \in Repositories : OpenCall(r) \in Calls
         /\ \A g \in Nat, then \in {"detect", "conclude", "nothing"} : StatusCall(g, then) \in Calls
         /\ \A g \in Nat, then \in {"opened", "status"} : DetectCall(g, then) \in Calls
         /\ \A branch \in Filters, reset \in BOOLEAN : PageCall(branch, reset) \in Calls
         /\ TargetCall \in Calls /\ MutationCall \in Calls
BY DEF Shape, OpenCall, StatusCall, DetectCall, PageCall, TargetCall, MutationCall, Calls,
       OpenCalls, ReadCalls, PageCalls, TargetCalls, MutationCalls, Answers, Optional

-----------------------------------------------------------------------------
\* A step that opens nothing: the repository, what is shown and the generation
\* stay, and so do the calls that open.  It may send or answer another call.
Quiet(new) ==
    /\ UNCHANGED <<repository, epoch, shown, generation, overlapped>>
    /\ branchFilter' \in Filters
    /\ calls' \in [DOMAIN calls' -> Nat \ {0}]
    /\ DOMAIN calls' \subseteq DOMAIN calls \cup new
    /\ new \subseteq Calls
    /\ \A c \in new : c.kind # "open" /\ PageFits(c) /\ (~ overlapped => ReadFits(c))
    /\ \A c \in DOMAIN calls :
          c.kind = "open" => c \in DOMAIN calls' /\ calls'[c] = calls[c]

LEMMA QuietKeeps ==
  ASSUME IInv, NEW new, Quiet(new),
         \A source \in graph' : source \in graph \/ source.repository = repository,
         ~ overlapped => status' \in {status, Nothing, shown}
  PROVE  IInv'
<1> USE DEF Quiet
<1>1. Shape'
  BY DEF IInv, Shape
<1>2. ASSUME NEW c \in DOMAIN calls' PROVE PageFits(c)' /\ (~ overlapped' => ReadFits(c)')
  BY <1>2 DEF IInv, BackendInv, WindowInv, PageFits, ReadFits
<1>3. GraphIsOfOpenRepository'
  BY DEF IInv, BackendInv, GraphIsOfOpenRepository
<1>4. ASSUME ~ overlapped'
      PROVE  OneOpening' /\ ShownIsOpen' /\ StatusIsOfShownRepository'
  <2>1. OneOpening /\ ShownIsOpen /\ StatusIsOfShownRepository /\ ~ overlapped
    BY <1>4 DEF IInv, WindowInv
  <2>2. \A c \in DOMAIN calls' : c.kind = "open" => c \in DOMAIN calls /\ calls'[c] = calls[c]
    OBVIOUS
  <2>3. OneOpening'
    BY <2>1, <2>2 DEF OneOpening
  <2>4. ShownIsOpen'
    BY <2>1, <2>2 DEF ShownIsOpen
  <2>5. StatusIsOfShownRepository'
    BY <2>1 DEF StatusIsOfShownRepository
  <2>. QED BY <2>3, <2>4, <2>5
<1>. QED BY <1>1, <1>2, <1>3, <1>4 DEF IInv, BackendInv, WindowInv

\* The calls of a quiet step: none, one sent, one answered, one that goes on.
LEMMA QuietCalls ==
  ASSUME IInv, UNCHANGED <<repository, epoch, shown, generation, overlapped>>,
         branchFilter' \in Filters
  PROVE  /\ UNCHANGED calls => Quiet({})
         /\ \A new \in Calls :
               /\ new.kind # "open" /\ PageFits(new)
               /\ ~ overlapped => ReadFits(new)
               /\ Send(new)
               => Quiet({new})
         /\ \A c \in DOMAIN calls : c.kind # "open" /\ Answered(c) => Quiet({})
         /\ \A c \in DOMAIN calls, new \in Calls :
               /\ c.kind # "open" /\ new.kind # "open" /\ c # new
               /\ PageFits(new)
               /\ ~ overlapped => ReadFits(new)
               /\ Goes(c, new)
               => Quiet({new})
<1> USE DEF Quiet
<1>1. UNCHANGED calls => Quiet({})
  BY DEF IInv, Shape
<1>2. ASSUME NEW new \in Calls, new.kind # "open", PageFits(new), ~ overlapped => ReadFits(new),
             Send(new)
      PROVE  Quiet({new})
  BY <1>2, Sending DEF IInv
<1>3. ASSUME NEW c \in DOMAIN calls, c.kind # "open", Answered(c) PROVE Quiet({})
  BY <1>3, Answering DEF IInv
<1>4. ASSUME NEW c \in DOMAIN calls, NEW new \in Calls, c.kind # "open", new.kind # "open",
             c # new, PageFits(new), ~ overlapped => ReadFits(new), Goes(c, new)
      PROVE  Quiet({new})
  BY <1>4, Going DEF IInv
<1>. QED BY <1>1, <1>2, <1>3, <1>4

-----------------------------------------------------------------------------
(***************************************************************************)
(* The steps that open nothing.                                            *)
(***************************************************************************)

\* What the user starts, and the user's answer to a prompt.
LEMMA UserKeeps ==
  ASSUME IInv,
         \/ \E focus \in BOOLEAN : RefreshStatus(focus)
         \/ \E branch \in Filters : LoadFirstPage(branch)
         \/ LoadMore \/ RequestOperation \/ Cancel \/ Confirm
  PROVE  IInv'
<1> USE DEF backend, sessionStore, graphStore, opened
<1>1. ASSUME NEW focus \in BOOLEAN, RefreshStatus(focus) PROVE IInv'
  <2>1. /\ UNCHANGED <<repository, epoch, shown, generation, overlapped, branchFilter>>
        /\ UNCHANGED <<graph, status>>
        /\ shown # Nothing
    BY <1>1 DEF RefreshStatus, CanRefresh
  <2>2. PICK new \in {DetectCall(generation, "status"), StatusCall(generation, "nothing")} :
            Send(new)
    BY <1>1 DEF RefreshStatus
  <2>3. new \in Calls
    BY <2>2, NewCalls DEF IInv, Shape
  <2>4. new.kind # "open" /\ PageFits(new) /\ ReadFits(new)
    BY <2>1, <2>2 DEF DetectCall, StatusCall, PageFits, ReadFits, IInv, Shape
  <2>5. Quiet({new})
    BY <2>1, <2>2, <2>3, <2>4, QuietCalls DEF IInv, Shape
  <2>. QED BY <2>1, <2>5, QuietKeeps
<1>2. ASSUME \/ \E branch \in Filters : LoadFirstPage(branch)
             \/ LoadMore \/ RequestOperation \/ Confirm
      PROVE  IInv'
  <2>1. /\ UNCHANGED <<repository, epoch, shown, generation, overlapped, branchFilter>>
        /\ UNCHANGED <<graph, status>>
    BY <1>2 DEF LoadFirstPage, LoadMore, RequestOperation, Confirm
  <2>2. PICK new : /\ Send(new) /\ new \in Calls
                    /\ new.kind \in {"page", "target", "mutation"} /\ new.at = "sent"
    <3>1. CASE RequestOperation
      BY <3>1, NewCalls DEF IInv, RequestOperation, TargetCall
    <3>2. CASE Confirm
      BY <3>2, NewCalls DEF IInv, Confirm, MutationCall
    <3>3. ASSUME NEW branch \in Filters, NEW reset \in BOOLEAN, Send(PageCall(branch, reset))
          PROVE  \E new : /\ Send(new) /\ new \in Calls
                          /\ new.kind \in {"page", "target", "mutation"} /\ new.at = "sent"
      BY <3>3, NewCalls DEF IInv, PageCall
    <3>4. CASE LoadMore
      BY <3>4, <3>3 DEF LoadMore, IInv, Shape
    <3>5. CASE \E branch \in Filters : LoadFirstPage(branch)
      BY <3>5, <3>3 DEF LoadFirstPage
    <3>. QED BY <1>2, <3>1, <3>2, <3>4, <3>5
  <2>4. new.kind # "open" /\ PageFits(new) /\ ReadFits(new)
    BY <2>2 DEF PageFits, ReadFits
  <2>5. Quiet({new})
    BY <2>1, <2>2, <2>4, QuietCalls DEF IInv, Shape
  <2>. QED BY <2>1, <2>5, QuietKeeps
<1>3. ASSUME Cancel PROVE IInv'
  <2>1. /\ UNCHANGED <<repository, epoch, shown, generation, overlapped, branchFilter>>
        /\ UNCHANGED <<graph, status, calls>>
    BY <1>3 DEF Cancel
  <2>2. Quiet({})
    BY <2>1, QuietCalls DEF IInv, Shape
  <2>. QED BY <2>1, <2>2, QuietKeeps
<1>. QED BY <1>1, <1>2, <1>3

\* A command of the backend that opens nothing goes on.
LEMMA CommandKeeps ==
  ASSUME IInv, NEW c \in DOMAIN calls, NEW ok \in BOOLEAN,
         \/ ReadRepository(c, ok) \/ CapturePage(c) \/ ResetForPage(c) \/ AppendPage(c, ok)
         \/ RunMutation(c) \/ EndMutation(c, ok)
  PROVE  IInv'
<1> USE DEF backend, sessionStore, graphStore, opened
<1>1. /\ UNCHANGED <<repository, epoch, shown, generation, overlapped, branchFilter, status>>
      /\ branchFilter' \in Filters
  BY DEF ReadRepository, CapturePage, ResetForPage, AppendPage, RunMutation, EndMutation,
         IInv, Shape
<1>2. /\ c \in Calls /\ PageFits(c) /\ (~ overlapped => ReadFits(c) /\ ShownIsOpen)
      /\ repository \in Optional /\ epoch \in Nat
  BY DEF IInv, Shape, BackendInv, WindowInv
<1>3. ASSUME ReadRepository(c, ok) PROVE IInv'
  <2> DEFINE new == [c EXCEPT
                        !.at = IF ok /\ repository # Nothing THEN "done" ELSE "failed",
                        !.repository = repository]
  <2>1. c \in ReadCalls \cup TargetCalls /\ c.at = "sent" /\ Goes(c, new) /\ UNCHANGED graph
    BY <1>2, <1>3 DEF ReadRepository, Calls, OpenCalls, PageCalls, MutationCalls
  <2>2. new \in Calls /\ new.kind # "open" /\ new # c /\ PageFits(new)
    BY <1>2, <2>1 DEF Calls, ReadCalls, TargetCalls, Answers, PageFits
  <2>3. ~ overlapped => ReadFits(new)
    BY <1>2, <2>1 DEF ReadCalls, TargetCalls, ReadFits, ShownIsOpen
  <2>. HIDE DEF new
  <2>4. Quiet({new})
    BY <1>1, <2>1, <2>2, <2>3, QuietCalls DEF ReadCalls, TargetCalls
  <2>. QED BY <1>1, <2>1, <2>4, QuietKeeps
<1>4. ASSUME CapturePage(c) PROVE IInv'
  <2>1. PICK at \in {"failed", "captured", "reading"} :
            Goes(c, [c EXCEPT !.at = at, !.repository = repository, !.epoch = epoch])
    BY <1>4 DEF CapturePage
  <2> DEFINE new == [c EXCEPT !.at = at, !.repository = repository, !.epoch = epoch]
  <2>2. c \in PageCalls /\ c.at = "sent" /\ UNCHANGED graph
    BY <1>2, <1>4 DEF CapturePage, Calls, OpenCalls, ReadCalls, TargetCalls, MutationCalls
  <2>3. new \in PageCalls /\ new.at = at /\ new.repository = repository /\ new.epoch = epoch
    BY <1>2, <2>2 DEF PageCalls, Answers
  <2>4. new \in Calls /\ new.kind # "open" /\ new # c /\ PageFits(new) /\ ReadFits(new)
    <3>. HIDE DEF new
    <3>. QED BY <1>2, <2>2, <2>3 DEF Calls, PageCalls, PageFits, ReadFits
  <2>. HIDE DEF new
  <2>5. Quiet({new})
    BY <1>1, <2>1, <2>2, <2>4, QuietCalls DEF PageCalls, new
  <2>. QED BY <1>1, <2>2, <2>5, QuietKeeps
<1>5. ASSUME ResetForPage(c) PROVE IInv'
  <2> DEFINE new == [c EXCEPT !.at = "reading"]
  <2>1. c \in PageCalls /\ c.at = "captured" /\ Goes(c, new) /\ graph' = {}
    BY <1>2, <1>5 DEF ResetForPage, Calls, OpenCalls, ReadCalls, TargetCalls, MutationCalls
  <2>2. new \in Calls /\ new.kind # "open" /\ new # c /\ PageFits(new) /\ ReadFits(new)
    BY <1>2, <2>1 DEF Calls, PageCalls, Answers, PageFits, ReadFits
  <2>. HIDE DEF new
  <2>3. Quiet({new})
    BY <1>1, <2>1, <2>2, QuietCalls DEF PageCalls
  <2>. QED BY <1>1, <2>1, <2>3, QuietKeeps
<1>6. ASSUME AppendPage(c, ok) PROVE IInv'
  <2>1. PICK at \in {"done", "failed"} : Goes(c, [c EXCEPT !.at = at])
    BY <1>6 DEF AppendPage
  <2> DEFINE new == [c EXCEPT !.at = at]
  <2>2. c \in PageCalls /\ c.at = "reading"
    BY <1>2, <1>6 DEF AppendPage, Calls, OpenCalls, ReadCalls, TargetCalls, MutationCalls
  <2>3. new \in Calls /\ new.kind # "open" /\ new # c /\ PageFits(new) /\ ReadFits(new)
    BY <1>2, <2>1, <2>2 DEF Calls, PageCalls, Answers, PageFits, ReadFits
  <2>4. \A source \in graph' : source \in graph \/ source.repository = repository
    BY <1>2, <1>6, <2>2 DEF AppendPage, PageFits, PageCalls
  <2>. HIDE DEF new
  <2>5. Quiet({new})
    BY <1>1, <2>1, <2>2, <2>3, QuietCalls DEF PageCalls, new
  <2>. QED BY <1>1, <2>4, <2>5, QuietKeeps
<1>7. ASSUME RunMutation(c) \/ EndMutation(c, ok) PROVE IInv'
  <2>1. PICK at \in {"running", "done", "failed"}, r \in Optional, e \in Nat :
            Goes(c, [c EXCEPT !.at = at, !.repository = r, !.epoch = e]) /\ at # c.at
    <3>1. c \in MutationCalls
      BY <1>2, <1>7 DEF RunMutation, EndMutation, Calls, OpenCalls, ReadCalls, TargetCalls,
                        PageCalls
    <3>2. CASE RunMutation(c)
      BY <1>2, <3>2 DEF RunMutation
    <3>3. CASE EndMutation(c, ok)
      <4>1. PICK at \in {"done", "failed"} : Goes(c, [c EXCEPT !.at = at])
        BY <3>3 DEF EndMutation
      <4>2. [c EXCEPT !.at = at] =
                [c EXCEPT !.at = at, !.repository = c.repository, !.epoch = c.epoch]
        BY <3>1 DEF MutationCalls
      <4>3. c.repository \in Optional /\ c.epoch \in Nat /\ at # c.at
        BY <3>1, <3>3 DEF MutationCalls, EndMutation
      <4>. QED BY <4>1, <4>2, <4>3
    <3>. QED BY <1>7, <3>2, <3>3
  <2> DEFINE new == [c EXCEPT !.at = at, !.repository = r, !.epoch = e]
  <2>2. c \in MutationCalls /\ UNCHANGED graph
    BY <1>2, <1>7 DEF RunMutation, EndMutation, Calls, OpenCalls, ReadCalls, TargetCalls,
                      PageCalls
  <2>3. new \in Calls /\ new.kind # "open" /\ new # c /\ PageFits(new) /\ ReadFits(new)
    BY <1>2, <2>1, <2>2 DEF Calls, MutationCalls, Answers, PageFits, ReadFits
  <2>. HIDE DEF new
  <2>4. Quiet({new})
    BY <1>1, <2>1, <2>2, <2>3, QuietCalls DEF MutationCalls, new
  <2>. QED BY <1>1, <2>2, <2>4, QuietKeeps
<1>. QED BY <1>3, <1>4, <1>5, <1>6, <1>7

\* The frontend handles an answer, other than that of a call that opens.
LEMMA AnswerKeeps ==
  ASSUME IInv, NEW c \in DOMAIN calls,
         \/ StatusReturned(c) \/ DetectReturned(c) \/ PageReturned(c) \/ TargetReturned(c)
         \/ MutationReturned(c)
  PROVE  IInv'
<1> USE DEF backend, sessionStore, graphStore, opened
<1>1. /\ UNCHANGED <<repository, epoch, shown, generation, overlapped, graph>>
      /\ c.kind # "open"
  BY DEF StatusReturned, DetectReturned, PageReturned, TargetReturned, MutationReturned
<1>2. c \in Calls /\ (~ overlapped => ReadFits(c)) /\ shown \in Optional /\ generation \in Nat
  BY DEF IInv, Shape, WindowInv
<1>3. branchFilter' \in Filters
  <2>1. CASE PageReturned(c)
    <3>1. c \in PageCalls
      BY <1>2, <2>1 DEF PageReturned, Calls, OpenCalls, ReadCalls, TargetCalls, MutationCalls
    <3>2. branchFilter' \in {branchFilter, c.branch}
      BY <2>1, <3>1 DEF PageReturned, PageCalls
    <3>. QED BY <3>1, <3>2 DEF IInv, Shape, PageCalls
  <2>2. CASE ~ PageReturned(c)
    BY <2>2 DEF StatusReturned, DetectReturned, TargetReturned, MutationReturned, IInv, Shape
  <2>. QED BY <2>1, <2>2
<1>4. ~ overlapped => status' \in {status, Nothing, shown}
  BY <1>2 DEF StatusReturned, DetectReturned, PageReturned, TargetReturned, MutationReturned,
              IsCurrent, ReadFits
<1>5. \/ Answered(c)
      \/ \E new \in Calls : /\ Goes(c, new) /\ c # new /\ new.kind # "open" /\ PageFits(new)
                            /\ ~ overlapped => ReadFits(new)
  <2>1. CASE StatusReturned(c)
    <3>1. c \in ReadCalls
      BY <1>2, <2>1 DEF StatusReturned, Calls, OpenCalls, PageCalls, TargetCalls, MutationCalls
    <3> DEFINE new == DetectCall(c.generation, "opened")
    <3>2. new \in Calls /\ c # new /\ new.kind # "open" /\ PageFits(new)
      <4>1. new \in Calls
        BY <3>1, NewCalls DEF IInv, ReadCalls
      <4>. QED BY <2>1, <4>1 DEF StatusReturned, DetectCall, PageFits
    <3>3. ~ overlapped => ReadFits(new)
      BY <1>2, <2>1 DEF StatusReturned, DetectCall, ReadFits
    <3>. HIDE DEF new
    <3>. QED BY <2>1, <3>2, <3>3 DEF StatusReturned, new
  <2>2. CASE DetectReturned(c)
    <3>1. c \in ReadCalls
      BY <1>2, <2>2 DEF DetectReturned, Calls, OpenCalls, PageCalls, TargetCalls, MutationCalls
    <3> DEFINE new == StatusCall(c.generation, "nothing")
    <3>2. new \in Calls /\ c # new /\ new.kind # "open" /\ PageFits(new)
      <4>1. new \in Calls
        BY <3>1, NewCalls DEF IInv, ReadCalls
      <4>. QED BY <2>2, <4>1 DEF DetectReturned, StatusCall, PageFits
    <3>3. ~ overlapped => ReadFits(new)
      BY <1>2, <2>2 DEF DetectReturned, StatusCall, ReadFits
    <3>. HIDE DEF new
    <3>. QED BY <2>2, <3>2, <3>3 DEF DetectReturned, new
  <2>3. CASE MutationReturned(c)
    <3> DEFINE new == StatusCall(generation, "conclude")
    <3>1. new \in Calls /\ c # new /\ new.kind # "open" /\ PageFits(new)
      <4>1. new \in Calls
        BY <1>2, NewCalls DEF IInv
      <4>. QED BY <2>3, <4>1 DEF MutationReturned, StatusCall, PageFits
    <3>2. CanRefresh => ReadFits(new)
      BY <1>2 DEF CanRefresh, StatusCall, ReadFits
    <3>. HIDE DEF new
    <3>. QED BY <2>3, <3>1, <3>2 DEF MutationReturned, new
  <2>4. CASE PageReturned(c) \/ TargetReturned(c)
    BY <2>4 DEF PageReturned, TargetReturned
  <2>. QED BY <2>1, <2>2, <2>3, <2>4
<1>6. PICK new : Quiet(new)
  BY <1>1, <1>3, <1>5, QuietCalls
<1>. QED BY <1>1, <1>4, <1>6, QuietKeeps

-----------------------------------------------------------------------------
(***************************************************************************)
(* Opening a repository.                                                   *)
(***************************************************************************)

\* Opening starts: nothing is shown, and only if another call opened already are
\* there two.
LEMMA OpenKeeps ==
  ASSUME IInv, NEW r \in Repositories, OpenRepository(r)
  PROVE  IInv'
<1> USE DEF backend, sessionStore, graphStore, opened
<1> DEFINE new == OpenCall(r)
<1>1. /\ UNCHANGED <<repository, epoch, graph, branchFilter>>
      /\ generation' = generation + 1 /\ shown' = Nothing /\ status' = Nothing
      /\ Send(new)
      /\ ~ overlapped' => ~ overlapped /\ \A c \in DOMAIN calls : c.kind # "open"
  BY DEF OpenRepository
<1>2. /\ new \in Calls /\ new.kind = "open" /\ new.at = "sent"
      /\ new.generation = generation + 1
  BY NewCalls DEF IInv, OpenCall
<1> HIDE DEF new
<1>3. /\ calls' \in [DOMAIN calls' -> Nat \ {0}]
      /\ DOMAIN calls' = DOMAIN calls \cup {new}
      /\ new \notin DOMAIN calls => calls'[new] = 1
  BY <1>1, Sending DEF IInv
<1>4. Shape'
  BY <1>1, <1>2, <1>3 DEF IInv, Shape, Optional
<1>5. \A c \in DOMAIN calls' : PageFits(c)'
  BY <1>1, <1>2, <1>3 DEF IInv, BackendInv, PageFits
<1>6. GraphIsOfOpenRepository'
  BY <1>1, <1>2, <1>3 DEF IInv, BackendInv, GraphIsOfOpenRepository
<1>7. ASSUME ~ overlapped' PROVE WindowInv'
  <2>1. \A c \in DOMAIN calls : c.kind # "open" /\ ReadFits(c)
    BY <1>1, <1>7 DEF IInv, WindowInv
  <2>2. \A c \in DOMAIN calls' : ReadFits(c)'
    <3>1. ASSUME NEW c \in DOMAIN calls, c.kind \in {"status", "detect"}
          PROVE  c.generation <= generation' /\ c.generation # generation'
      <4>1. c \in ReadCalls
        BY <3>1 DEF IInv, Shape, Calls, OpenCalls, PageCalls, TargetCalls, MutationCalls
      <4>. QED BY <1>1, <2>1, <3>1, <4>1 DEF ReadFits, ReadCalls, IInv, Shape
    <3>. QED BY <1>2, <1>3, <3>1 DEF ReadFits
  <2>3. OneOpening' /\ ShownIsOpen' /\ StatusIsOfShownRepository'
    BY <1>1, <1>2, <1>3, <2>1 DEF OneOpening, ShownIsOpen, StatusIsOfShownRepository
  <2>. QED BY <2>2, <2>3 DEF WindowInv
<1>. QED BY <1>4, <1>5, <1>6, <1>7 DEF IInv, BackendInv, WindowInv

\* What of a step on a call that opens does not depend on which it is: the call
\* is the only one, and the answers of reads are left alone.
LEMMA Opening ==
  ASSUME IInv, NEW c \in DOMAIN calls, c.kind = "open", ~ overlapped
  PROVE  /\ shown = Nothing /\ status = Nothing
         /\ calls[c] = 1 /\ c.generation = generation
         /\ \A d \in DOMAIN calls : d.kind = "open" => d = c
         /\ \A d \in DOMAIN calls : ReadFits(d)
         /\ c.at \in {"swapped", "done"} => repository = c.repository
BY DEF IInv, WindowInv, OneOpening, ShownIsOpen, StatusIsOfShownRepository

LEMMA OpeningShape ==
  ASSUME IInv, NEW c \in DOMAIN calls, c.kind = "open"
  PROVE  c \in OpenCalls /\ c.repository \in Repositories /\ c.generation \in Nat
<1>1. c \in OpenCalls
  BY DEF IInv, Shape, Calls, ReadCalls, PageCalls, TargetCalls, MutationCalls
<1>. QED BY <1>1 DEF OpenCalls

\* The command that opens goes on.
LEMMA OpeningKeeps ==
  ASSUME IInv, NEW c \in DOMAIN calls, NEW found \in BOOLEAN,
         Discover(c, found) \/ SwapSession(c) \/ ResetGraph(c)
  PROVE  IInv'
<1> USE DEF backend, sessionStore, graphStore, opened
<1>1. PICK at \in {"found", "swapped", "done", "failed"} :
          /\ Goes(c, [c EXCEPT !.at = at]) /\ at # c.at
          /\ at = "swapped" <=> SwapSession(c)
          /\ at = "done" <=> ResetGraph(c)
  BY DEF Discover, SwapSession, ResetGraph
<1> DEFINE new == [c EXCEPT !.at = at]
<1>2. c.kind = "open" /\ UNCHANGED <<shown, status, generation, branchFilter, overlapped>>
  BY DEF Discover, SwapSession, ResetGraph
<1>3. /\ new \in Calls /\ new.kind = "open" /\ new.at = at /\ new # c
      /\ new.generation = c.generation /\ new.repository = c.repository
      /\ c.repository \in Repositories
  <2>1. c \in OpenCalls
    BY <1>2, OpeningShape
  <2>. QED BY <1>1, <2>1 DEF Calls, OpenCalls
<1>4. Goes(c, new)
  BY <1>1
<1> HIDE DEF new
<1>5. /\ calls' \in [DOMAIN calls' -> Nat \ {0}]
      /\ DOMAIN calls' \subseteq DOMAIN calls \cup {new}
      /\ new \in DOMAIN calls'
      /\ \A x \in DOMAIN calls : x # c => x \in DOMAIN calls'
      /\ calls[c] = 1 => c \notin DOMAIN calls'
      /\ new \notin DOMAIN calls => calls'[new] = 1
  BY <1>3, <1>4, Going DEF IInv
<1>6. /\ SwapSession(c) => /\ repository' = c.repository /\ epoch' = epoch + 1
                           /\ UNCHANGED graph /\ at = "swapped"
      /\ ~ SwapSession(c) => UNCHANGED <<repository, epoch>> /\ at # "swapped"
      /\ graph' = graph \/ graph' = {}
      /\ c.at = "swapped" => graph' = {}
  BY <1>1 DEF Discover, SwapSession, ResetGraph
<1>7. Shape'
  BY <1>2, <1>3, <1>5, <1>6 DEF IInv, Shape, Optional
<1>8. ASSUME NEW d \in DOMAIN calls' PROVE PageFits(d)'
  <2>1. CASE d = new
    BY <1>3, <2>1 DEF PageFits
  <2>2. ASSUME d \in DOMAIN calls, d.kind = "page", d.at # "sent"
        PROVE  d.epoch <= epoch' /\ (d.epoch = epoch' => d.repository = repository')
    <3>1. d \in PageCalls
      BY <2>2 DEF IInv, Shape, Calls, OpenCalls, ReadCalls, TargetCalls, MutationCalls
    <3>2. PageFits(d)
      BY <2>2 DEF IInv, BackendInv
    <3>. QED BY <1>6, <2>2, <3>1, <3>2 DEF PageFits, PageCalls, IInv, Shape
  <2>. QED BY <1>5, <2>1, <2>2 DEF PageFits
<1>9. GraphIsOfOpenRepository'
  <2>1. CASE SwapSession(c)
    BY <1>3, <1>5, <1>6, <2>1 DEF GraphIsOfOpenRepository
  <2>2. CASE graph' = {}
    BY <2>2 DEF GraphIsOfOpenRepository
  <2>3. CASE ~ SwapSession(c) /\ graph' = graph /\ c.at # "swapped"
    BY <1>5, <1>6, <2>3 DEF IInv, BackendInv, GraphIsOfOpenRepository
  <2>. QED BY <1>6, <2>1, <2>2, <2>3
<1>10. ASSUME ~ overlapped' PROVE WindowInv'
  <2>1. /\ shown = Nothing /\ status = Nothing
        /\ calls[c] = 1 /\ c.generation = generation
        /\ \A d \in DOMAIN calls : d.kind = "open" => d = c
        /\ \A d \in DOMAIN calls : ReadFits(d)
        /\ c.at \in {"swapped", "done"} => repository = c.repository
    BY <1>2, <1>10, Opening
  <2>2. \A d \in DOMAIN calls' : ReadFits(d)'
    BY <1>2, <1>3, <1>5, <2>1 DEF ReadFits
  <2>3. \A d \in DOMAIN calls' : d.kind = "open" => d = new
    BY <1>5, <2>1
  <2>4. calls'[new] = 1
    BY <1>3, <1>5, <2>1
  <2>5. new.at \in {"swapped", "done"} => repository' = new.repository
    <3>1. at = "done" => c.at = "swapped"
      BY <1>1 DEF ResetGraph
    <3>. QED BY <1>1, <1>3, <1>6, <2>1, <3>1
  <2>6. OneOpening'
    BY <1>2, <1>3, <2>1, <2>3, <2>4, <2>5 DEF OneOpening
  <2>7. ShownIsOpen' /\ StatusIsOfShownRepository'
    BY <1>2, <2>1 DEF ShownIsOpen, StatusIsOfShownRepository
  <2>. QED BY <2>2, <2>6, <2>7 DEF WindowInv
<1>. QED BY <1>7, <1>8, <1>9, <1>10 DEF IInv, BackendInv, WindowInv

\* The answer of a call that opens: superseded, it is discarded; else it shows
\* the repository, which is that of the session.
LEMMA OpenedKeeps ==
  ASSUME IInv, NEW c \in DOMAIN calls, OpenReturned(c)
  PROVE  IInv'
<1> USE DEF backend, sessionStore, graphStore, opened
<1>1. /\ UNCHANGED <<repository, epoch, graph, status, generation, branchFilter, overlapped>>
      /\ c.kind = "open" /\ c.at \in {"done", "failed"}
  BY DEF OpenReturned
<1>2. c.repository \in Repositories /\ c.generation \in Nat
  BY <1>1, OpeningShape
<1>3. \/ /\ c.generation = generation /\ c.at = "done" /\ shown' = c.repository
         /\ \E new \in {DetectCall(c.generation, "opened"), StatusCall(c.generation, "detect")} :
               Goes(c, new)
      \/ Answered(c) /\ shown' = shown
  BY DEF OpenReturned, IsCurrent
<1> DEFINE Moves(new) ==
               /\ calls' \in [DOMAIN calls' -> Nat \ {0}]
               /\ DOMAIN calls' \subseteq DOMAIN calls \cup new
               /\ \A x \in DOMAIN calls : x # c => x \in DOMAIN calls'
               /\ calls[c] = 1 => c \notin DOMAIN calls'
               /\ new \subseteq Calls
               /\ \A d \in new : /\ d.kind \in {"status", "detect"} /\ d.at = "sent"
                                 /\ d.generation = generation /\ shown' # Nothing
<1>4. PICK new : Moves(new) /\ (shown' = shown \/ (shown' = c.repository /\ c.at = "done"))
  <2>1. CASE Answered(c) /\ shown' = shown
    <3>1. Moves({})
      BY <2>1, Answering DEF IInv
    <3>. HIDE DEF Moves
    <3>. QED BY <2>1, <3>1
  <2>2. ASSUME NEW new \in {DetectCall(c.generation, "opened"),
                            StatusCall(c.generation, "detect")},
               Goes(c, new), c.generation = generation, c.at = "done", shown' = c.repository
        PROVE  Moves({new})
    <3>1. new \in Calls
      BY <1>2, <2>2, NewCalls DEF IInv
    <3>2. /\ new.kind \in {"status", "detect"} /\ new.at = "sent"
          /\ new.generation = generation /\ shown' # Nothing
      BY <1>2, <2>2 DEF DetectCall, StatusCall
    <3>3. c # new
      BY <1>1, <3>2
    <3>. QED BY <2>2, <3>1, <3>2, <3>3, Going DEF IInv
  <2>. HIDE DEF Moves
  <2>. QED BY <1>3, <2>1, <2>2
<1>5. Shape'
  BY <1>1, <1>2, <1>4 DEF IInv, Shape, Optional
<1>6. \A d \in DOMAIN calls' : PageFits(d)'
  BY <1>1, <1>4 DEF IInv, BackendInv, PageFits
<1>7. GraphIsOfOpenRepository'
  BY <1>1, <1>4 DEF IInv, BackendInv, GraphIsOfOpenRepository
<1>8. ASSUME ~ overlapped' PROVE WindowInv'
  <2>1. /\ shown = Nothing /\ status = Nothing
        /\ calls[c] = 1 /\ c.generation = generation
        /\ \A d \in DOMAIN calls : d.kind = "open" => d = c
        /\ \A d \in DOMAIN calls : ReadFits(d)
        /\ c.at \in {"swapped", "done"} => repository = c.repository
    BY <1>1, <1>8, Opening
  <2>2. \A d \in DOMAIN calls' : ReadFits(d)'
    <3>1. ASSUME NEW d \in DOMAIN calls PROVE ReadFits(d)'
      BY <1>1, <2>1 DEF ReadFits
    <3>2. ASSUME NEW d \in new PROVE ReadFits(d)'
      BY <1>1, <1>4, <3>2 DEF ReadFits, IInv, Shape
    <3>. QED BY <1>4, <3>1, <3>2
  <2>3. \A d \in DOMAIN calls' : d.kind # "open"
    BY <1>4, <2>1
  <2>4. OneOpening' /\ ShownIsOpen' /\ StatusIsOfShownRepository'
    BY <1>1, <1>4, <2>1, <2>3 DEF OneOpening, ShownIsOpen, StatusIsOfShownRepository
  <2>. QED BY <2>2, <2>4 DEF WindowInv
<1>. QED BY <1>5, <1>6, <1>7, <1>8 DEF IInv, BackendInv, WindowInv

-----------------------------------------------------------------------------
LEMMA Initially == Init => IInv
<1> SUFFICES ASSUME Init PROVE IInv
  OBVIOUS
<1>1. /\ calls = EmptyBag /\ repository = Nothing /\ epoch = 0 /\ graph = {}
      /\ shown = Nothing /\ status = Nothing /\ generation = 0 /\ branchFilter = Nothing
  BY DEF Init
<1>2. DOMAIN calls = {} /\ calls \in [DOMAIN calls -> Nat \ {0}]
  BY <1>1 DEF EmptyBag, SetToBag
<1>. QED BY <1>1, <1>2 DEF IInv, Shape, Optional, Filters, BackendInv, WindowInv,
                          GraphIsOfOpenRepository, OneOpening, ShownIsOpen,
                          StatusIsOfShownRepository

LEMMA NextKeeps == IInv /\ [Next]_vars => IInv'
<1> SUFFICES ASSUME IInv, [Next]_vars PROVE IInv'
  OBVIOUS
<1>1. ASSUME NEW r \in Repositories, UserOpens(r) \/ StartupOpens(r) PROVE IInv'
  BY <1>1, OpenKeeps DEF UserOpens, StartupOpens
<1>2. CASE \/ \E focus \in BOOLEAN : RefreshStatus(focus)
           \/ \E branch \in Filters : LoadFirstPage(branch)
           \/ LoadMore \/ RequestOperation \/ Cancel \/ Confirm
  BY <1>2, UserKeeps
<1>3. ASSUME NEW c \in DOMAIN calls, Proceed(c) PROVE IInv'
  <2>1. CASE OpenReturned(c)
    BY <2>1, OpenedKeeps
  <2>2. CASE \/ StatusReturned(c) \/ DetectReturned(c) \/ PageReturned(c)
             \/ TargetReturned(c) \/ MutationReturned(c)
    BY <2>2, AnswerKeeps
  <2>3. ASSUME NEW ok \in BOOLEAN, Discover(c, ok) \/ SwapSession(c) \/ ResetGraph(c)
        PROVE  IInv'
    BY <2>3, OpeningKeeps
  <2>4. ASSUME NEW ok \in BOOLEAN,
               \/ ReadRepository(c, ok) \/ CapturePage(c) \/ ResetForPage(c)
               \/ AppendPage(c, ok) \/ RunMutation(c) \/ EndMutation(c, ok)
        PROVE  IInv'
    BY <2>4, CommandKeeps
  <2>. QED BY <1>3, <2>1, <2>2, <2>3, <2>4 DEF Proceed
<1>4. CASE UNCHANGED vars
  <2>1. UNCHANGED <<repository, epoch, shown, generation, overlapped, branchFilter, graph,
                    status, calls>>
    BY <1>4 DEF vars, backend, sessionStore, graphStore, opened
  <2>2. Quiet({})
    BY <2>1, QuietCalls DEF IInv, Shape
  <2>. QED BY <2>1, <2>2, QuietKeeps
<1>. QED BY <1>1, <1>2, <1>3, <1>4 DEF Next

\* For any repositories and any calls in flight the invariant of both halves
\* holds (open_session's epoch, stores/session.ts: generation).
THEOREM EpochsAndGenerations == Spec => []IInv
<1>1. Init => IInv
  BY Initially
<1>2. IInv /\ [Next]_vars => IInv'
  BY NextKeeps
<1>. QED BY <1>1, <1>2, PTL DEF Spec

\* Late answers never part the status from the repository shown, unless two
\* repositories are opened at once (refreshStatus, openRepository).
THEOREM StatusFollows == Spec => []StatusIsOfShownRepository
<1>1. IInv => StatusIsOfShownRepository
  BY DEF IInv, WindowInv, StatusIsOfShownRepository
<1>. QED BY EpochsAndGenerations, <1>1, PTL

\* Between two switches the graph of the backend only has pages of the open
\* repository (append_commit_graph_page_if_current).
THEOREM GraphFollows == Spec => []GraphIsOfOpenRepository
<1>1. IInv => GraphIsOfOpenRepository
  BY DEF IInv, BackendInv
<1>. QED BY EpochsAndGenerations, <1>1, PTL

(***************************************************************************)
(* Forges: the pages of pull requests, the tokens and the links.  The last *)
(* pull request is on top, and a page counts from there: what is opened    *)
(* meanwhile moves the others down the list, towards pages still to come,  *)
(* so that up to the page shown none of those wanted is missed.  A token   *)
(* is read once the remote is known, for the host of that remote, and no   *)
(* step between there and the request changes either.                      *)
(***************************************************************************)

Remotes == [host : Hosts \cup {"none"}, segments : Nat]
Tokens == {NoToken} \cup [of : Accounts, grants : Grants]
Projects ==
  [pulls : Seq({"open", "closed", "merged", "locked"}), private : BOOLEAN, limited : BOOLEAN]
Apis == {ApiOf(h) : h \in ForgeHosts}

\* A token is kept with the account it was made for.
WorldStands ==
  /\ remotes \in [origin : Remotes, fork : Remotes]
  /\ keyring \in [tokens : [Accounts -> Tokens], locked : BOOLEAN]
  /\ \A a \in Accounts : keyring.tokens[a] = NoToken \/ keyring.tokens[a].of = a
  /\ server \in [Apis -> Projects]

\* What a listing has read is of one host, its token too.
ListingStands ==
  /\ DOMAIN listing = {"step", "page", "remote", "token"}
  /\ listing.step \in {"idle", "remotes", "token", "request"}
  /\ listing.step \in {"token", "request"} => listing.remote.host \in ForgeHosts
  /\ \/ listing.token = NoToken
     \/ /\ listing.step = "request"
        /\ listing.token.of = Account(ForgeForHost(listing.remote.host), listing.remote.host)

\* Pages are asked for beside the one shown, or from the first.
PagesStand ==
  /\ panel.page \in Nat
  /\ listing.step # "idle" =>
       /\ listing.page \in Nat \ {0}
       /\ listing.page \in {1, panel.page - 1, panel.page + 1}

\* Up to the page shown nothing was missed: what a forge has only moves down.
RunStands ==
  run.api # "none" =>
    /\ run.api \in Apis /\ run.wanted \subseteq Nat \ {0}
    /\ \A n \in run.wanted :
         n > Len(server[run.api].pulls) - panel.page * PerPage => n \in run.listed

ForgeInv ==
  WorldStands /\ ListingStands /\ PagesStand /\ RunStands /\ OutcomesAreMeant
    /\ PagesMissNothing

\* The adapters.
LEMMA ForgesAre ==
  ASSUME NEW h \in ForgeHosts
  PROVE  /\ h \in Hosts /\ Account(ForgeForHost(h), h) \in Accounts /\ ApiOf(h) \in Apis
         /\ ForgeForHost(h) \in {"github", "gitlab"}
         /\ ForgeForHost(h) = "github" <=> ApiOf(h) = "api.github.com"
BY DEF ForgeHosts, Accounts, Apis, ApiOf, ForgeForHost

LEMMA PickedIs ==
  ASSUME WorldStands, DetectForge(PickForgeRemote(remotes)) # "none"
  PROVE  PickForgeRemote(remotes).host \in ForgeHosts
BY DEF WorldStands, Remotes, PickForgeRemote, DetectForge, ForgeForHost, ForgeHosts, NoRemote

LEMMA TokenIs ==
  ASSUME WorldStands, NEW a \in Accounts
  PROVE  TokenOf(a) = NoToken \/ TokenOf(a).of = a
BY DEF WorldStands, TokenOf

\* What the forge answers, of which no field but these is of interest.
LEMMA AskedIs ==
  ASSUME NEW api, NEW cause, NEW code, NEW a, a = ForgeAnswer(api, cause, code)
  PROVE  /\ a.cause = cause /\ a.status = code /\ a.items = <<>> /\ ~ a.more /\ a.whole /\ ~ a.retry
         /\ a.reset = (api = "api.github.com")
         /\ a.remaining = (IF api = "api.github.com" THEN "some" ELSE "none")
         /\ a = [cause |-> cause, status |-> code, remaining |-> a.remaining, reset |-> a.reset,
                 retry |-> FALSE, items |-> <<>>, more |-> FALSE, whole |-> TRUE]
<1>1. PICK un : un = Unreachable
  OBVIOUS
<1>2. un = [cause |-> "unreachable", status |-> 0, remaining |-> "none", reset |-> FALSE,
            retry |-> FALSE, items |-> <<>>, more |-> FALSE, whole |-> TRUE]
  BY <1>1 DEF Unreachable
<1>3. PICK remaining, reset : /\ remaining = (IF api = "api.github.com" THEN "some" ELSE "none")
                              /\ reset = (api = "api.github.com")
  OBVIOUS
<1>4. a = [un EXCEPT !.cause = cause, !.status = code, !.remaining = remaining, !.reset = reset]
  BY <1>1, <1>3 DEF ForgeAnswer
<1>5. a = [cause |-> cause, status |-> code, remaining |-> remaining, reset |-> reset,
           retry |-> FALSE, items |-> <<>>, more |-> FALSE, whole |-> TRUE]
  BY <1>2, <1>4
<1> QED BY <1>3, <1>5

LEMMA LimitIs ==
  ASSUME NEW api, NEW a \in Limited(api)
  PROVE  /\ a.cause = "limited"
         /\ IF api = "api.github.com"
            THEN a.status = 429 \/ (a.status = 403 /\ (a.remaining = "0" \/ a.retry))
            ELSE a.status = 429
<1>1. PICK first, second : /\ first = ForgeAnswer(api, "limited", 403)
                           /\ second = ForgeAnswer(api, "limited", 429)
  OBVIOUS
<1>2. CASE api = "api.github.com"
  <2>1. PICK un : un = Unreachable
    OBVIOUS
  <2>2. \/ a = [first EXCEPT !.remaining = "0"]
        \/ a = [second EXCEPT !.remaining = "0"]
        \/ a = [un EXCEPT !.cause = "limited", !.status = 403, !.retry = TRUE]
    BY <1>1, <1>2, <2>1 DEF Limited
  <2>3. CASE a = [first EXCEPT !.remaining = "0"]
    <3>1. a.cause = "limited" /\ a.status = 403 /\ a.remaining = "0"
      BY <1>1, <2>3, AskedIs
    <3> QED BY <1>2, <3>1
  <2>4. CASE a = [second EXCEPT !.remaining = "0"]
    <3>1. a.cause = "limited" /\ a.status = 429
      BY <1>1, <2>4, AskedIs
    <3> QED BY <1>2, <3>1
  <2>5. CASE a = [un EXCEPT !.cause = "limited", !.status = 403, !.retry = TRUE]
    <3>1. a.cause = "limited" /\ a.status = 403 /\ a.retry
      BY <2>1, <2>5 DEF Unreachable
    <3> QED BY <1>2, <3>1
  <2> QED BY <2>2, <2>3, <2>4, <2>5
<1>3. CASE api # "api.github.com"
  <2>1. PICK r \in BOOLEAN : a = [second EXCEPT !.retry = r]
    BY <1>1, <1>3 DEF Limited
  <2>2. a.cause = "limited" /\ a.status = 429
    BY <1>1, <2>1, AskedIs
  <2> QED BY <1>3, <2>2
<1> QED BY <1>2, <1>3

LEMMA SaysIs ==
  /\ \A name : /\ Says(name).state = name
               /\ DOMAIN Says(name) = {"state", "items", "more", "wait", "page"}
  /\ \A a : /\ SaysLimited(a).state = "rateLimited"
            /\ DOMAIN SaysLimited(a) = {"state", "items", "more", "wait", "page"}
BY DEF Says, SaysLimited

LEMMA PageHas ==
  ASSUME NEW kind, NEW a, a.whole
  PROVE  /\ ParsePage(kind, a).state = "page" /\ ParsePage(kind, a).more = a.more
         /\ DOMAIN ParsePage(kind, a) = {"state", "items", "more", "wait", "page"}
         /\ DOMAIN ParsePage(kind, a).items = DOMAIN a.items
         /\ \A i \in DOMAIN a.items : ParsePage(kind, a).items[i] = Summary(kind, a.items[i])
<1>1. PICK outcome : outcome = ParsePage(kind, a)
  OBVIOUS
<1>2. PICK items, more : /\ items = [i \in DOMAIN a.items |-> Summary(kind, a.items[i])]
                         /\ more = a.more
  OBVIOUS
<1>3. outcome = [Says("page") EXCEPT !.items = items, !.more = more]
  BY <1>1, <1>2 DEF ParsePage
<1>4. PICK says : says = Says("page")
  OBVIOUS
<1>5. says.state = "page" /\ DOMAIN says = {"state", "items", "more", "wait", "page"}
  BY <1>4, SaysIs
<1>6. outcome = [says EXCEPT !.items = items, !.more = more]
  BY <1>3, <1>4
<1>7. /\ outcome.state = "page" /\ outcome.more = more /\ outcome.items = items
      /\ DOMAIN outcome = {"state", "items", "more", "wait", "page"}
  BY <1>5, <1>6
<1>8. /\ DOMAIN items = DOMAIN a.items
      /\ \A i \in DOMAIN a.items : items[i] = Summary(kind, a.items[i])
  BY <1>2
<1> QED BY <1>1, <1>2, <1>7, <1>8

\* States in the words of either forge come back as they were, but for locked.
LEMMA StatesComeBack ==
  ASSUME NEW kind \in {"github", "gitlab"}, NEW number,
         NEW state \in {"open", "closed", "merged", "locked"}, NEW told,
         told.number = number, told.state = state, DOMAIN told = {"number", "state"},
         NEW item, item = Summary(kind, told)
  PROVE  /\ item.number = number
         /\ item.state = (IF state = "locked" THEN "closed" ELSE state)
<1>1. PICK read : read = IF kind = "github" THEN GitHubState(GitHubWire(state))
                         ELSE GitLabState(GitLabWire(state))
  OBVIOUS
<1>2. read = (IF state = "locked" THEN "closed" ELSE state)
  BY <1>1 DEF GitHubState, GitHubWire, GitLabState, GitLabWire
<1>3. item = [told EXCEPT !.state = read]
  BY <1>1 DEF Summary
<1> QED BY <1>2, <1>3

\* What each answer is taken for.
Meant(kind, api, page, a, outcome) ==
  /\ \/ /\ a.cause = "page" /\ a.whole /\ outcome = ParsePage(kind, a)
        /\ a.items = PageOf(server[api], page)
        /\ a.more = (Len(server[api].pulls) > page * PerPage)
     \/ a.cause = "unreachable" /\ outcome.state = "offline"
     \/ a.cause = "limited" /\ outcome.state = "rateLimited"
     \/ a.cause = "credentials" /\ outcome.state = "authenticationRequired"
     \/ a.cause = "hidden" /\ outcome.state = "permissionDenied"
     \/ a.cause = "failure" /\ outcome.state = "error"
     \/ a.cause = "forbidden" /\ outcome.state \in {"permissionDenied", "rateLimited"}
  /\ DOMAIN outcome = {"state", "items", "more", "wait", "page"}

LEMMA AnswersMean ==
  ASSUME NEW kind \in {"github", "gitlab"}, NEW api, kind = "github" <=> api = "api.github.com",
         NEW page, NEW token, NEW a \in ForgeAnswersTo(api, page, token),
         NEW outcome, outcome = OutcomeOf(kind, a)
  PROVE  Meant(kind, api, page, a, outcome)
<1> SUFFICES /\ \/ /\ a.cause = "page" /\ a.whole /\ outcome = ParsePage(kind, a)
                   /\ a.items = PageOf(server[api], page)
                   /\ a.more = (Len(server[api].pulls) > page * PerPage)
                \/ a.cause = "unreachable" /\ outcome.state = "offline"
                \/ a.cause = "limited" /\ outcome.state = "rateLimited"
                \/ a.cause = "credentials" /\ outcome.state = "authenticationRequired"
                \/ a.cause = "hidden" /\ outcome.state = "permissionDenied"
                \/ a.cause = "failure" /\ outcome.state = "error"
                \/ a.cause = "forbidden" /\ outcome.state \in {"permissionDenied", "rateLimited"}
             /\ DOMAIN outcome = {"state", "items", "more", "wait", "page"}
  BY DEF Meant
<1>1. PICK project : project = server[api]
  OBVIOUS
<1>2. PICK items, more : items = PageOf(project, page) /\ more = (Len(project.pulls) > page * PerPage)
  OBVIOUS
<1>3. PICK lost, whole : /\ lost = ForgeAnswer(api, "failure", 200)
                         /\ whole = ForgeAnswer(api, "page", 200)
  OBVIOUS
<1>4. \/ a = Unreachable
      \/ a = ForgeAnswer(api, "failure", 500)
      \/ a = [lost EXCEPT !.whole = FALSE]
      \/ a \in Limited(api)
      \/ a = ForgeAnswer(api, "credentials", 401)
      \/ a = ForgeAnswer(api, "hidden", 404)
      \/ a = ForgeAnswer(api, "forbidden", 403)
      \/ a = [whole EXCEPT !.items = items, !.more = more]
  BY <1>1, <1>2, <1>3 DEF ForgeAnswersTo
<1>5. outcome = (IF kind = "github" THEN GitHubOutcome(a) ELSE GitLabOutcome(a))
  BY DEF OutcomeOf
<1>6. CASE a = Unreachable
  <2>1. a.cause = "unreachable" /\ a.status = 0 /\ ~ IsRateLimit(a)
    BY <1>6 DEF Unreachable, IsRateLimit
  <2> QED BY <1>5, <2>1, SaysIs DEF GitHubOutcome, GitLabOutcome
<1>7. CASE a = ForgeAnswer(api, "failure", 500)
  <2>1. a.cause = "failure" /\ a.status = 500 /\ ~ IsRateLimit(a)
    BY <1>7, AskedIs DEF IsRateLimit
  <2> QED BY <1>5, <2>1, SaysIs DEF GitHubOutcome, GitLabOutcome
<1>8. CASE a = [lost EXCEPT !.whole = FALSE]
  <2>1. a.cause = "failure" /\ a.status = 200 /\ ~ a.whole /\ ~ IsRateLimit(a)
    BY <1>3, <1>8, AskedIs DEF IsRateLimit
  <2> QED BY <1>5, <2>1, SaysIs DEF GitHubOutcome, GitLabOutcome, ParsePage
<1>9. CASE a \in Limited(api)
  <2>1. /\ a.cause = "limited"
        /\ IF kind = "github" THEN a.status = 429 \/ (a.status = 403 /\ (a.remaining = "0" \/ a.retry))
           ELSE a.status = 429
    BY <1>9, LimitIs
  <2>2. kind = "github" => IsRateLimit(a)
    BY <2>1 DEF IsRateLimit, RetryAfterKnown
  <2>3. outcome = SaysLimited(a)
    <3>1. CASE kind = "github"
      <4>1. a.status \in {403, 429} /\ IsRateLimit(a)
        BY <2>1, <2>2, <3>1
      <4>2. outcome = GitHubOutcome(a)
        BY <1>5, <3>1
      <4> QED BY <4>1, <4>2 DEF GitHubOutcome
    <3>2. CASE kind = "gitlab"
      BY <1>5, <2>1, <3>2 DEF GitLabOutcome
    <3> QED BY <3>1, <3>2
  <2> QED BY <2>1, <2>3, SaysIs
<1>10. CASE a = ForgeAnswer(api, "credentials", 401)
  <2>1. a.cause = "credentials" /\ a.status = 401 /\ ~ IsRateLimit(a)
    BY <1>10, AskedIs DEF IsRateLimit
  <2> QED BY <1>5, <2>1, SaysIs DEF GitHubOutcome, GitLabOutcome
<1>11. CASE a = ForgeAnswer(api, "hidden", 404)
  <2>1. a.cause = "hidden" /\ a.status = 404 /\ ~ IsRateLimit(a)
    BY <1>11, AskedIs DEF IsRateLimit
  <2> QED BY <1>5, <2>1, SaysIs DEF GitHubOutcome, GitLabOutcome
<1>12. CASE a = ForgeAnswer(api, "forbidden", 403)
  <2>1. a.cause = "forbidden" /\ a.status = 403
    BY <1>12, AskedIs
  <2>2. outcome \in {SaysLimited(a), Says("permissionDenied")}
    <3>1. CASE kind = "github" /\ IsRateLimit(a)
      BY <1>5, <2>1, <3>1 DEF GitHubOutcome
    <3>2. CASE kind = "github" /\ ~ IsRateLimit(a)
      BY <1>5, <2>1, <3>2 DEF GitHubOutcome
    <3>3. CASE kind # "github"
      BY <1>5, <2>1, <3>3 DEF GitLabOutcome
    <3> QED BY <3>1, <3>2, <3>3
  <2> QED BY <2>1, <2>2, SaysIs
<1>13. CASE a = [whole EXCEPT !.items = items, !.more = more]
  <2>1. a.cause = "page" /\ a.status = 200 /\ a.whole /\ a.items = items /\ a.more = more
    BY <1>3, <1>13, AskedIs
  <2>2. ~ IsRateLimit(a)
    BY <2>1 DEF IsRateLimit
  <2>3. outcome = ParsePage(kind, a)
    <3>1. CASE kind = "github"
      BY <1>5, <2>1, <2>2, <3>1 DEF GitHubOutcome
    <3>2. CASE kind = "gitlab"
      BY <1>5, <2>1, <3>2 DEF GitLabOutcome
    <3> QED BY <3>1, <3>2
  <2>4. DOMAIN outcome = {"state", "items", "more", "wait", "page"}
    BY <2>1, <2>3, PageHas
  <2>5. a.items = PageOf(server[api], page) /\ a.more = (Len(server[api].pulls) > page * PerPage)
    BY <1>1, <1>2, <2>1
  <2> QED BY <2>1, <2>3, <2>4, <2>5
<1> QED BY <1>4, <1>6, <1>7, <1>8, <1>9, <1>10, <1>11, <1>12, <1>13

(***************************************************************************)
(* Pages.                                                                  *)
(***************************************************************************)
LEMMA PageIs ==
  ASSUME NEW project \in Projects, NEW page \in Nat \ {0}, NEW size, size = Len(project.pulls),
         NEW items, items = PageOf(project, page)
  PROVE  /\ size \in Nat /\ DOMAIN project.pulls = 1..size
         /\ \A i \in DOMAIN items :
               /\ items[i].number \in 1..size /\ items[i].state = project.pulls[items[i].number]
               /\ DOMAIN items[i] = {"number", "state"}
         /\ \A n \in 1..size :
               n <= size - (page - 1) * PerPage /\ n > size - page * PerPage
               => n \in Numbers(items)
         /\ page * PerPage = (page - 1) * PerPage + PerPage /\ (page - 1) * PerPage \in Nat
<1>1. project.pulls \in Seq({"open", "closed", "merged", "locked"})
  BY DEF Projects
<1>2. size \in Nat /\ DOMAIN project.pulls = 1..size
  BY <1>1
<1>3. PICK before : before = (page - 1) * PerPage
  OBVIOUS
<1>4. before \in Nat /\ page * PerPage = before + PerPage /\ PerPage \in Nat \ {0}
  BY <1>3, ForgesAssumption
<1>5. PICK rest : rest = IF before > size THEN 0 ELSE size - before
  OBVIOUS
<1>6. PICK taken : taken = IF rest < PerPage THEN rest ELSE PerPage
  OBVIOUS
<1>7. rest \in 0..size /\ taken \in 0..rest
  BY <1>2, <1>4, <1>5, <1>6
<1>8. items = [i \in 1..taken |-> [number |-> rest - i + 1, state |-> project.pulls[rest - i + 1]]]
  BY <1>3, <1>5, <1>6 DEF PageOf
<1>9. ASSUME NEW i \in DOMAIN items
      PROVE  /\ items[i].number \in 1..size /\ items[i].state = project.pulls[items[i].number]
             /\ DOMAIN items[i] = {"number", "state"}
  <2>1. PICK n : n = rest - i + 1
    OBVIOUS
  <2>2. i \in 1..taken /\ n \in 1..size
    BY <1>2, <1>7, <1>8, <2>1
  <2>3. items[i] = [number |-> n, state |-> project.pulls[n]]
    BY <1>8, <2>1, <2>2
  <2> QED BY <2>2, <2>3
<1>10. ASSUME NEW n \in 1..size, n <= size - before, n > size - (before + PerPage)
       PROVE  n \in Numbers(items)
  <2>1. PICK i : i = rest - n + 1
    OBVIOUS
  <2>2. i \in 1..taken /\ rest - i + 1 = n
    BY <1>2, <1>4, <1>5, <1>6, <1>10, <2>1
  <2>3. i \in DOMAIN items /\ items[i].number = n
    BY <1>8, <2>2
  <2> QED BY <2>3 DEF Numbers
<1> QED BY <1>2, <1>3, <1>4, <1>9, <1>10

(***************************************************************************)
(* The steps.                                                              *)
(***************************************************************************)

\* What a panel tells changes with the listing alone.
LEMMA ConcludedIs ==
  ASSUME NEW outcome, DOMAIN outcome = {"state", "items", "more", "wait", "page"},
         Concludes(outcome)
  PROVE  panel'.state = outcome.state /\ panel'.page = listing.page /\ listing' = NoListing
         /\ UNCHANGED <<remotes, keyring, server, release, deeds>>
<1>1. panel' = [outcome EXCEPT !.page = listing.page]
  BY DEF Concludes
<1> QED BY <1>1 DEF Concludes

\* What is true of a listing and of the world, when the listing ends.
LEMMA EndsWell ==
  ASSUME ForgeInv, listing.step # "idle", panel'.page = listing.page, listing' = NoListing,
         UNCHANGED <<remotes, keyring, server>>
  PROVE  WorldStands' /\ ListingStands' /\ PagesStand'
<1>1. WorldStands'
  BY DEF ForgeInv, WorldStands
<1>2. /\ listing'.step = "idle" /\ listing'.token = NoToken
      /\ DOMAIN listing' = {"step", "page", "remote", "token"}
  BY DEF NoListing
<1>3. ListingStands'
  BY <1>2 DEF ListingStands
<1>4. PagesStand'
  BY <1>2 DEF ForgeInv, PagesStand
<1> QED BY <1>1, <1>3, <1>4

LEMMA EndsWithout ==
  ASSUME ForgeInv, listing.step # "idle", NEW name, Concludes(Says(name)), run' = NoRun
  PROVE  ForgeInv'
<1>1. panel'.page = listing.page /\ listing' = NoListing
      /\ UNCHANGED <<remotes, keyring, server>>
  <2>1. PICK says : says = Says(name)
    OBVIOUS
  <2>2. DOMAIN says = {"state", "items", "more", "wait", "page"} /\ Concludes(says)
    BY <2>1, SaysIs
  <2> QED BY <2>2, ConcludedIs
<1>2. WorldStands' /\ ListingStands' /\ PagesStand'
  BY <1>1, EndsWell
<1>3. run'.api = "none" /\ run'.wanted = {} /\ run'.cause = "none"
  BY DEF NoRun
<1>4. RunStands' /\ PagesMissNothing' /\ OutcomesAreMeant'
  BY <1>3 DEF RunStands, PagesMissNothing, OutcomesAreMeant
<1> QED BY <1>2, <1>4 DEF ForgeInv

LEMMA ListPullRequestsKeeps ==
  ASSUME ForgeInv, NEW page \in {1, panel.page - 1, panel.page + 1}, ListPullRequests(page)
  PROVE  ForgeInv'
<1>1. PICK none : none = NoListing
  OBVIOUS
<1>2. /\ listing' = [none EXCEPT !.step = "remotes", !.page = page]
      /\ UNCHANGED <<remotes, keyring, server, panel, run>>
  BY <1>1 DEF ListPullRequests
<1>3. /\ listing'.step = "remotes" /\ listing'.token = NoToken /\ listing'.page = page
      /\ DOMAIN listing' = {"step", "page", "remote", "token"}
  BY <1>1, <1>2 DEF NoListing
<1>4. page \in Nat \ {0} /\ panel.page \in Nat
  BY DEF ForgeInv, PagesStand, ListPullRequests
<1>5. WorldStands' /\ RunStands' /\ OutcomesAreMeant' /\ PagesMissNothing'
  BY <1>2 DEF ForgeInv, WorldStands, RunStands, OutcomesAreMeant, PagesMissNothing
<1>6. ListingStands' /\ PagesStand'
  BY <1>2, <1>3, <1>4 DEF ListingStands, PagesStand
<1> QED BY <1>5, <1>6 DEF ForgeInv

LEMMA ReadsKeep ==
  ASSUME ForgeInv, UNCHANGED <<remotes, keyring, server, panel, run>>,
         ListingStands', listing.step # "idle", listing'.page = listing.page
  PROVE  ForgeInv'
<1>1. WorldStands' /\ RunStands' /\ OutcomesAreMeant' /\ PagesMissNothing'
  BY DEF ForgeInv, WorldStands, RunStands, OutcomesAreMeant, PagesMissNothing
<1>2. PagesStand'
  BY DEF ForgeInv, PagesStand
<1> QED BY <1>1, <1>2 DEF ForgeInv

LEMMA ListRemotesKeeps ==
  ASSUME ForgeInv, ListRemotes
  PROVE  ForgeInv'
<1>1. PICK picked : picked = PickForgeRemote(remotes)
  OBVIOUS
<1>2. listing.step = "remotes" /\ listing.token = NoToken
  BY DEF ListRemotes, ForgeInv, ListingStands
<1>3. CASE /\ DetectForge(picked) # "none"
           /\ listing' = [listing EXCEPT !.step = "token", !.remote = picked]
           /\ UNCHANGED <<remotes, keyring, server, panel, browsed, release, run, deeds>>
  <2>1. picked.host \in ForgeHosts
    BY <1>1, <1>3, PickedIs DEF ForgeInv
  <2>2. /\ DOMAIN listing = {"step", "page", "remote", "token"}
    BY DEF ForgeInv, ListingStands
  <2>3. /\ listing'.step = "token" /\ listing'.remote = picked /\ listing'.token = NoToken
        /\ listing'.page = listing.page /\ DOMAIN listing' = DOMAIN listing
    BY <1>2, <1>3, <2>2
  <2>4. ListingStands'
    BY <2>1, <2>2, <2>3 DEF ListingStands
  <2> QED BY <1>2, <1>3, <2>3, <2>4, ReadsKeep
<1>4. CASE Concludes(Says("noForgeDetected")) /\ run' = NoRun
  BY <1>2, <1>4, EndsWithout
<1>5. CASE Concludes(Says("error")) /\ run' = NoRun
  BY <1>2, <1>5, EndsWithout
<1> QED BY <1>1, <1>3, <1>4, <1>5 DEF ListRemotes

LEMMA ReadTokenKeeps ==
  ASSUME ForgeInv, ReadToken
  PROVE  ForgeInv'
<1>1. PICK h : h = listing.remote.host
  OBVIOUS
<1>2. listing.step = "token" /\ h \in ForgeHosts
  BY <1>1 DEF ReadToken, ForgeInv, ListingStands
<1>3. PICK account : account = Account(ForgeForHost(h), h)
  OBVIOUS
<1>4. PICK token : token = TokenOf(account)
  OBVIOUS
<1>5. token = NoToken \/ token.of = account
  BY <1>2, <1>3, <1>4, ForgesAre, TokenIs DEF ForgeInv
<1>6. /\ listing' = [listing EXCEPT !.step = "request", !.token = token]
      /\ UNCHANGED <<remotes, keyring, server, panel, browsed, release, run, deeds>>
  BY <1>1, <1>3, <1>4 DEF ReadToken
<1>7. DOMAIN listing = {"step", "page", "remote", "token"}
  BY DEF ForgeInv, ListingStands
<1>8. /\ listing'.step = "request" /\ listing'.remote = listing.remote /\ listing'.token = token
      /\ listing'.page = listing.page /\ DOMAIN listing' = DOMAIN listing
  BY <1>6, <1>7
<1>9. ListingStands'
  BY <1>1, <1>2, <1>3, <1>5, <1>7, <1>8 DEF ListingStands
<1> QED BY <1>2, <1>6, <1>8, <1>9, ReadsKeep


\* A page in the words of a forge is the page as it was.
LEMMA PageReads ==
  ASSUME NEW project \in Projects, NEW page \in Nat \ {0}, NEW kind \in {"github", "gitlab"},
         NEW a, a.whole, a.items = PageOf(project, page),
         NEW outcome, outcome = ParsePage(kind, a)
  PROVE  /\ StatesAgree(outcome.items, project.pulls)
         /\ Numbers(outcome.items) = Numbers(a.items)
<1>1. PICK items, read : items = a.items /\ read = outcome.items
  OBVIOUS
<1>2. DOMAIN read = DOMAIN items /\ \A i \in DOMAIN items : read[i] = Summary(kind, items[i])
  BY <1>1, PageHas
<1>3. PICK size : size = Len(project.pulls)
  OBVIOUS
<1>4. ASSUME NEW i \in DOMAIN items
      PROVE  /\ read[i].number = items[i].number
             /\ read[i].state = IF project.pulls[items[i].number] = "locked" THEN "closed"
                                ELSE project.pulls[items[i].number]
  <2>1. PICK n, told : n = items[i].number /\ told = items[i]
    OBVIOUS
  <2>2. items = PageOf(project, page)
    BY <1>1
  <2>3. n \in 1..size /\ told.state = project.pulls[n] /\ DOMAIN told = {"number", "state"}
    BY <1>3, <2>1, <2>2, PageIs
  <2>4. PICK state : state = project.pulls[n]
    OBVIOUS
  <2>5. state \in {"open", "closed", "merged", "locked"}
    BY <1>3, <2>3, <2>4 DEF Projects
  <2>6. read[i] = Summary(kind, told)
    BY <1>2, <2>1
  <2>7. /\ read[i].number = n
        /\ read[i].state = (IF state = "locked" THEN "closed" ELSE state)
    BY <2>1, <2>3, <2>4, <2>5, <2>6, StatesComeBack
  <2> QED BY <2>1, <2>4, <2>7
<1>5. DOMAIN read = DOMAIN items
  BY <1>2
<1>6. StatesAgree(read, project.pulls)
  BY <1>4, <1>5 DEF StatesAgree
<1>7. Numbers(read) = Numbers(items)
  BY <1>4, <1>5 DEF Numbers
<1> QED BY <1>1, <1>6, <1>7

\* The next page of a run, and its first.
LEMMA RunGoesOn ==
  ASSUME ForgeInv, listing.step = "request", UNCHANGED server, NEW api \in Apis,
         NEW pulls, pulls = server[api].pulls,
         NEW seen, seen = Numbers(PageOf(server[api], listing.page)),
         panel'.page = listing.page,
         run'.last = ~ (Len(pulls) > listing.page * PerPage),
         \/ /\ listing.page > 1 /\ run.api = api /\ run'.api = api
            /\ run'.wanted = run.wanted /\ run'.listed = run.listed \cup seen
         \/ /\ listing.page = 1 /\ run'.api = api
            /\ run'.wanted = DOMAIN pulls /\ run'.listed = seen
  PROVE  RunStands' /\ PagesMissNothing'
<1>1. PICK page, old : page = listing.page /\ old = panel.page
  OBVIOUS
<1>2. page \in Nat \ {0} /\ old \in Nat /\ page \in {1, old - 1, old + 1}
  BY <1>1 DEF ForgeInv, PagesStand
<1>3. PICK size : size = Len(pulls)
  OBVIOUS
<1>4. server[api] \in Projects
  BY DEF ForgeInv, WorldStands
<1>5. /\ size \in Nat /\ DOMAIN pulls = 1..size
      /\ \A n \in 1..size : n <= size - (page - 1) * PerPage /\ n > size - page * PerPage => n \in seen
      /\ page * PerPage = (page - 1) * PerPage + PerPage /\ (page - 1) * PerPage \in Nat
  BY <1>1, <1>2, <1>3, <1>4, PageIs
<1>6. PICK before, upto : before = (page - 1) * PerPage /\ upto = page * PerPage
  OBVIOUS
<1>7. /\ \A n \in 1..size : n <= size - before /\ n > size - upto => n \in seen
      /\ upto = before + PerPage /\ before \in Nat /\ PerPage \in Nat \ {0}
  BY <1>5, <1>6, ForgesAssumption
<1>8. run'.wanted \subseteq Nat \ {0} /\ \A n \in run'.wanted : n > size - upto => n \in run'.listed
  <2>1. CASE /\ page > 1 /\ run.api = api
             /\ run'.wanted = run.wanted /\ run'.listed = run.listed \cup seen
    <3>1. PICK past : past = old * PerPage
      OBVIOUS
    <3>2. /\ run.wanted \subseteq Nat \ {0}
          /\ \A n \in run.wanted : n > size - past => n \in run.listed
      <4>1. run.api # "none"
        BY <2>1 DEF Apis, ApiOf, ForgeForHost, ForgeHosts
      <4> QED BY <1>1, <1>3, <2>1, <3>1, <4>1 DEF ForgeInv, RunStands
    <3>3. past \in Nat /\ before <= past
      <4>1. CASE page = old + 1
        BY <1>2, <1>6, <1>7, <3>1, <4>1
      <4>2. CASE page = old - 1
        <5>1. old * PerPage = (old - 1) * PerPage + PerPage
          BY <1>2, <1>7
        <5> QED BY <1>2, <1>6, <1>7, <3>1, <4>2, <5>1
      <4> QED BY <1>2, <2>1, <4>1, <4>2
    <3>4. ASSUME NEW n \in run.wanted, n > size - upto
          PROVE  n \in run.listed \cup seen
      <4>1. n \in Nat \ {0}
        BY <3>2
      <4>2. CASE n > size - before
        BY <1>5, <1>7, <3>2, <3>3, <4>1, <4>2
      <4>3. CASE n <= size - before
        <5>1. n \in 1..size
          BY <1>5, <1>7, <4>1, <4>3
        <5> QED BY <1>7, <3>4, <4>3, <5>1
      <4> QED BY <1>5, <1>7, <4>1, <4>2, <4>3
    <3> QED BY <2>1, <3>2, <3>4
  <2>2. CASE page = 1 /\ run'.wanted = DOMAIN pulls /\ run'.listed = seen
    <3>1. before = 0
      BY <1>6, <1>7, <2>2
    <3> QED BY <1>5, <1>7, <2>2, <3>1
  <2> QED BY <1>1, <2>1, <2>2
<1>9. run'.api = api /\ server'[api].pulls = pulls
  OBVIOUS
<1>10. RunStands'
  BY <1>1, <1>3, <1>6, <1>8, <1>9 DEF RunStands
<1>11. PagesMissNothing'
  <2>1. run'.last => ~ (size > upto)
    BY <1>1, <1>3, <1>6, Zenon
  <2>2. ASSUME NEW n \in run'.wanted, ~ (size > upto)
        PROVE  n > size - upto
    <3>1. n \in Nat \ {0} /\ size \in Nat /\ upto \in Nat
      BY <1>5, <1>7, <1>8
    <3> QED BY <2>2, <3>1
  <2> QED BY <1>8, <2>1, <2>2 DEF PagesMissNothing
<1> QED BY <1>10, <1>11

LEMMA RequestPageKeeps ==
  ASSUME ForgeInv, RequestPage
  PROVE  ForgeInv'
<1>1. PICK kind, api, page : /\ kind = ForgeForHost(listing.remote.host)
                             /\ api = ApiOf(listing.remote.host) /\ page = listing.page
  OBVIOUS
<1>2. listing.step = "request" /\ listing.remote.host \in ForgeHosts
  BY DEF RequestPage, ForgeInv, ListingStands
<1>3. /\ kind \in {"github", "gitlab"} /\ api \in Apis /\ page \in Nat \ {0}
      /\ kind = "github" <=> api = "api.github.com"
  BY <1>1, <1>2, ForgesAre DEF ForgeInv, PagesStand
<1>4. PICK a \in ForgeAnswersTo(api, page, listing.token) :
         Concludes(OutcomeOf(kind, a)) /\ run' = RunAfter(api, OutcomeOf(kind, a), a)
  BY <1>1 DEF RequestPage
<1>5. PICK outcome : outcome = OutcomeOf(kind, a)
  OBVIOUS
<1>6. Concludes(outcome) /\ run' = RunAfter(api, outcome, a)
  BY <1>4, <1>5
<1>7. /\ \/ /\ a.cause = "page" /\ a.whole /\ outcome = ParsePage(kind, a)
            /\ a.items = PageOf(server[api], page)
            /\ a.more = (Len(server[api].pulls) > page * PerPage)
         \/ a.cause = "unreachable" /\ outcome.state = "offline"
         \/ a.cause = "limited" /\ outcome.state = "rateLimited"
         \/ a.cause = "credentials" /\ outcome.state = "authenticationRequired"
         \/ a.cause = "hidden" /\ outcome.state = "permissionDenied"
         \/ a.cause = "failure" /\ outcome.state = "error"
         \/ a.cause = "forbidden" /\ outcome.state \in {"permissionDenied", "rateLimited"}
      /\ DOMAIN outcome = {"state", "items", "more", "wait", "page"}
  <2>1. Meant(kind, api, page, a, outcome)
    BY <1>3, <1>4, <1>5, AnswersMean
  <2> QED BY <2>1 DEF Meant
<1>8. /\ panel'.state = outcome.state /\ panel'.page = page /\ listing' = NoListing
      /\ UNCHANGED <<remotes, keyring, server>>
  BY <1>1, <1>6, <1>7, ConcludedIs
<1>9. WorldStands' /\ ListingStands' /\ PagesStand'
  BY <1>1, <1>2, <1>8, EndsWell
<1>10. PICK goesOn, more, cause : /\ goesOn = (listing.page > 1 /\ run.api = api)
                                  /\ more = outcome.more /\ cause = a.cause
  OBVIOUS
<1>11. CASE outcome.state = "page"
  <2>1. /\ a.cause = "page" /\ a.whole /\ outcome = ParsePage(kind, a)
        /\ a.items = PageOf(server[api], page)
        /\ a.more = (Len(server[api].pulls) > page * PerPage)
    BY <1>7, <1>11
  <2>2. outcome.more = a.more
    BY <2>1, PageHas
  <2>3. server[api] \in Projects
    BY <1>3 DEF ForgeInv, WorldStands
  <2>4. /\ StatesAgree(outcome.items, server[api].pulls)
        /\ Numbers(outcome.items) = Numbers(PageOf(server[api], page))
    BY <1>3, <2>1, <2>3, PageReads
  <2>5. PICK seen, states : /\ seen = Numbers(outcome.items)
                            /\ states = StatesAgree(outcome.items, server[api].pulls)
    OBVIOUS
  <2>6. CASE listing.page > 1 /\ ~ (run.api = api)
    <3>1. run' = [NoRun EXCEPT !.cause = "page"]
      BY <1>6, <2>1, <2>6 DEF RunAfter
    <3>2. run'.api = "none" /\ run'.cause = "page" /\ run'.states /\ ~ run'.last
      BY <3>1 DEF NoRun
    <3>3. RunStands' /\ PagesMissNothing' /\ OutcomesAreMeant'
      BY <1>8, <1>11, <3>2 DEF RunStands, PagesMissNothing, OutcomesAreMeant
    <3> QED BY <1>9, <3>3 DEF ForgeInv
  <2>7. CASE listing.page > 1 /\ run.api = api
    <3>1. run' = [api |-> api, cause |-> a.cause, last |-> ~outcome.more, states |-> states,
                  wanted |-> run.wanted, listed |-> run.listed \cup seen]
      BY <1>6, <1>11, <2>5, <2>7 DEF RunAfter
    <3>2. /\ run'.api = api /\ run'.cause = "page" /\ run'.states = states
          /\ run'.last = ~ outcome.more
          /\ run'.wanted = run.wanted /\ run'.listed = run.listed \cup seen
      BY <2>1, <3>1
    <3>3. RunStands' /\ PagesMissNothing'
      BY <1>1, <1>2, <1>3, <1>8, <2>1, <2>2, <2>4, <2>5, <2>7, <3>2, RunGoesOn
    <3>4. OutcomesAreMeant'
      BY <1>8, <1>11, <2>4, <2>5, <3>2 DEF OutcomesAreMeant
    <3> QED BY <1>9, <3>3, <3>4 DEF ForgeInv
  <2>8. CASE ~ (listing.page > 1)
    <3>1. run' = [api |-> api, cause |-> a.cause, last |-> ~outcome.more, states |-> states,
                  wanted |-> DOMAIN server[api].pulls, listed |-> {} \cup seen]
      BY <1>6, <1>11, <2>5, <2>8 DEF RunAfter
    <3>2. /\ run'.api = api /\ run'.cause = "page" /\ run'.states = states
          /\ run'.last = ~ outcome.more
          /\ run'.wanted = DOMAIN server[api].pulls /\ run'.listed = seen
      BY <2>1, <3>1
    <3>3. listing.page = 1
      BY <1>1, <1>3, <2>8
    <3>4. RunStands' /\ PagesMissNothing'
      BY <1>1, <1>2, <1>3, <1>8, <2>1, <2>2, <2>4, <2>5, <3>2, <3>3, RunGoesOn
    <3>5. OutcomesAreMeant'
      BY <1>8, <1>11, <2>4, <2>5, <3>2 DEF OutcomesAreMeant
    <3> QED BY <1>9, <3>4, <3>5 DEF ForgeInv
  <2> QED BY <2>6, <2>7, <2>8
<1>12. CASE outcome.state # "page"
  <2>1. run' = [NoRun EXCEPT !.cause = cause]
    BY <1>6, <1>10, <1>12 DEF RunAfter
  <2>2. run'.api = "none" /\ run'.cause = a.cause /\ ~ run'.last
    BY <1>10, <2>1 DEF NoRun
  <2>3. RunStands' /\ PagesMissNothing'
    BY <2>2 DEF RunStands, PagesMissNothing
  <2>4. a.cause # "page"
    <3>1. a.whole /\ outcome = ParsePage(kind, a) => outcome.state = "page"
      BY PageHas
    <3> QED BY <1>7, <1>12, <3>1
  <2>5. OutcomesAreMeant'
    BY <1>7, <1>8, <2>2, <2>4 DEF OutcomesAreMeant
  <2> QED BY <1>9, <2>3, <2>5 DEF ForgeInv
<1> QED BY <1>11, <1>12

\* Links and the check for a release touch no listing.
LEMMA LinksKeep ==
  ASSUME ForgeInv, OpenForgeLink \/ OpenPullRequestLink \/ CheckRelease \/ OpenUpdateLink
  PROVE  ForgeInv'
<1>1. UNCHANGED <<remotes, keyring, server, listing, panel, run>>
  BY DEF OpenForgeLink, OpenPullRequestLink, CheckRelease, OpenUpdateLink
<1>2. WorldStands' /\ ListingStands' /\ PagesStand' /\ RunStands'
  BY <1>1 DEF ForgeInv, WorldStands, ListingStands, PagesStand, RunStands
<1>3. OutcomesAreMeant' /\ PagesMissNothing'
  BY <1>1 DEF ForgeInv, OutcomesAreMeant, PagesMissNothing
<1> QED BY <1>2, <1>3 DEF ForgeInv

LEMMA KeyringChanges ==
  ASSUME WorldStands, ChangesKeyring
  PROVE  WorldStands' /\ UNCHANGED server
<1>1. PICK tokens, locked : tokens = keyring.tokens /\ locked = keyring.locked
  OBVIOUS
<1>2. /\ keyring = [tokens |-> tokens, locked |-> locked]
      /\ tokens \in [Accounts -> Tokens] /\ locked \in BOOLEAN
      /\ \A a \in Accounts : tokens[a] = NoToken \/ tokens[a].of = a
  BY <1>1 DEF WorldStands
<1>3. ASSUME NEW kept, NEW shut \in BOOLEAN, keyring' = [tokens |-> kept, locked |-> shut],
             kept \in [Accounts -> Tokens],
             \A a \in Accounts : kept[a] = NoToken \/ kept[a].of = a
      PROVE  WorldStands'
  <2>1. UNCHANGED <<remotes, server>>
    BY DEF ChangesKeyring
  <2>2. /\ keyring'.tokens = kept
        /\ keyring' \in [tokens : [Accounts -> Tokens], locked : BOOLEAN]
    BY <1>3
  <2> QED BY <1>3, <2>1, <2>2 DEF WorldStands
<1>4. ASSUME NEW account \in Accounts, NEW token \in Tokens, token = NoToken \/ token.of = account,
             keyring' = [keyring EXCEPT !.tokens[account] = token]
      PROVE  WorldStands'
  <2>1. PICK kept : kept = [tokens EXCEPT ![account] = token]
    OBVIOUS
  <2>2. keyring' = [tokens |-> kept, locked |-> locked]
    BY <1>2, <1>4, <2>1
  <2>3. /\ kept \in [Accounts -> Tokens]
        /\ \A a \in Accounts : kept[a] = NoToken \/ kept[a].of = a
    BY <1>2, <1>4, <2>1
  <2> QED BY <1>2, <1>3, <2>2, <2>3
<1>5. ASSUME NEW account \in Accounts, NEW grants \in Grants, ConnectForgeAccount(account, grants)
      PROVE  WorldStands'
  <2>1. PICK token : token = [of |-> account, grants |-> grants]
    OBVIOUS
  <2>2. token \in Tokens /\ token.of = account
    BY <2>1 DEF Tokens
  <2>3. keyring' = [keyring EXCEPT !.tokens[account] = token]
    BY <1>5, <2>1 DEF ConnectForgeAccount
  <2> QED BY <1>4, <2>2, <2>3
<1>6. ASSUME NEW account \in Accounts, DisconnectForgeAccount(account)
      PROVE  WorldStands'
  <2>1. NoToken \in Tokens
    BY DEF Tokens
  <2> QED BY <1>4, <1>6, <2>1 DEF DisconnectForgeAccount
<1>7. CASE LockKeyring
  <2>1. PICK shut : shut = ~ locked
    OBVIOUS
  <2>2. shut \in BOOLEAN /\ keyring' = [keyring EXCEPT !.locked = shut]
    BY <1>1, <1>2, <1>7, <2>1 DEF LockKeyring
  <2>3. keyring' = [tokens |-> tokens, locked |-> shut]
    BY <1>2, <2>2
  <2>4. WorldStands'
    BY <1>2, <1>3, <2>2, <2>3
  <2> QED BY <2>4 DEF ChangesKeyring
<1> QED BY <1>5, <1>6, <1>7 DEF ChangesKeyring

LEMMA RemotesChange ==
  ASSUME WorldStands, EditsRemote
  PROVE  WorldStands' /\ UNCHANGED server
<1>1. PICK name \in {"origin", "fork"}, host \in Hosts :
         remotes' = [remotes EXCEPT ![name] = [host |-> host, segments |-> 2]]
  BY DEF EditsRemote
<1>2. PICK remote : remote = [host |-> host, segments |-> 2]
  OBVIOUS
<1>3. remote \in Remotes
  BY <1>2 DEF Remotes
<1>4. remotes' = [remotes EXCEPT ![name] = remote]
  BY <1>1, <1>2
<1>5. remotes' \in [origin : Remotes, fork : Remotes]
  BY <1>3, <1>4 DEF WorldStands
<1>6. UNCHANGED <<keyring, server>>
  BY DEF EditsRemote
<1> QED BY <1>5, <1>6 DEF WorldStands

\* Pull requests are opened on top of the others.
LEMMA ForgesChange ==
  ASSUME WorldStands, ForgeChanges
  PROVE  /\ WorldStands'
         /\ \A api \in Apis : /\ Len(server[api].pulls) \in Nat /\ Len(server'[api].pulls) \in Nat
                              /\ Len(server'[api].pulls) >= Len(server[api].pulls)
<1>1. PICK api \in DOMAIN server : PullsChange(api)
  BY DEF ForgeChanges
<1>2. PICK project : project = server[api]
  OBVIOUS
<1>3. api \in Apis /\ project \in Projects
  BY <1>1, <1>2 DEF WorldStands
<1>4. PICK pulls, limited : pulls = project.pulls /\ limited = project.limited
  OBVIOUS
<1>5. PICK after \in Projects : /\ server' = [server EXCEPT ![api] = after]
                                /\ Len(pulls) \in Nat /\ Len(after.pulls) \in Nat
                                /\ Len(after.pulls) >= Len(pulls)
  <2>1. pulls \in Seq({"open", "closed", "merged", "locked"}) /\ limited \in BOOLEAN
        /\ project = [pulls |-> pulls, private |-> project.private, limited |-> limited]
        /\ project.private \in BOOLEAN
    BY <1>3, <1>4 DEF Projects
  <2>2. CASE server' = [server EXCEPT ![api].pulls = Append(@, "open")]
    <3>1. PICK more : more = Append(pulls, "open")
      OBVIOUS
    <3>2. more \in Seq({"open", "closed", "merged", "locked"}) /\ Len(more) = Len(pulls) + 1
      BY <2>1, <3>1
    <3>3. PICK after : after = [project EXCEPT !.pulls = more]
      OBVIOUS
    <3>4. after \in Projects /\ after.pulls = more
      BY <1>3, <3>2, <3>3 DEF Projects
    <3>5. server' = [server EXCEPT ![api] = after]
      BY <1>2, <1>4, <2>2, <3>1, <3>3
    <3>6. Len(pulls) \in Nat /\ Len(after.pulls) \in Nat /\ Len(after.pulls) >= Len(pulls)
      BY <2>1, <3>2, <3>4
    <3> QED BY <3>4, <3>5, <3>6, Zenon
  <2>3. CASE server' = [server EXCEPT ![api].limited = ~@]
    <3>1. PICK now : now = ~ limited
      OBVIOUS
    <3>2. PICK after : after = [project EXCEPT !.limited = now]
      OBVIOUS
    <3>3. after \in Projects /\ after.pulls = pulls
      BY <1>3, <1>4, <2>1, <3>1, <3>2 DEF Projects
    <3>4. server' = [server EXCEPT ![api] = after]
      BY <1>2, <1>4, <2>3, <3>1, <3>2
    <3>5. Len(pulls) \in Nat /\ Len(after.pulls) \in Nat /\ Len(after.pulls) >= Len(pulls)
      BY <2>1, <3>3
    <3> QED BY <3>3, <3>4, <3>5, Zenon
  <2> QED BY <1>1, <2>2, <2>3 DEF PullsChange
<1>6. server' \in [Apis -> Projects] /\ server \in [Apis -> Projects]
  BY <1>3, <1>5 DEF WorldStands
<1>7. UNCHANGED <<remotes, keyring>>
  BY DEF ForgeChanges
<1>8. WorldStands'
  BY <1>6, <1>7 DEF WorldStands
<1>9. ASSUME NEW other \in Apis
      PROVE  /\ Len(server[other].pulls) \in Nat /\ Len(server'[other].pulls) \in Nat
             /\ Len(server'[other].pulls) >= Len(server[other].pulls)
  <2>1. CASE other = api
    BY <1>2, <1>4, <1>5, <1>6, <2>1
  <2>2. CASE other # api
    <3>1. server'[other] = server[other]
      BY <1>5, <1>6, <2>2
    <3>2. server[other].pulls \in Seq({"open", "closed", "merged", "locked"})
      BY <1>6 DEF Projects
    <3>3. Len(server[other].pulls) \in Nat
      BY <3>2
    <3> QED BY <3>1, <3>3
  <2> QED BY <2>1, <2>2
<1> QED BY <1>8, <1>9

LEMMA DeedKeeps ==
  ASSUME ForgeInv, Deed
  PROVE  ForgeInv'
<1>1. UNCHANGED <<listing, panel, release, run>>
  BY DEF Deed
<1>2. /\ WorldStands'
      /\ \/ UNCHANGED server
         \/ \A api \in Apis : /\ Len(server[api].pulls) \in Nat /\ Len(server'[api].pulls) \in Nat
                              /\ Len(server'[api].pulls) >= Len(server[api].pulls)
  BY KeyringChanges, RemotesChange, ForgesChange DEF Deed, ForgeInv
<1>3. ListingStands' /\ PagesStand' /\ OutcomesAreMeant' /\ PagesMissNothing'
  BY <1>1 DEF ForgeInv, ListingStands, PagesStand, OutcomesAreMeant, PagesMissNothing
<1>4. RunStands'
  <2>1. CASE UNCHANGED server
    BY <1>1, <2>1 DEF ForgeInv, RunStands
  <2>2. CASE \A api \in Apis : /\ Len(server[api].pulls) \in Nat /\ Len(server'[api].pulls) \in Nat
                               /\ Len(server'[api].pulls) >= Len(server[api].pulls)
    <3>1. SUFFICES ASSUME run.api # "none"
                   PROVE  /\ run.api \in Apis /\ run.wanted \subseteq Nat \ {0}
                          /\ \A n \in run.wanted :
                                n > Len(server'[run.api].pulls) - panel.page * PerPage
                                => n \in run.listed
      BY <1>1 DEF RunStands
    <3>2. PICK was, is, past : /\ was = Len(server[run.api].pulls)
                                /\ is = Len(server'[run.api].pulls)
                                /\ past = panel.page * PerPage
      OBVIOUS
    <3>3. /\ run.api \in Apis /\ run.wanted \subseteq Nat \ {0}
          /\ \A n \in run.wanted : n > was - past => n \in run.listed
      BY <3>1, <3>2 DEF ForgeInv, RunStands
    <3>4. was \in Nat /\ is \in Nat /\ is >= was
      BY <2>2, <3>2, <3>3
    <3>5. past \in Nat
      BY <3>2, ForgesAssumption DEF ForgeInv, PagesStand
    <3>6. ASSUME NEW n \in run.wanted, n > is - past
          PROVE  n \in run.listed
      <4>1. n > was - past
        BY <3>3, <3>4, <3>5, <3>6
      <4> QED BY <3>3, <4>1
    <3> QED BY <3>2, <3>3, <3>6
  <2> QED BY <1>2, <2>1, <2>2
<1> QED BY <1>2, <1>3, <1>4 DEF ForgeInv

LEMMA ForgeStarts ==
  ASSUME ForgesInit
  PROVE  ForgeInv
<1>1. PICK origin \in [host : Hosts, segments : 1..3] :
         remotes = [origin |-> origin, fork |-> NoRemote]
  BY DEF ForgesInit
<1>2. origin \in Remotes /\ NoRemote \in Remotes
  BY DEF Remotes, NoRemote
<1>3. remotes \in [origin : Remotes, fork : Remotes]
  BY <1>1, <1>2
<1>4. PICK tokens : tokens = [a \in Accounts |-> NoToken]
  OBVIOUS
<1>5. tokens \in [Accounts -> Tokens] /\ \A a \in Accounts : tokens[a] = NoToken
  BY <1>4 DEF Tokens
<1>6. keyring = [tokens |-> tokens, locked |-> FALSE]
  BY <1>4 DEF ForgesInit
<1>7. keyring \in [tokens : [Accounts -> Tokens], locked : BOOLEAN] /\ keyring.tokens = tokens
  BY <1>5, <1>6
<1>8. server \in [Apis -> Projects]
  <2>1. PICK pulls : pulls = [api \in Apis |-> IF api = "api.github.com" THEN <<"closed", "merged">>
                                               ELSE <<"merged", "locked">>]
    OBVIOUS
  <2>2. \A api \in Apis : pulls[api] \in Seq({"open", "closed", "merged", "locked"})
    <3>1. \A first, second \in {"open", "closed", "merged", "locked"} :
             <<first, second>> \in Seq({"open", "closed", "merged", "locked"})
      OBVIOUS
    <3> QED BY <2>1, <3>1
  <2>3. PICK closed : closed = [api \in Apis |-> api # "api.github.com"]
    OBVIOUS
  <2>4. \A api \in Apis : closed[api] \in BOOLEAN
    BY <2>3
  <2>5. server = [api \in Apis |-> [pulls |-> pulls[api], private |-> closed[api], limited |-> FALSE]]
    BY <2>1, <2>3 DEF ForgesInit, Apis
  <2>6. ASSUME NEW api \in Apis
        PROVE  [pulls |-> pulls[api], private |-> closed[api], limited |-> FALSE] \in Projects
    BY <2>2, <2>4 DEF Projects
  <2> QED BY <2>5, <2>6
<1>9. WorldStands
  BY <1>3, <1>5, <1>7, <1>8 DEF WorldStands
<1>10. ListingStands /\ PagesStand
  <2>1. /\ listing.step = "idle" /\ listing.token = NoToken
        /\ DOMAIN listing = {"step", "page", "remote", "token"}
    BY DEF ForgesInit, NoListing
  <2>2. panel.page = 0
    BY DEF ForgesInit, Says
  <2> QED BY <2>1, <2>2 DEF ListingStands, PagesStand
<1>11. RunStands /\ OutcomesAreMeant /\ PagesMissNothing
  <2>1. run.api = "none" /\ run.cause = "none" /\ ~ run.last
    BY DEF ForgesInit, NoRun
  <2> QED BY <2>1 DEF RunStands, OutcomesAreMeant, PagesMissNothing
<1> QED BY <1>9, <1>10, <1>11 DEF ForgeInv

LEMMA ForgeSteps ==
  ASSUME ForgeInv, [ForgesNext]_forgeVars
  PROVE  ForgeInv'
<1>1. CASE RefuseShape
  BY <1>1, EndsWithout DEF RefuseShape
<1>2. CASE UNCHANGED forgeVars
  <2>1. UNCHANGED <<remotes, keyring, server, listing, panel, run>>
    BY <1>2 DEF forgeVars
  <2>2. WorldStands' /\ ListingStands' /\ PagesStand' /\ RunStands'
    BY <2>1 DEF ForgeInv, WorldStands, ListingStands, PagesStand, RunStands
  <2>3. OutcomesAreMeant' /\ PagesMissNothing'
    BY <2>1 DEF ForgeInv, OutcomesAreMeant, PagesMissNothing
  <2> QED BY <2>2, <2>3 DEF ForgeInv
<1> QED BY <1>1, <1>2, ListPullRequestsKeeps, ListRemotesKeeps, ReadTokenKeeps, RequestPageKeeps,
           LinksKeep, DeedKeeps DEF ForgesNext

LEMMA HomeFollows ==
  ASSUME ForgeInv
  PROVE  TokensStayHome
<1>1. CASE listing.token = NoToken
  BY <1>1 DEF TokensStayHome, NoToken
<1>2. CASE /\ listing.step = "request"
           /\ listing.token.of = Account(ForgeForHost(listing.remote.host), listing.remote.host)
  BY <1>2 DEF TokensStayHome, Account
<1> QED BY <1>1, <1>2 DEF ForgeInv, ListingStands

\* Whatever the hosts, the length of a page and of the lists of pull requests: a panel says what
\* the forge meant, but for the 403 of GitHub that forbids (ForbiddenIsDenied); pages in order
\* miss no pull request; a token goes to the API it was made for (list_pull_requests, the two
\* adapters, the keyring).
THEOREM ListingsStayTrue == ForgesSpec => []ListingsAreTrue
<1>1. ForgesInit => ForgeInv
  BY ForgeStarts
<1>2. ForgeInv /\ [ForgesNext]_forgeVars => ForgeInv'
  BY ForgeSteps
<1>3. ForgeInv => ListingsAreTrue
  BY HomeFollows DEF ForgeInv, ListingsAreTrue
<1> QED BY <1>1, <1>2, <1>3, PTL DEF ForgesSpec
=============================================================================
