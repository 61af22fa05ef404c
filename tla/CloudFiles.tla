------------------------------ MODULE CloudFiles -----------------------------
(****************************************************************************)
(* Calls to the Quark drive over a network that loses answers:              *)
(* QuarkAPIClient.request with its retries (quark_api_client_v2.py, retry.py*)
(* of app/core), and on top of it the listings, renames and transfers of    *)
(* QuarkService, TransferService and the routes of app/api/quark.py.        *)
(*                                                                          *)
(* One folder of the drive.  The drive may show a new name a while after it *)
(* has accepted it, which is what rename_file checks for.                   *)
(****************************************************************************)
EXTENDS Naturals, Sequences, FiniteSets, Functions, SequencesExt

CONSTANTS
    Fids, Names,
    Shared,            \* those of Fids that come into the folder by a transfer
    PageSize, MaxAttempts,      \* of a listing; of retry_on_transient
    MaxChecks,         \* of rename_file, and of _resolve_target_directory
    Callers, None,
    MaxOps, MaxChanges \* bounds: renames of a call, changes by the drive's owner

CloudAssumption ==
    /\ {PageSize, MaxAttempts, MaxChecks} \subseteq Nat \ {0}
    /\ MaxOps \in Nat /\ MaxChanges \in Nat
    /\ IsFiniteSet(Fids) /\ Shared \subseteq Fids
    /\ Names # {} /\ None \notin Names \cup BOOLEAN

VARIABLES
    folder,     \* the files of the folder, in the order of a listing
    name,       \* their names
    due,        \* renames the drive has accepted and does not show yet
    copies,     \* how often a transfer has been saved
    call,       \* what each caller is doing
    changes

vars == <<folder, name, due, copies, call, changes>>

(* at: the request under way, or "told" with its result; since: the names   *)
(* seen on the file, and quiet whether the folder was, since the call began.*)
Idle == [at |-> "idle", ops |-> <<>>, results |-> <<>>, tries |-> 0, checks |-> 0,
         page |-> 0, got |-> <<>>, answer |-> None, since |-> {}, quiet |-> TRUE]

Waiting == {"page", "first", "info", "rename", "check", "target", "save"}
Results == {"success", "skipped", "failed", "saved", "whole", "part", "preview"}
Op      == Fids \X Names
Answer  == [files : Seq(Fids), total : Nat]

TypeOK ==
    /\ folder \in Seq(Fids) /\ IsInjective(folder)
    /\ name \in [Fids -> Names]
    /\ due \subseteq Op
    /\ copies \in [Callers -> 0 .. MaxAttempts]
    /\ changes \in 0 .. MaxChanges
    /\ \A c \in Callers :
          /\ call[c].at \in Waiting \cup {"idle", "told"}
          /\ call[c].ops \in Seq(Op) /\ call[c].results \in Seq(Results)
          /\ call[c].tries \in 0 .. (MaxAttempts - 1) /\ call[c].checks \in 0 .. MaxChecks
          /\ call[c].answer # None =>
                call[c].answer \in CASE call[c].at \in {"page", "first"} -> Answer
                                     [] call[c].at \in {"info", "check"} -> Names
                                     [] OTHER                           -> BOOLEAN
          /\ call[c].since \subseteq Names /\ call[c].quiet \in BOOLEAN

Init ==
    /\ folder = SetToSeq(Fids \ Shared)
    /\ name = [f \in Fids |-> CHOOSE n \in Names : TRUE]
    /\ due = {}
    /\ copies = [c \in Callers |-> 0]
    /\ call = [c \in Callers |-> Idle]
    /\ changes = 0

-----------------------------------------------------------------------------
(* The drive.                                                               *)

(* Page p, as "/file/sort" answers.                                         *)
Page(p) ==
    LET from == (p - 1) * PageSize + 1
        to   == p * PageSize
    IN  [files |-> SubSeq(folder, from, IF to < Len(folder) THEN to ELSE Len(folder)),
         total |-> Len(folder)]

(* get_all_video_files asks for the first page of each folder, of 100 files.*)
FirstPage == Page(1)

(* The drive has answered: renames are shown later, saves make copies.      *)
Serve(c) ==
    LET k == call[c]
    IN  /\ k.at \in Waiting /\ k.answer = None
        /\ \E a \in CASE k.at = "page"               -> {Page(k.page)}
                      [] k.at = "first"              -> {FirstPage}
                      [] k.at \in {"info", "check"}  -> {name[k.ops[1][1]]}
                      [] k.at = "target"             -> BOOLEAN
                      [] k.at \in {"rename", "save"} -> {TRUE} :
              call' = [call EXCEPT ![c].answer = a]
        /\ due' = IF k.at = "rename" THEN due \cup {k.ops[1]} ELSE due
        /\ copies' = IF k.at = "save" THEN [copies EXCEPT ![c] = @ + 1] ELSE copies
        /\ UNCHANGED <<folder, name, changes>>

(* What a caller sees changing.                                             *)
Seen(f, n) == [c \in Callers |->
                 IF call[c].ops # <<>> /\ call[c].ops[1][1] = f
                   THEN [call[c] EXCEPT !.since = @ \cup {n}] ELSE call[c]]

Shows(f, n) ==
    /\ <<f, n>> \in due
    /\ due' = due \ {<<f, n>>}
    /\ name' = [name EXCEPT ![f] = n]
    /\ call' = Seen(f, n)
    /\ UNCHANGED <<folder, copies, changes>>

Disturbed == [c \in Callers |-> [call[c] EXCEPT !.quiet = FALSE]]

(* The owner, another program, or a transfer's files that arrive.           *)
Arrives(f) ==
    /\ changes < MaxChanges /\ changes' = changes + 1
    /\ f \in Shared /\ f \notin Range(folder)
    /\ folder' = Append(folder, f)
    /\ call' = Disturbed
    /\ UNCHANGED <<name, due, copies>>

Removed(f) ==
    /\ changes < MaxChanges /\ changes' = changes + 1
    /\ \E i \in DOMAIN folder : folder[i] = f /\ folder' = RemoveAt(folder, i)
    /\ call' = Disturbed
    /\ UNCHANGED <<name, due, copies>>

-----------------------------------------------------------------------------
(* The callers.                                                             *)
At(c, at) == [call[c] EXCEPT !.at = at, !.answer = None, !.tries = 0]
Becomes(c, k) == call' = [call EXCEPT ![c] = k] /\ UNCHANGED <<folder, name, due, copies, changes>>

(* The next operation of execute_cloud_rename, or its end.                  *)
NextOp(c, result) ==
    LET k    == [call[c] EXCEPT !.results = Append(@, result), !.answer = None,
                                !.tries = 0, !.checks = 0]
        rest == IF k.ops = <<>> THEN <<>> ELSE Tail(k.ops)
    IN  IF rest = <<>> THEN [k EXCEPT !.at = "told", !.ops = rest]
        ELSE [k EXCEPT !.at = "info", !.ops = rest, !.since = {name[rest[1][1]]}]

Start(c, at, ops) ==
    /\ call[c].at = "idle"
    /\ Becomes(c, [Idle EXCEPT !.at = at, !.ops = ops, !.page = 1,
                     !.since = IF ops = <<>> THEN {} ELSE {name[ops[1][1]]}])

get_files(c)                 == Start(c, "page", <<>>)
smart_rename_cloud_files(c)  == Start(c, "first", <<>>)
execute_cloud_rename(c, ops) == ops # <<>> /\ Start(c, "info", ops)
transfer_share(c)            == Start(c, "target", <<>>)

(* The request raises: a listing ends with the pages it has, as if they     *)
(* were all; a rename has failed, and the next one is tried.                *)
Raised(c) == NextOp(c, CASE call[c].at \in {"page", "first"} -> "part"
                         [] OTHER -> "failed")

(* QuarkAPIClient.request: the answer, or the request, is lost, or the      *)
(* drive cannot answer now.  The request is sent again, whatever it did.    *)
Lost(c) ==
    /\ call[c].at \in Waiting
    /\ Becomes(c, IF call[c].tries + 1 = MaxAttempts THEN Raised(c)
                  ELSE [call[c] EXCEPT !.tries = @ + 1, !.answer = None])

Refused(c) ==
    /\ call[c].at \in Waiting /\ call[c].answer = None
    /\ Becomes(c, Raised(c))

Answered(c, at) == call[c].at = at /\ call[c].answer # None

(* Wrong on purpose: one file is left over.                                 *)
IsLastEarly(page, total) == page * PageSize + 1 >= total

(* get_files: whether there are pages after this one.                       *)
IsLast(page, total) == page * PageSize >= total

PageRead(c) ==
    /\ Answered(c, "page")
    /\ LET k   == call[c]
           got == k.got \o k.answer.files
       IN  Becomes(c, IF IsLast(k.page, k.answer.total)
                        THEN [NextOp(c, "whole") EXCEPT !.got = got]
                      ELSE [At(c, "page") EXCEPT !.got = got, !.page = @ + 1])

(* The preview of get_all_video_files: the first page of each folder.  In   *)
(* the fast mode a file whose process_file raises is left out, in the other *)
(* it fails the preview.                                                    *)
Previewed(c) ==
    /\ Answered(c, "first")
    /\ \E kept \in SUBSET Range(call[c].answer.files) :
          Becomes(c, [NextOp(c, "preview") EXCEPT
                        !.got = SelectSeq(call[c].answer.files, LAMBDA f : f \in kept)])

PreviewFails(c) ==
    /\ Answered(c, "first") /\ call[c].answer.files # <<>>
    /\ Becomes(c, NextOp(c, "failed"))

(* QuarkService.rename_file                                                 *)
InfoRead(c) ==
    /\ Answered(c, "info")
    /\ Becomes(c, IF call[c].answer = call[c].ops[1][2] THEN NextOp(c, "skipped")
                  ELSE At(c, "rename"))

Renamed(c) == Answered(c, "rename") /\ Becomes(c, At(c, "check"))

(* Wrong on purpose: it is enough that the drive has accepted it.           *)
VerdictAccepted(c) == NextOp(c, "success")

(* What the fifth look at the name says.                                    *)
Verdict(c) == NextOp(c, "failed")

Checked(c) ==
    /\ Answered(c, "check")
    /\ LET k == call[c]
       IN  Becomes(c, IF k.answer = k.ops[1][2] THEN NextOp(c, "success")
                      ELSE IF k.checks + 1 = MaxChecks THEN Verdict(c)
                      ELSE [At(c, "check") EXCEPT !.checks = @ + 1])

(* TransferService: the folder is looked for some times, then the share is  *)
(* saved into it.                                                           *)
TargetRead(c) ==
    /\ Answered(c, "target")
    /\ Becomes(c, IF call[c].answer THEN At(c, "save")
                  ELSE IF call[c].checks = MaxChecks THEN NextOp(c, "failed")
                  ELSE [At(c, "target") EXCEPT !.checks = @ + 1])

Saved(c) == Answered(c, "save") /\ Becomes(c, NextOp(c, "saved"))

-----------------------------------------------------------------------------
Steps(c) ==
    \/ Serve(c) \/ Lost(c) \/ Refused(c)
    \/ PageRead(c) \/ Previewed(c) \/ PreviewFails(c)
    \/ InfoRead(c) \/ Renamed(c) \/ Checked(c)
    \/ TargetRead(c) \/ Saved(c)

Next ==
    \/ \E c \in Callers :
          \/ get_files(c) \/ smart_rename_cloud_files(c) \/ transfer_share(c)
          \/ \E ops \in BoundedSeq(Op, MaxOps) : execute_cloud_rename(c, ops)
          \/ Steps(c)
    \/ \E f \in Fids, n \in Names : Shows(f, n)
    \/ \E f \in Fids : Arrives(f) \/ Removed(f)

Spec == Init /\ [][Next]_vars

-----------------------------------------------------------------------------
Told(c, result) == call[c].at = "told" /\ call[c].results = <<result>>

(* A listing that no request of has failed, of a folder that stayed as it   *)
(* was, has every file once, wherever the pages end.                        *)
WholeIsWhole ==
    \A c \in Callers : Told(c, "whole") /\ call[c].quiet => call[c].got = folder

(* A file whose rename is told to have succeeded, or not to be needed, has  *)
(* had the name since the call began: nobody is told so by the drive's      *)
(* having accepted it alone.                                                *)
RenamedWasSeen ==
    \A c \in Callers :
      LET told == call'[c].results
      IN  Len(told) > Len(call[c].results) /\ Last(told) \in {"success", "skipped"} =>
             call[c].ops[1][2] \in call[c].since

(* A share that is told to be saved is; but it may be so more than once.    *)
SavedIsSaved == \A c \in Callers : Told(c, "saved") => copies[c] > 0

(* "get_all_video_files": every one.  Not so past the first page            *)
(* (quark.py:473), or where a request has failed.                           *)
PreviewIsWhole ==
    \A c \in Callers : Told(c, "preview") /\ call[c].quiet /\ call[c].got # <<>> =>
        Len(call[c].got) >= PageSize \/ Len(folder) < PageSize

(* A share is saved once.  Not so if the answer is lost: the request is     *)
(* sent again (quark_api_client_v2.py:65).                                  *)
SavedOnce == \A c \in Callers : copies[c] <= 1
=============================================================================
