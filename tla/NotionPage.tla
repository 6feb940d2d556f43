------------------------------ MODULE NotionPage ------------------------------
(***************************************************************************)
(* The body of one Notion page under the tools that read and rewrite it:   *)
(* notion_update_page, notion_append_block and notion_read_page            *)
(* (tools/notion.py) and notion_update_row (tools/notion_rows.py), whose   *)
(* row is a page.                                                          *)
(*                                                                         *)
(* A run is one call of a tool, which makes one HTTP call after another;   *)
(* several nodes and workflows run at the same time on one page.           *)
(* update_page replaces the body in three stages: it reads the blocks page *)
(* by page, appends the new ones, and deletes those that it has read one   *)
(* by one.  The Notion API is external: it carries out a call and answers  *)
(* it, or answers with an error, or is not heard; what it did not answer   *)
(* with 200 it may have carried out, or may carry out later.               *)
(*                                                                         *)
(* The rows' _call makes a call again, once, that was answered with 429:   *)
(* nothing has been carried out by then, so both are one call here (module *)
(* ToolSends has the repetition).                                          *)
(***************************************************************************)
EXTENDS SequencesExt

CONSTANTS
    Run,        \* runs of the tools
    Initial,    \* the page's blocks at first
    Size,       \* blocks made of a content
    PageSize,   \* blocks in one reply (page_size: 100)
    Jobs        \* bound: the tools called in an instance

Old == Range(Initial)

New == [by : Run, n : 1..Size]

Block == Old \cup New

\* The blocks that _blocks_from_text makes of a run's content: never none.
Written(r) == [n \in 1..Size |-> [by |-> r, n |-> n]]

NoBlock == [by |-> "none"]

ASSUME PageAssumption ==
    /\ Initial \in Seq(Old)
    /\ \A i, j \in 1..Len(Initial) : Initial[i] = Initial[j] => i = j
    /\ Old \cap New = {}
    /\ NoBlock \notin Block
    /\ Size \in Nat \ {0}
    /\ PageSize \in Nat \ {0}
    /\ Jobs \subseteq {"update", "append", "row", "read"}

VARIABLES
    body,       \* the page's blocks
    pc,         \* the HTTP call a run makes
    job,        \* the tool a run calls
    want,       \* what update_page and update_row are to write: title or properties, content
    got,        \* blocks a run has read
    cursor,     \* where its next page begins
    deleted,    \* how many of them it has gone through
    late,       \* calls that were not answered with 200 and may still be carried out
    answer,     \* what the run returned
    headed,     \* history: runs whose title or properties have been written
    newest,     \* history: the blocks of the last content that was written
    failed,     \* history: calls that were not answered with 200
    moved       \* history: runs during whose reading the body changed

vars == <<body, pc, job, want, got, cursor, deleted, late, answer, headed, newest, failed, moved>>

------------------------------------------------------------------------------
Places == {"idle", "page", "schema", "head", "fetch", "append", "delete", "markdown", "final", "done"}

Calls == {"head", "append", "delete", "markdown"}

TypeOK ==
    /\ body \in Seq(Block)
    /\ \A i, j \in 1..Len(body) : body[i] = body[j] => i = j
    /\ pc \in [Run -> Places]
    /\ job \in [Run -> Jobs \cup {"none"}]
    /\ want \in [Run -> SUBSET {"head", "content"}]
    /\ got \in [Run -> Seq(Block)]
    /\ cursor \in [Run -> Block \cup {NoBlock}]
    /\ deleted \in [Run -> Nat]
    /\ late \subseteq Calls \X Run \X (Block \cup {NoBlock})
    /\ answer \in [Run -> {"none", "success", "error", "prefixed", "cut"}]
    /\ headed \subseteq Run
    /\ newest \in Seq(Block)
    /\ failed \subseteq Run \X Places
    /\ moved \subseteq Run

Init ==
    /\ body = Initial
    /\ pc = [r \in Run |-> "idle"]
    /\ job = [r \in Run |-> "none"]
    /\ want = [r \in Run |-> {}]
    /\ got = [r \in Run |-> <<>>]
    /\ cursor = [r \in Run |-> NoBlock]
    /\ deleted = [r \in Run |-> 0]
    /\ late = {}
    /\ answer = [r \in Run |-> "none"]
    /\ headed = {}
    /\ newest = Initial
    /\ failed = {}
    /\ moved = {}

------------------------------------------------------------------------------
(* What the API does *)

Without(b) == \E i \in 1..Len(body) : body[i] = b /\ body' = RemoveAt(body, i)

\* A call is carried out.  Blocks are appended together; a block that is gone
\* is not deleted again.
Applied(c, r, b) ==
    /\ \/ c = "head" /\ UNCHANGED <<body, newest>>
       \/ c = "append" /\ body' = body \o Written(r) /\ newest' = Written(r)
       \/ c = "markdown" /\ body' = Written(r) /\ newest' = Written(r)
       \/ c = "delete" /\ Without(b) /\ UNCHANGED newest
       \/ c = "delete" /\ b \notin Range(body) /\ UNCHANGED <<body, newest>>
    /\ headed' = IF c = "head" THEN headed \cup {r} ELSE headed
    /\ moved' = IF body' = body THEN moved ELSE moved \cup {s \in Run : pc[s] = "fetch"}

\* The block that a run's call is about.
Subject(r) == IF pc[r] = "delete" THEN got[r][deleted[r] + 1] ELSE NoBlock

\* 200, whether or not its body can be read.
Good(r) ==
    /\ Applied(pc[r], r, Subject(r))
    /\ UNCHANGED <<late, failed>>

\* No 200: an error, or no reply at all.
Bad(r) ==
    /\ late' \in {late, late \cup {<<pc[r], r, Subject(r)>>}}
    /\ failed' = failed \cup {<<r, pc[r]>>}
    /\ UNCHANGED <<body, headed, newest, moved>>

\* A call that only reads is answered with 200, or is not.
Read == UNCHANGED <<body, late, headed, newest, failed, moved>>

Unread(r) == failed' = failed \cup {<<r, pc[r]>>} /\ UNCHANGED <<body, late, headed, newest, moved>>

------------------------------------------------------------------------------
(* The tools *)

\* Where a run writes the content that it is to write.
Content(r) ==
    CASE "content" \in want[r] /\ job[r] = "update" -> "fetch"
      [] "content" \in want[r] /\ job[r] = "row" -> "markdown"
      [] "content" \notin want[r] /\ job[r] = "update" -> "final"
      [] OTHER -> "done"

\* Mutant of After: the old blocks are deleted before the new ones are appended.
AfterDeletion(r) ==
    CASE pc[r] = "page" -> IF job[r] = "row" THEN "schema" ELSE "fetch"
      [] pc[r] = "schema" -> IF "head" \in want[r] THEN "head" ELSE "markdown"
      [] pc[r] = "head" -> Content(r)
      [] pc[r] = "fetch" -> IF job[r] = "read" THEN "done" ELSE IF got[r] = <<>> THEN "append" ELSE "delete"
      [] pc[r] = "delete" -> "append"
      [] pc[r] = "append" -> IF job[r] = "append" THEN "done" ELSE "final"
      [] OTHER -> "done"

\* The call that follows the one a run has made.
After(r) ==
    CASE pc[r] = "page" -> IF job[r] = "row" THEN "schema" ELSE "fetch"
      [] pc[r] = "schema" -> IF "head" \in want[r] THEN "head" ELSE "markdown"
      [] pc[r] = "head" -> Content(r)
      [] pc[r] = "fetch" -> IF job[r] = "read" THEN "done" ELSE "append"
      [] pc[r] = "append" /\ job[r] # "append" -> IF got[r] = <<>> THEN "final" ELSE "delete"
      [] pc[r] = "delete" -> "final"
      [] OTHER -> "done"

\* The run goes on, or has come to its end.
Go(r, place) ==
    /\ pc' = [pc EXCEPT ![r] = place]
    /\ answer' = [answer EXCEPT ![r] = IF place = "done" THEN "success" ELSE @]

Onwards(r) == Go(r, After(r))

Return(r, kind) ==
    /\ pc' = [pc EXCEPT ![r] = "done"]
    /\ answer' = [answer EXCEPT ![r] = kind]

Start(r) ==
    /\ pc[r] = "idle"
    /\ \E j \in Jobs, w \in SUBSET {"head", "content"} :
         /\ j \in {"append", "read"} => w = {"content"}
         /\ job' = [job EXCEPT ![r] = j]
         /\ want' = [want EXCEPT ![r] = w]
         /\ Go(r, CASE j = "append" -> "append"
                    [] j = "update" -> IF "head" \in w THEN "head" ELSE IF "content" \in w THEN "fetch" ELSE "final"
                    [] OTHER -> "page")
    /\ Read
    /\ UNCHANGED <<got, cursor, deleted>>

\* A page that is no row; a property that is not there, is given twice, or
\* cannot have its value; nothing to change.
Unfit(r) ==
    /\ job[r] = "row"
    /\ pc[r] = "schema" => "head" \in want[r] \/ want[r] = {}

\* The page, or the schema of its database, is read.  Nothing has been written
\* when a row is refused.
Look(r) ==
    /\ pc[r] \in {"page", "schema"}
    /\ \/ Read /\ Onwards(r) /\ (pc[r] = "schema" => want[r] # {})
       \/ Read /\ Unfit(r) /\ Return(r, "error")
       \/ Unread(r) /\ Return(r, "error")
    /\ UNCHANGED <<job, want, got, cursor, deleted>>

\* PATCH of the title or of the properties.
WriteHead(r) ==
    /\ pc[r] = "head"
    /\ \/ Good(r) /\ Onwards(r)
       \/ Bad(r) /\ Return(r, "error")
    /\ UNCHANGED <<job, want, got, cursor, deleted>>

\* The place of the cursor in the body.
From(r) == IF cursor[r] = NoBlock THEN 1 ELSE CHOOSE i \in 1..Len(body) : body[i] = cursor[r]

\* One page of blocks from the cursor on.
Page(r) == SubSeq(body, From(r), Min({From(r) + PageSize - 1, Len(body)}))

\* The block behind that page, next_cursor; NoBlock if there is none (has_more).
Behind(r) == IF From(r) + PageSize <= Len(body) THEN body[From(r) + PageSize] ELSE NoBlock

\* Mutant of FetchPage: the end is looked for before the reply's blocks are added.
FetchPageEnd(r) ==
    /\ pc[r] = "fetch"
    /\ \/ /\ cursor[r] \in Range(body) \cup {NoBlock}
          /\ Read
          /\ IF Behind(r) = NoBlock THEN Onwards(r) /\ UNCHANGED <<got, cursor>>
             ELSE /\ got' = [got EXCEPT ![r] = @ \o Page(r)]
                  /\ cursor' = [cursor EXCEPT ![r] = Behind(r)]
                  /\ UNCHANGED <<pc, answer>>
       \/ Unread(r) /\ (Onwards(r) \/ Return(r, "error")) /\ UNCHANGED <<got, cursor>>
    /\ UNCHANGED <<job, want, deleted>>

\* GET of the blocks from the cursor on.  The status is not looked at: an error
\* has no results and no further page, so that reading ends with what there is.
FetchPage(r) ==
    /\ pc[r] = "fetch"
    /\ \/ /\ cursor[r] \in Range(body) \cup {NoBlock}
          /\ Read
          /\ got' = [got EXCEPT ![r] = @ \o Page(r)]
          /\ cursor' = [cursor EXCEPT ![r] = Behind(r)]
          /\ IF Behind(r) = NoBlock THEN Onwards(r) ELSE UNCHANGED <<pc, answer>>
       \/ Unread(r) /\ (Onwards(r) \/ Return(r, "error")) /\ UNCHANGED <<got, cursor>>
    /\ UNCHANGED <<job, want, deleted>>

\* Mutant of AppendBlocks: an append without a 200 is made again.
AppendAgain(r) ==
    /\ pc[r] = "append"
    /\ \/ Good(r) /\ Onwards(r)
       \/ Good(r) /\ job[r] = "append" /\ Return(r, "error")
       \/ Bad(r) /\ UNCHANGED <<pc, answer>>
    /\ UNCHANGED <<job, want, got, cursor, deleted>>

\* PATCH of the children.  update_page looks at the status alone, append_block
\* has to read the body too.
AppendBlocks(r) ==
    /\ pc[r] = "append"
    /\ \/ Good(r) /\ Onwards(r)
       \/ Good(r) /\ job[r] = "append" /\ Return(r, "error")
       \/ Bad(r) /\ Return(r, "error")
    /\ UNCHANGED <<job, want, got, cursor, deleted>>

\* Mutant of DeleteBlock: the last of the blocks is spared.
DeleteButLast(r) ==
    /\ pc[r] = "delete"
    /\ \/ /\ Good(r) \/ Bad(r)
          /\ deleted' = [deleted EXCEPT ![r] = @ + 1]
          /\ IF deleted[r] + 2 >= Len(got[r]) THEN Onwards(r) ELSE UNCHANGED <<pc, answer>>
       \/ Bad(r) /\ Return(r, "error") /\ UNCHANGED deleted
    /\ UNCHANGED <<job, want, got, cursor>>

\* One block is deleted, or is not: the reply is not looked at, only a call
\* without a reply ends the run.
DeleteBlock(r) ==
    /\ pc[r] = "delete"
    /\ \/ /\ Good(r) \/ Bad(r)
          /\ deleted' = [deleted EXCEPT ![r] = @ + 1]
          /\ IF deleted[r] + 1 = Len(got[r]) THEN Onwards(r) ELSE UNCHANGED <<pc, answer>>
       \/ Bad(r) /\ Return(r, "error") /\ UNCHANGED deleted
    /\ UNCHANGED <<job, want, got, cursor>>

\* Mutant of ReplaceBody: the prefix is always there.
ReplaceBodyPrefixed(r) ==
    /\ pc[r] = "markdown"
    /\ \/ Good(r) /\ Onwards(r)
       \/ Bad(r) /\ Return(r, "prefixed")
    /\ UNCHANGED <<job, want, got, cursor, deleted>>

\* PATCH of the row's Markdown: the body is replaced in one call.  An error
\* says so if the properties have been written by then.
ReplaceBody(r) ==
    /\ pc[r] = "markdown"
    /\ \/ Good(r) /\ Onwards(r)
       \/ Bad(r) /\ Return(r, IF "head" \in want[r] THEN "prefixed" ELSE "error")
    /\ UNCHANGED <<job, want, got, cursor, deleted>>

\* The page is read once more for its address, whatever the status.
Finish(r) ==
    /\ pc[r] = "final"
    /\ \/ Read /\ Onwards(r)
       \/ Unread(r) /\ (Onwards(r) \/ Return(r, "error"))
    /\ UNCHANGED <<job, want, got, cursor, deleted>>

\* wait_for's limit, or a cancelled request: the call under way may be carried out.
Cut(r) ==
    /\ pc[r] \notin {"idle", "done"}
    /\ IF pc[r] \in Calls THEN Bad(r) ELSE Unread(r)
    /\ Return(r, "cut")
    /\ UNCHANGED <<job, want, got, cursor, deleted>>

\* A call nobody waits for is carried out after all.
Arrive ==
    /\ \E c \in Calls, r \in Run, b \in Block \cup {NoBlock} :
         <<c, r, b>> \in late /\ Applied(c, r, b) /\ late' = late \ {<<c, r, b>>}
    /\ UNCHANGED <<pc, job, want, got, cursor, deleted, answer, failed>>

Step(r) ==
    Start(r) \/ Look(r) \/ WriteHead(r) \/ FetchPage(r) \/ AppendBlocks(r) \/ DeleteBlock(r)
      \/ ReplaceBody(r) \/ Finish(r) \/ Cut(r)

Next == (\E r \in Run : Step(r)) \/ Arrive

Spec == Init /\ [][Next]_vars

------------------------------------------------------------------------------
(* Properties *)

\* The page ends with the content that was written last, whole and in order,
\* whichever runs update it at the same time and whichever of their calls fail
\* or arrive late: no run deletes what was written after it began to append,
\* and none deletes anything before its own content is there
\* (notion.py:487, "appended first, then the old blocks deleted").
NewestSurvives == IsSuffix(newest, body)

\* A run whose calls were all answered with 200 has read the whole body when it
\* stops reading, if the body did not change meanwhile (notion.py:234).
FetchIsWhole ==
    [][\A r \in Run : pc[r] = "fetch" /\ pc'[r] # "fetch" /\ r \notin moved /\ <<r, "fetch">> \notin failed' =>
         got'[r] = body]_vars

\* An update that returns a success, and whose calls were all answered with
\* 200, has removed every block that it had read.
ReplacedWhole ==
    \A r \in Run : answer[r] = "success" /\ job[r] = "update" /\ <<r, "delete">> \notin failed =>
        Range(got[r]) \cap Range(body) = {}

\* The error of update_row tells whether the properties were written: with the
\* prefix they were, without it they were not, unless the call that writes
\* them was itself not answered (notion_rows.py:322).
PrefixIsHonest ==
    \A r \in Run : job[r] = "row" =>
        /\ answer[r] = "prefixed" => r \in headed
        /\ answer[r] = "error" /\ <<r, "head">> \notin failed => r \notin headed

==============================================================================
