----------------------------- MODULE BasicBlocks -----------------------------
(***************************************************************************)
(* The basic blocks that LLVMCodeGenerator makes of a function's           *)
(* statements.  Each action is a piece of a generate...Stmt handler: from  *)
(* its start to the body it generates, or from the end of the body to its  *)
(* own end.  Next to the blocks, `live` tells whether an execution of the  *)
(* source gets to the same place.  A construct's body is a compound        *)
(* statement, one label name stands for all, and instructions that branch  *)
(* nowhere are left out.                                                   *)
(***************************************************************************)
EXTENDS Naturals, Sequences

CONSTANTS Functions, \* the number of functions of the module
          MaxDepth,  \* how deep statements nest, the function's body included
          MaxText    \* how many statements the functions have together

ASSUME BoundsAssumption ==
  Functions \in Nat \ {0} /\ MaxDepth \in Nat \ {0} /\ MaxText \in Nat

VARIABLES
  fn,        \* currentFunction_
  blocks,    \* the basic blocks, those of earlier functions included
  insert,    \* builder()->GetInsertBlock()
  back,      \* function->back(), the last block of the function's list
  label,     \* labelBlocks_[L], 0 if there is none
  open,      \* the handlers the generator is inside of
  live,      \* an execution of the source arrives here
  arrived,   \* an execution of the source gets to L
  used,      \* the function has a goto L
  defined,   \* the function has a label L
  revived,   \* a goto leads back to an L that no execution had got to
  text,      \* the statements so far
  careless   \* a terminator was not checked where one may be in the way

vars == <<fn, blocks, insert, back, label, open, live, arrived, used, defined,
          revived, text, careless>>
source == <<arrived, used, defined, revived>>

Block(owner) ==
  [fn |-> owner,
   ends |-> 0,          \* its terminators
   next |-> {},         \* the successors the first terminator names
   empty |-> TRUE,      \* size() == 0
   updates |-> FALSE,   \* contains the update of a for statement
   entered |-> 0]       \* for a forcond: the block that enters the loop

Loops == {"while", "for", "forever", "do", "foreach"}
Kinds == {"function", "block", "then", "else", "arm", "try", "catch"} \cup Loops

(* What a handler remembers while it generates a body. *)
Frame(k, after, continue, other, entry) ==
  [kind |-> k,
   after |-> after,       \* the block behind the construct
   continue |-> continue, \* continueTargets_.back(); finally or matchend
   other |-> other,       \* the block of the next part, or a loop's head
   entry |-> entry,       \* an execution gets to other
   goto |-> used,         \* a goto precedes the construct
   out |-> FALSE,         \* an execution has got to after
   again |-> FALSE]       \* an execution has got to continue

Top == open[Len(open)]
Inside(k) == open # <<>> /\ Top.kind = k

----------------------------------------------------------------------------
(* IRBuilder.  The code under construction, cg, is blocks, insert, back.   *)

cg == [blocks |-> blocks, at |-> insert, back |-> back]

Open(c) == c.blocks[c.at].ends = 0

(* CreateBr, CreateCondBr, CreateRet, CreateUnreachable *)
End(c, targets) ==
  LET b == c.blocks[c.at]
  IN  [c EXCEPT !.blocks[c.at] =
         [b EXCEPT !.ends = b.ends + 1, !.empty = FALSE,
                   !.next = IF b.ends = 0 THEN targets ELSE b.next]]

EndOpen(c, targets) == IF Open(c) THEN End(c, targets) ELSE c

(* BasicBlock::Create, n of them: the last is NewIn(c). *)
New(c, n) == [c EXCEPT !.blocks = @ \o [i \in 1..n |-> Block(fn)]]
Id(c, i)  == Len(c.blocks) + i

(* func->insert(func->end(), b); SetInsertPoint(b) *)
Place(c, b) == [c EXCEPT !.back = b, !.at = b]

(* generateCompoundStmt: statements behind a terminator get a dead block. *)
Ready == IF Open(cg) THEN cg ELSE Place(New(cg, 1), Id(cg, 1))

Emit(c) == blocks' = c.blocks /\ insert' = c.at /\ back' = c.back

Statement == open # <<>> /\ text < MaxText /\ text' = text + 1

Enter(k, after, continue, other, entry) ==
  /\ Statement /\ Len(open) < MaxDepth
  /\ open' = Append(open, Frame(k, after, continue, other, entry))
  /\ live' = live
  /\ UNCHANGED <<fn, label, source>>

Leave(l) ==
  /\ open' = SubSeq(open, 1, Len(open) - 1)
  /\ live' = l
  /\ UNCHANGED <<fn, label, source, text>>

(* The construct goes on with its next part, which l executions reach. *)
NextPart(frame, l) ==
  /\ Statement
  /\ open' = [open EXCEPT ![Len(open)] = [frame EXCEPT !.out = frame.out \/ live]]
  /\ live' = l
  /\ UNCHANGED <<fn, label, source>>

Checked == careless' = careless
Unchecked == careless' = (careless \/ ~Open(cg))

----------------------------------------------------------------------------
Init ==
  /\ fn = 0 /\ blocks = <<>> /\ insert = 0 /\ back = 0 /\ label = 0
  /\ open = <<>> /\ live = FALSE /\ text = 0 /\ careless = FALSE
  /\ arrived = FALSE /\ used = FALSE /\ defined = FALSE /\ revived = FALSE

(* labelBlocks_ keeps the labels of earlier functions: of their blocks,    *)
(* only that of the label matters any more.                                *)
BeginFunction ==
  /\ open = <<>> /\ fn < Functions
  /\ fn' = fn + 1
  /\ blocks' = Append(IF label = 0 THEN <<>>
                      ELSE <<[blocks[label] EXCEPT !.ends = 1, !.next = {},
                                                   !.entered = 0]>>,
                      Block(fn'))
  /\ label' = IF label = 0 THEN 0 ELSE 1
  /\ insert' = Len(blocks') /\ back' = Len(blocks')
  /\ open' = <<Frame("function", 0, 0, 0, FALSE)>>
  /\ live' = TRUE /\ careless' = FALSE
  /\ arrived' = FALSE /\ used' = FALSE /\ defined' = FALSE /\ revived' = FALSE
  /\ UNCHANGED text

(* The end of generateFunctionDecl looks at the last block of the list and *)
(* writes the return at the insert point.  analyzeFunctionDecl has made    *)
(* sure that the label is defined.                                         *)
EndFunction ==
  /\ Inside("function") /\ (used => defined)
  /\ Emit(IF blocks[back].ends = 0 THEN End(cg, {}) ELSE cg)
  /\ careless' = (careless \/ insert # back)
  /\ Leave(FALSE)

----------------------------------------------------------------------------
(* Simple statements *)

(* An instruction that is not the first of its block changes nothing here. *)
Straight ==
  /\ Statement /\ Ready.blocks[Ready.at].empty
  /\ Emit([Ready EXCEPT !.blocks[Ready.at].empty = FALSE])
  /\ UNCHANGED <<fn, label, open, live, source, careless>>

Return ==
  /\ Statement
  /\ Emit(End(Ready, {}))
  /\ live' = FALSE
  /\ UNCHANGED <<fn, label, open, source, careless>>

(* longjmp to the handler, or abort if there is none *)
Throw ==
  LET jump  == Id(Ready, 1)
      abort == Id(Ready, 2)
  IN  /\ Statement
      /\ Emit(End(Place(End(Place(End(New(Ready, 2), {jump, abort}),
                                  jump), {}), abort), {}))
      /\ live' = FALSE
      /\ UNCHANGED <<fn, label, open, source, careless>>

InnermostLoop ==
  {i \in DOMAIN open : /\ open[i].kind \in Loops
                       /\ \A j \in i + 1..Len(open) : open[j].kind \notin Loops}

(* Both leave a dead block behind. *)
LeaveFor(target) == Place(New(End(Ready, {target}), 1), Id(Ready, 1))

(* Mutant of Break: breakTargets_.front() for back(). *)
BreakOutermost ==
  \E i \in InnermostLoop, o \in DOMAIN open :
    /\ Statement
    /\ open[o].kind \in Loops /\ \A j \in 1..o - 1 : open[j].kind \notin Loops
    /\ Emit(LeaveFor(open[o].after))
    /\ open' = [open EXCEPT ![i].out = @ \/ live]
    /\ live' = FALSE
    /\ UNCHANGED <<fn, label, source, careless>>

Break ==
  \E i \in InnermostLoop :
    /\ Statement
    /\ Emit(LeaveFor(open[i].after))
    /\ open' = [open EXCEPT ![i].out = @ \/ live]
    /\ live' = FALSE
    /\ UNCHANGED <<fn, label, source, careless>>

Continue ==
  \E i \in InnermostLoop :
    /\ Statement
    /\ Emit(LeaveFor(open[i].continue))
    /\ open' = [open EXCEPT ![i].again = @ \/ live]
    /\ live' = FALSE
    /\ UNCHANGED <<fn, label, source, careless>>

Foreign == label # 0 /\ blocks[label].fn # fn

(* Mutant of Goto: the block is named before it is made. *)
GotoUncreated ==
  /\ Statement
  /\ Emit(End(Ready, {Id(Ready, 1)}))
  /\ label' = Id(Ready, 1)
  /\ used' = TRUE /\ arrived' = (arrived \/ live) /\ live' = FALSE
  /\ UNCHANGED <<fn, open, defined, revived, careless>>

(* A goto to a label not seen yet makes its block. *)
Goto ==
  LET b == IF label # 0 THEN label ELSE Id(Ready, 1)
      c == IF label # 0 THEN Ready
           ELSE [New(Ready, 1) EXCEPT !.back = b]
  IN  /\ Statement
      /\ Emit(End(c, {b}))
      /\ label' = b
      /\ used' = TRUE /\ arrived' = (arrived \/ live) /\ live' = FALSE
      /\ revived' = (revived \/ (defined /\ live /\ ~arrived))
      /\ careless' = (careless \/ Foreign)
      /\ UNCHANGED <<fn, open, defined>>

(* No goto enters a loop from outside. *)
Label ==
  LET b     == Id(Ready, 1)
      fresh == New(Ready, 1)
  IN  /\ Statement /\ ~defined
      /\ \A i \in InnermostLoop : ~open[i].goto
      /\ IF label = 0
         THEN Emit(Place(EndOpen(fresh, {b}), b)) /\ label' = b
         ELSE IF Ready.blocks[label].empty
         THEN /\ Emit([EndOpen(Ready, {label}) EXCEPT !.at = label])
              /\ label' = label
         ELSE Emit(Place(fresh, b)) /\ label' = b
      /\ defined' = TRUE /\ live' = (live \/ arrived) /\ arrived' = live'
      /\ careless' = (careless \/ Foreign)
      /\ UNCHANGED <<fn, open, used, revived>>

----------------------------------------------------------------------------
(* Blocks and branches *)

BeginBlock ==
  /\ Enter("block", 0, 0, 0, live)
  /\ Emit(Ready) /\ Checked

EndBlock ==
  /\ Inside("block")
  /\ Leave(live)
  /\ UNCHANGED <<blocks, insert, back, careless>>

BeginIf ==
  LET then  == Id(Ready, 1)
      else  == Id(Ready, 2)
      merge == Id(Ready, 3)
  IN  /\ Enter("then", merge, 0, else, live)
      /\ Emit(Place(End(New(Ready, 3), {then, else}), then)) /\ Checked

BeginElse ==
  /\ Inside("then")
  /\ Emit(Place(EndOpen(cg, {Top.after}), Top.other)) /\ Checked
  /\ NextPart([Top EXCEPT !.kind = "else"], Top.entry)

EndIf ==
  /\ Inside("else")
  /\ Emit(Place(EndOpen(cg, {Top.after}), Top.after)) /\ Checked
  /\ Leave(live \/ Top.out)

EndIfWithoutElse ==
  LET else == Place(EndOpen(cg, {Top.after}), Top.other)
  IN  /\ Inside("then")
      /\ Emit(Place(EndOpen(else, {Top.after}), Top.after)) /\ Checked
      /\ Leave(live \/ Top.entry)

----------------------------------------------------------------------------
(* Loops *)

(* An execution gets to the test at the head: into the loop or around it. *)
Tested == Top.entry \/ Top.again \/ live

BeginWhile ==
  LET cond  == Id(Ready, 1)
      body  == Id(Ready, 2)
      after == Id(Ready, 3)
      test  == Place(End(New(Ready, 3), {cond}), cond)
  IN  /\ Enter("while", after, cond, cond, live)
      /\ Emit(Place(End(test, {body, after}), body)) /\ Checked

EndWhile ==
  /\ Inside("while")
  /\ Emit(Place(End(cg, {Top.other}), Top.after)) /\ Unchecked
  /\ Leave(Tested \/ Top.out)

(* The condition and the update may be missing. *)
BeginFor ==
  \E guarded, updates \in BOOLEAN :
    LET cond  == Id(Ready, 1)
        body  == Id(Ready, 2)
        after == Id(Ready, 3)
        test  == Place(End(New(Ready, 3), {cond}), cond)
        head  == [test EXCEPT !.blocks[cond].entered =
                                IF updates THEN Ready.at ELSE 0]
    IN  /\ Enter(IF guarded THEN "for" ELSE "forever",
                 after, cond, cond, live)
        /\ Emit(Place(End(head, IF guarded THEN {body, after} ELSE {body}),
                      body)) /\ Checked

EndFor ==
  LET last == [cg EXCEPT !.blocks[insert].updates =
                           @ \/ blocks[Top.other].entered # 0]
  IN  /\ Inside("for") \/ Inside("forever")
      /\ Emit(Place(End(last, {Top.other}), Top.after)) /\ Unchecked
      /\ Leave((Top.kind = "for" /\ Tested) \/ Top.out)

BeginDo ==
  LET body  == Id(Ready, 1)
      cond  == Id(Ready, 2)
      after == Id(Ready, 3)
  IN  /\ Enter("do", after, cond, body, live)
      /\ Emit(Place(End(New(Ready, 3), {body}), body)) /\ Checked

(* Mutant of EndDo: no check for a terminator of the body. *)
EndDoUnchecked ==
  LET test == Place(End(cg, {Top.continue}), Top.continue)
  IN  /\ Inside("do")
      /\ Emit(Place(End(test, {Top.other, Top.after}), Top.after)) /\ Checked
      /\ Leave(live \/ Top.again \/ Top.out)

EndDo ==
  LET test == Place(EndOpen(cg, {Top.continue}), Top.continue)
  IN  /\ Inside("do")
      /\ Emit(Place(End(test, {Top.other, Top.after}), Top.after)) /\ Checked
      /\ Leave(live \/ Top.again \/ Top.out)

BeginForeach ==
  LET cond  == Id(Ready, 1)
      body  == Id(Ready, 2)
      step  == Id(Ready, 3)
      after == Id(Ready, 4)
      test  == Place(End(New(Ready, 4), {cond}), cond)
  IN  /\ Enter("foreach", after, step, cond, live)
      /\ Emit(Place(End(test, {body, after}), body)) /\ Checked

EndForeach ==
  LET step == Place(EndOpen(cg, {Top.continue}), Top.continue)
  IN  /\ Inside("foreach")
      /\ Emit(Place(End(step, {Top.other}), Top.after)) /\ Checked
      /\ Leave(Tested \/ Top.out)

----------------------------------------------------------------------------
(* match: an arm is tested in its check block, which goes on to the next   *)
(* check or, behind the last arm, to matchend (continue).  An arm that     *)
(* always matches tests nothing.                                           *)

Arm(c, check, body, following, always) ==
  Place(End(Place(c, check), IF always THEN {body} ELSE {body, following}),
        body)

BeginMatch ==
  \E last, always \in BOOLEAN :
    LET check == Id(Ready, 1)
        body  == Id(Ready, 2)
        end   == Id(Ready, 3)
        merge == Id(Ready, 4)
        following == IF last THEN end ELSE Id(Ready, 5)
        c     == End(New(Ready, IF last THEN 4 ELSE 5), {check})
    IN  /\ Enter("arm", merge, end, following, live /\ ~always)
        /\ Emit(Arm(c, check, body, following, always)) /\ Checked

NextArm ==
  \E last, always \in BOOLEAN :
    LET body      == Id(cg, 1)
        following == IF last THEN Top.continue ELSE Id(cg, 2)
        c         == New(EndOpen(cg, {Top.after}), IF last THEN 1 ELSE 2)
    IN  /\ Inside("arm") /\ Top.other # Top.continue
        /\ Emit(Arm(c, Top.other, body, following, always)) /\ Checked
        /\ NextPart([Top EXCEPT !.other = following,
                                !.entry = @ /\ ~always], Top.entry)

EndMatch ==
  LET end == Place(EndOpen(cg, {Top.after}), Top.continue)
  IN  /\ Inside("arm") /\ Top.other = Top.continue
      /\ Emit(Place(End(end, {Top.after}), Top.after)) /\ Checked
      /\ Leave(live \/ Top.entry \/ Top.out)

----------------------------------------------------------------------------
(* try: setjmp returns to the dispatch of the catches (other).  Both       *)
(* blocks of a catch join the function's list when they are made.          *)

Catch(c, dispatch, all) ==
  LET body == Id(c, 1)
      rest == Id(c, 2)
  IN  [End([New(c, 2) EXCEPT !.at = dispatch],
           IF all THEN {body} ELSE {body, rest})
         EXCEPT !.at = body, !.back = rest]

BeginTry ==
  LET try     == Id(Ready, 1)
      catch   == Id(Ready, 2)
      finally == Id(Ready, 3)
      end     == Id(Ready, 4)
  IN  /\ Enter("try", end, finally, catch, live)
      /\ Emit(Place(End(New(Ready, 4), {catch, try}), try)) /\ Checked

BeginCatch ==
  \E all \in BOOLEAN :
    LET finally == End(Place(EndOpen(cg, {Top.continue}), Top.continue),
                       {Top.after})
    IN  /\ Inside("try")
        /\ Emit(Catch(Place(finally, Top.other), Top.other, all)) /\ Checked
        /\ NextPart([Top EXCEPT !.kind = "catch", !.other = Len(blocks) + 2,
                                !.entry = @ /\ ~all], Top.entry)

NextCatch ==
  \E all \in BOOLEAN :
    /\ Inside("catch")
    /\ Emit(Catch(EndOpen(cg, {Top.after}), Top.other, all)) /\ Checked
    /\ NextPart([Top EXCEPT !.other = Len(blocks) + 2,
                            !.entry = @ /\ ~all], Top.entry)

(* What no catch matches is thrown on. *)
EndTry ==
  LET rethrow == Id(cg, 1)
      abort   == Id(cg, 2)
      c == [New(EndOpen(cg, {Top.after}), 2) EXCEPT !.at = Top.other]
  IN  /\ Inside("catch")
      /\ Emit(Place(End(Place(End(Place(End(c, {abort, rethrow}),
                rethrow), {}), abort), {}), Top.after)) /\ Checked
      /\ Leave(live \/ Top.out)

----------------------------------------------------------------------------
Next ==
  \/ BeginFunction \/ EndFunction
  \/ Straight \/ Return \/ Throw \/ Break \/ Continue \/ Goto \/ Label
  \/ BeginBlock \/ EndBlock
  \/ BeginIf \/ BeginElse \/ EndIf \/ EndIfWithoutElse
  \/ BeginWhile \/ EndWhile \/ BeginFor \/ EndFor
  \/ BeginDo \/ EndDo \/ BeginForeach \/ EndForeach
  \/ BeginMatch \/ NextArm \/ EndMatch
  \/ BeginTry \/ BeginCatch \/ NextCatch \/ EndTry

Spec == Init /\ [][Next]_vars

----------------------------------------------------------------------------
Ids == 1..Len(blocks)
Own == {b \in Ids : blocks[b].fn = fn}
Finished == open = <<>> /\ fn # 0

(* The blocks an execution of the generated code gets to: the function's   *)
(* first one, and on from there.                                           *)
Entry == {b \in Own : \A o \in Own : b <= o}
Onward(before) == before \cup UNION {blocks[b].next : b \in before}

Reached ==
  LET step[n \in 0..Len(blocks)] ==
        IF n = 0 THEN Entry ELSE Onward(step[n - 1])
  IN  step[Len(blocks)]

(* Every variable has its type: the insert point, the label, targets and   *)
(* successors are blocks that the generator has made.                      *)
TypeOK ==
  /\ fn \in 0..Functions /\ text \in 0..MaxText
  /\ blocks \in Seq([fn: 1..Functions, ends: Nat, next: SUBSET Ids,
                     empty: BOOLEAN, updates: BOOLEAN, entered: 0..Len(blocks)])
  /\ {insert, back, label} \subseteq 0..Len(blocks)
  /\ \A i \in DOMAIN open :
       /\ open[i].kind \in Kinds /\ (open[i].kind = "function") = (i = 1)
       /\ {open[i].after, open[i].continue, open[i].other}
            \subseteq 0..Len(blocks)
       /\ {open[i].entry, open[i].goto, open[i].out, open[i].again} \subseteq BOOLEAN
  /\ {live, arrived, used, defined, revived, careless} \subseteq BOOLEAN

(* What LLVM's verifier asks of a finished function: every block ends in   *)
(* its only terminator and branches inside the function.                   *)
Accepted == \A b \in Own : blocks[b].ends = 1 /\ blocks[b].next \subseteq Own

(* A function is well formed, dead blocks included, unless a while or for  *)
(* body ends in a terminator, the last label's block is not the last of    *)
(* the list, or a label has the name of an earlier function's.             *)
WellFormed == Finished /\ ~careless => Accepted

(* The generated code gets to the next statement exactly when the source   *)
(* does: no merge, dispatch or dead block drops a path or adds one, and    *)
(* break, continue and goto go where the statement says.  A goto that      *)
(* leads back into dead text makes statements live that were generated     *)
(* dead, for which live is not corrected.                                  *)
PathsKept ==
  open # <<>> /\ ~careless /\ ~revived =>
    live = (insert \in Reached /\ blocks[insert].ends = 0)

(* Every function is well formed: Goto语句设计.md:115 writes functions that  *)
(* end in a label.  The code does not satisfy it.                          *)
VerifierAccepts == Finished => Accepted

(* The update of a for statement runs after every iteration                *)
(* (语言语句规范.md:346), also after one that continue cuts short.  The code *)
(* does not satisfy it.                                                    *)
UpdateAfterIteration ==
  \A c \in Ids : blocks[c].entered # 0 =>
    \A b \in Ids \ {blocks[c].entered} :
      c \in blocks[b].next => blocks[b].updates
=============================================================================
