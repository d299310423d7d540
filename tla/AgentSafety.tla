--------------------------- MODULE AgentSafety ---------------------------
(***************************************************************************)
(* Safety of what agents do, for every instance: the tools with which they *)
(* work on files and run commands (CodingTools), a session with its        *)
(* retries and its file (AgentSession), an agent node of a workflow with   *)
(* its approvals (AgentNode), a meeting of agents (Roundtable), and what a *)
(* browser shows of a session (EventStream).                               *)
(*                                                                         *)
(* Each part gives the specification of its component, the inductive       *)
(* invariant, the lemmas for its actions and the theorem.                  *)
(***************************************************************************)
EXTENDS CodingTools, AgentSession, AgentNode, Roundtable, EventStream, SequenceTheorems, TLAPS

CgSpec == CgInit /\ [][CgNext]_cgVars

-----------------------------------------------------------------------------
(***************************************************************************)
(* CodingTools: the invariant.                                             *)
(***************************************************************************)
CgPlaces == {"new", "read", "write", "opened", "wait", "run", "running", "over"}

CgStatus == {"none", "pending", "approved", "rejected", "timeout"}
CgRequest == [status : CgStatus, pooled : BOOLEAN, set : BOOLEAN, due : BOOLEAN, fired : BOOLEAN]

\* Types the definitions rely on; a call is where one of its kind can be.
CgShape ==
  /\ cgPc \in [CgCalls -> CgPlaces]
  /\ cgSaid \in [CgCalls -> {"", "done", "error"}]
  /\ cgCard \in [CgCalls -> {"", "asked", "approved", "rejected", "timeout"}]
  /\ cgReq \in [CgCalls -> CgRequest]
  /\ DOMAIN cgText = CgCalls /\ DOMAIN cgPut = CgCalls
  /\ cgText = [c \in CgCalls |-> cgText[c]] /\ cgPut = [c \in CgCalls |-> cgPut[c]]
  /\ \A c \in CgCalls :
       /\ cgPc[c] \in {"read", "write", "opened"} => CgKind[c] \in {"write", "edit"}
       /\ cgPc[c] = "wait" => CgKind[c] = "command"
       /\ cgPc[c] \in {"run", "running"} => CgKind[c] \in {"command", "free"}

Open == {c \in CgCalls : cgPc[c] = "opened"}

\* What a call has put in place is in what it is to write; once it has said so it
\* is in the file, was written over, or is in a text that is being written.
CgTexts ==
  \A c \in CgCalls :
    /\ cgPut[c] # {} => cgPc[c] \in {"write", "opened", "over"}
    /\ cgPc[c] \in {"write", "opened"} => cgPut[c] \subseteq cgText[c]
    /\ cgSaid[c] = "done" =>
         /\ cgPc[c] = "over"
         /\ cgPut[c] \subseteq cgFile \cup cgOver \cup UNION {cgText[d] : d \in Open}

\* What became of a request, and of the command it is about.
AskedOf(c) ==
  LET r == cgReq[c] IN
  /\ r.pooled = (r.status = "pending")
  /\ r.status \in {"none", "pending"} => ~r.set /\ c \notin cgYes \cup cgNo /\ cgCard[c] # "approved"
  /\ r.status = "approved" => c \in cgYes /\ c \notin cgNo /\ cgCard[c] = "approved"
  /\ r.status = "rejected" => c \notin cgYes /\ cgCard[c] = "rejected"
  /\ r.status = "timeout"  => cgCard[c] # "approved" /\ (c \in cgYes => r.fired)
  /\ r.status # "none" => CgKind[c] = "command" /\ cgPc[c] # "new"
  /\ r.set /\ cgPc[c] = "wait" => r.status \in {"approved", "rejected"}
  /\ r.pooled => cgPc[c] = "wait" \/ c \in cgStopped
  /\ cgPc[c] = "running" => c \in cgRan
  /\ c \in cgRan => cgPc[c] \in {"running", "over"}
  /\ CgKind[c] = "command" /\ (cgPc[c] \in {"run", "running"} \/ c \in cgRan) => r.status = "approved"
  /\ r.status = "approved" /\ cgPc[c] = "over" /\ c \notin cgStopped => c \in cgRan
CgAsked == \A c \in CgCalls : AskedOf(c)

CgInv == CgShape /\ CgTexts /\ CgAsked

-----------------------------------------------------------------------------
(***************************************************************************)
(* CodingTools: one lemma per action.                                      *)
(***************************************************************************)
\* The invariant says what it is to say.
LEMMA CodingOfInv == CgInv => CodingKept
<1>. SUFFICES ASSUME CgInv PROVE CodingKept  OBVIOUS
<1>1. EditsKept
  <2>. SUFFICES ASSUME \A c \in CgCalls : cgPc[c] # "opened", NEW c \in CgCalls, cgSaid[c] = "done"
                PROVE  cgPut[c] \subseteq cgFile \cup cgOver
    BY DEF EditsKept
  <2>1. Open = {}  BY DEF Open
  <2>. QED  BY <2>1 DEF CgInv, CgTexts
<1>2. CommandsAsked
  <2>. SUFFICES ASSUME NEW c \in CgCalls, CgKind[c] = "command"
                PROVE  /\ c \in cgRan => c \in cgYes /\ c \notin cgNo
                       /\ cgPc[c] = "over" /\ c \notin cgStopped =>
                            /\ c \in cgYes /\ ~cgReq[c].fired => c \in cgRan
                            /\ (cgCard[c] = "approved") = (c \in cgRan)
                       /\ cgReq[c].pooled => cgPc[c] = "wait" \/ c \in cgStopped
    BY DEF CommandsAsked
  <2>1. cgReq[c].status \in CgStatus  BY DEF CgInv, CgShape, CgRequest
  <2>2. /\ cgReq[c].status \in {"none", "pending"} => c \notin cgYes /\ cgCard[c] # "approved"
        /\ cgReq[c].status = "approved" => c \in cgYes /\ c \notin cgNo /\ cgCard[c] = "approved"
        /\ cgReq[c].status = "rejected" => c \notin cgYes /\ cgCard[c] = "rejected"
        /\ cgReq[c].status = "timeout"  => cgCard[c] # "approved" /\ (c \in cgYes => cgReq[c].fired)
        /\ cgReq[c].pooled => cgPc[c] = "wait" \/ c \in cgStopped
        /\ c \in cgRan => cgReq[c].status = "approved"
        /\ cgReq[c].status = "approved" /\ cgPc[c] = "over" /\ c \notin cgStopped => c \in cgRan
    BY DEF CgInv, CgAsked, AskedOf
  <2>. QED  BY <2>1, <2>2 DEF CgStatus
<1>. QED  BY <1>1, <1>2 DEF CodingKept

LEMMA CgInitInv == CgInit => CgInv
<1>. SUFFICES ASSUME CgInit PROVE CgInv  OBVIOUS
<1>1. CgShape  BY DEF CgInit, CgShape, CgPlaces, CgRequest, CgStatus, NothingAsked
<1>2. CgTexts  BY DEF CgInit, CgTexts
<1>3. CgAsked  BY DEF CgInit, CgAsked, AskedOf, NothingAsked
<1>. QED  BY <1>1, <1>2, <1>3 DEF CgInv

\* A step on a file by one call: nothing that was asked changes.
LEMMA AskedBeside ==
  ASSUME CgInv, NEW c \in CgCalls, NEW to \in {"read", "write", "opened", "over"},
         CgKind[c] \in {"write", "edit"}, cgPc[c] \in {"new", "read", "write", "opened"},
         cgPc' = [cgPc EXCEPT ![c] = to], CgBesideFiles
  PROVE  CgAsked'
<1>1. cgPc \in [CgCalls -> CgPlaces]  BY DEF CgInv, CgShape
<1>2. cgReq' = cgReq /\ cgCard' = cgCard /\ cgYes' = cgYes /\ cgNo' = cgNo /\ cgRan' = cgRan /\ cgStopped' = cgStopped
  BY DEF CgBesideFiles, cgAsking
<1>3. CgAsked  BY DEF CgInv
<1>4. cgReq[c].status = "none" /\ ~cgReq[c].pooled /\ c \notin cgRan  BY <1>3 DEF CgAsked, AskedOf
<1>5. c \notin cgYes \cup cgNo /\ ~cgReq[c].set /\ cgCard[c] # "approved"  BY <1>3, <1>4 DEF CgAsked, AskedOf
<1>6. cgPc'[c] = to /\ \A d \in CgCalls : d # c => cgPc'[d] = cgPc[d]  BY <1>1
<1>. QED  BY <1>2, <1>3, <1>4, <1>5, <1>6 DEF CgAsked, AskedOf

\* A step of a command: the files are as they were.
LEMMA TextsBeside ==
  ASSUME CgInv, NEW c \in CgCalls, NEW to \in {"wait", "run", "running", "over"},
         cgPc[c] \in {"new", "wait", "run", "running"}, cgPc' = [cgPc EXCEPT ![c] = to],
         cgFiles' = cgFiles, \A d \in CgCalls : cgSaid'[d] # cgSaid[d] => d = c /\ to = "over"
  PROVE  CgTexts'
<1>1. cgPc \in [CgCalls -> CgPlaces]  BY DEF CgInv, CgShape
<1>2. cgFile' = cgFile /\ cgText' = cgText /\ cgPut' = cgPut /\ cgOver' = cgOver  BY DEF cgFiles
<1>3. cgPc'[c] = to /\ \A d \in CgCalls : d # c => cgPc'[d] = cgPc[d]  BY <1>1
<1>4. Open' = Open  BY <1>3 DEF Open
<1>5. CgTexts  BY DEF CgInv
<1>6. cgPut[c] = {} /\ cgSaid[c] # "done"  BY <1>5 DEF CgTexts
<1>. SUFFICES ASSUME NEW d \in CgCalls
              PROVE  /\ cgPut[d] # {} => cgPc'[d] \in {"write", "opened", "over"}
                     /\ cgPc'[d] \in {"write", "opened"} => cgPut[d] \subseteq cgText[d]
                     /\ cgSaid'[d] = "done" =>
                          /\ cgPc'[d] = "over"
                          /\ cgPut[d] \subseteq cgFile \cup cgOver \cup UNION {cgText[e] : e \in Open}
  BY <1>2, <1>4 DEF CgTexts
<1>7. CASE d = c  BY <1>3, <1>6, <1>7
<1>8. CASE d # c  BY <1>3, <1>5, <1>8 DEF CgTexts
<1>. QED  BY <1>7, <1>8

\* What a call says changes what it said.
LEMMA SaysOnly ==
  ASSUME CgShape, NEW c \in CgCalls, NEW what \in {"", "done", "error"}, Says(c, what)
  PROVE  /\ cgSaid' \in [CgCalls -> {"", "done", "error"}]
         /\ \A d \in CgCalls : d # c => cgSaid'[d] = cgSaid[d]
         /\ cgSaid'[c] = (IF c \in cgStopped THEN cgSaid[c] ELSE what)
BY DEF CgShape, Says

\* The shape, when one call goes on and the rest of the state has its types.
LEMMA ShapeAfter ==
  ASSUME CgShape, NEW c \in CgCalls, NEW to \in CgPlaces, cgPc' = [cgPc EXCEPT ![c] = to],
         to \in {"read", "write", "opened"} => CgKind[c] \in {"write", "edit"},
         to = "wait" => CgKind[c] = "command",
         to \in {"run", "running"} => CgKind[c] \in {"command", "free"},
         cgSaid' \in [CgCalls -> {"", "done", "error"}],
         cgCard' \in [CgCalls -> {"", "asked", "approved", "rejected", "timeout"}],
         cgReq' \in [CgCalls -> CgRequest],
         DOMAIN cgText' = CgCalls, DOMAIN cgPut' = CgCalls,
         cgText' = [d \in CgCalls |-> cgText'[d]], cgPut' = [d \in CgCalls |-> cgPut'[d]]
  PROVE  CgShape'
<1>1. cgPc \in [CgCalls -> CgPlaces]  BY DEF CgShape
<1>2. cgPc' \in [CgCalls -> CgPlaces] /\ cgPc'[c] = to /\ \A d \in CgCalls : d # c => cgPc'[d] = cgPc[d]  BY <1>1
<1>. QED  BY <1>2 DEF CgShape

LEMMA RefusedKeeps == CgInv /\ CgRefused => CgInv'
<1>. SUFFICES ASSUME CgInv, CgRefused PROVE CgInv'  OBVIOUS
<1>1. PICK c \in CgCalls : CgKind[c] \in {"write", "edit"} /\ CallGoes(c, "new", "over") /\ Says(c, "error")
  BY DEF CgRefused
<1>2. cgPc[c] = "new" /\ cgPc' = [cgPc EXCEPT ![c] = "over"]  BY <1>1 DEF CallGoes
<1>3. cgFiles' = cgFiles /\ CgBesideFiles  BY DEF CgRefused
<1>4. CgShape  BY DEF CgInv
<1>5. /\ cgSaid' \in [CgCalls -> {"", "done", "error"}]
      /\ \A d \in CgCalls : d # c => cgSaid'[d] = cgSaid[d]
  BY <1>1, <1>4, SaysOnly
<1>6. CgShape'
  BY <1>1, <1>2, <1>3, <1>4, <1>5, ShapeAfter DEF CgShape, CgPlaces, CgBesideFiles, cgAsking, cgFiles
<1>7. CgTexts'  BY <1>2, <1>3, <1>5, TextsBeside
<1>8. CgAsked'  BY <1>1, <1>2, <1>3, AskedBeside
<1>. QED  BY <1>6, <1>7, <1>8 DEF CgInv

LEMMA WritesKeeps == CgInv /\ CgWrites => CgInv'
<1>. SUFFICES ASSUME CgInv, CgWrites PROVE CgInv'  OBVIOUS
<1>1. PICK c \in CgCalls :
        /\ CgKind[c] = "write" /\ CallGoes(c, "new", "write")
        /\ cgText' = [cgText EXCEPT ![c] = {<<c, 0>>}] /\ cgPut' = [cgPut EXCEPT ![c] = {<<c, 0>>}]
  BY DEF CgWrites
<1>2. cgPc[c] = "new" /\ cgPc' = [cgPc EXCEPT ![c] = "write"]  BY <1>1 DEF CallGoes
<1>3. cgFile' = cgFile /\ cgOver' = cgOver /\ cgSaid' = cgSaid /\ CgBesideFiles  BY DEF CgWrites
<1>4. CgShape /\ CgTexts  BY DEF CgInv
<1>5. DOMAIN cgText = CgCalls /\ DOMAIN cgPut = CgCalls /\ cgPc \in [CgCalls -> CgPlaces]  BY <1>4 DEF CgShape
<1>6. CgShape'
  BY <1>1, <1>2, <1>3, <1>4, <1>5, ShapeAfter DEF CgShape, CgPlaces, CgBesideFiles, cgAsking
<1>7. /\ cgPc'[c] = "write" /\ cgText'[c] = {<<c, 0>>} /\ cgPut'[c] = {<<c, 0>>}
      /\ \A d \in CgCalls : d # c => cgPc'[d] = cgPc[d] /\ cgText'[d] = cgText[d] /\ cgPut'[d] = cgPut[d]
  BY <1>1, <1>2, <1>5
<1>8. cgSaid[c] # "done"  BY <1>2, <1>4 DEF CgTexts
<1>9. UNION {cgText[d] : d \in Open} = (UNION {cgText[d] : d \in Open})'  BY <1>2, <1>7 DEF Open
<1>10. CgTexts'
  <2>. SUFFICES ASSUME NEW d \in CgCalls
                PROVE  /\ cgPut'[d] # {} => cgPc'[d] \in {"write", "opened", "over"}
                       /\ cgPc'[d] \in {"write", "opened"} => cgPut'[d] \subseteq cgText'[d]
                       /\ cgSaid[d] = "done" =>
                            /\ cgPc'[d] = "over"
                            /\ cgPut'[d] \subseteq cgFile \cup cgOver \cup UNION {cgText[e] : e \in Open}
    BY <1>3, <1>9 DEF CgTexts
  <2>1. CASE d = c  BY <2>1, <1>7, <1>8
  <2>2. CASE d # c  BY <2>2, <1>4, <1>7 DEF CgTexts
  <2>. QED  BY <2>1, <2>2
<1>11. CgAsked'  BY <1>1, <1>2, <1>3, AskedBeside
<1>. QED  BY <1>6, <1>10, <1>11 DEF CgInv

LEMMA ReadsKeeps == CgInv /\ CgReads => CgInv'
<1>. SUFFICES ASSUME CgInv, CgReads PROVE CgInv'  OBVIOUS
<1>1. PICK c \in CgCalls :
        CgKind[c] = "edit" /\ CallGoes(c, "new", "read") /\ cgText' = [cgText EXCEPT ![c] = cgFile]
  BY DEF CgReads
<1>2. cgPc[c] = "new" /\ cgPc' = [cgPc EXCEPT ![c] = "read"]  BY <1>1 DEF CallGoes
<1>3. cgFile' = cgFile /\ cgOver' = cgOver /\ cgSaid' = cgSaid /\ cgPut' = cgPut /\ CgBesideFiles  BY DEF CgReads
<1>4. CgShape /\ CgTexts  BY DEF CgInv
<1>5. DOMAIN cgText = CgCalls /\ cgPc \in [CgCalls -> CgPlaces]  BY <1>4 DEF CgShape
<1>6. CgShape'
  BY <1>1, <1>2, <1>3, <1>4, <1>5, ShapeAfter DEF CgShape, CgPlaces, CgBesideFiles, cgAsking
<1>7. /\ cgPc'[c] = "read"
      /\ \A d \in CgCalls : d # c => cgPc'[d] = cgPc[d] /\ cgText'[d] = cgText[d]
  BY <1>1, <1>2, <1>5
<1>8. cgSaid[c] # "done" /\ cgPut[c] = {}  BY <1>2, <1>4 DEF CgTexts
<1>9. UNION {cgText[d] : d \in Open} = (UNION {cgText[d] : d \in Open})'  BY <1>2, <1>7 DEF Open
<1>10. CgTexts'
  <2>. SUFFICES ASSUME NEW d \in CgCalls
                PROVE  /\ cgPut[d] # {} => cgPc'[d] \in {"write", "opened", "over"}
                       /\ cgPc'[d] \in {"write", "opened"} => cgPut[d] \subseteq cgText'[d]
                       /\ cgSaid[d] = "done" =>
                            /\ cgPc'[d] = "over"
                            /\ cgPut[d] \subseteq cgFile \cup cgOver \cup UNION {cgText[e] : e \in Open}
    BY <1>3, <1>9 DEF CgTexts
  <2>1. CASE d = c  BY <2>1, <1>7, <1>8
  <2>2. CASE d # c  BY <2>2, <1>4, <1>7 DEF CgTexts
  <2>. QED  BY <2>1, <2>2
<1>11. CgAsked'  BY <1>1, <1>2, <1>3, AskedBeside
<1>. QED  BY <1>6, <1>10, <1>11 DEF CgInv

LEMMA AppliesKeeps == CgInv /\ CgApplies => CgInv'
<1>. SUFFICES ASSUME CgInv, CgApplies PROVE CgInv'  OBVIOUS
<1>1. PICK c \in CgCalls :
        \/ Placed(c) = {} /\ CallGoes(c, "read", "over") /\ Says(c, "error") /\ UNCHANGED <<cgText, cgPut>>
        \/ /\ Placed(c) # {} /\ CallGoes(c, "read", "write") /\ UNCHANGED cgSaid
           /\ cgPut' = [cgPut EXCEPT ![c] = Placed(c)] /\ cgText' = [cgText EXCEPT ![c] = Rewritten(c)]
  BY DEF CgApplies
<1>2. PICK to \in {"over", "write"} : cgPc[c] = "read" /\ cgPc' = [cgPc EXCEPT ![c] = to]  BY <1>1 DEF CallGoes
<1>3. cgFile' = cgFile /\ cgOver' = cgOver /\ CgBesideFiles  BY DEF CgApplies
<1>4. CgShape /\ CgTexts  BY DEF CgInv
<1>5. DOMAIN cgText = CgCalls /\ DOMAIN cgPut = CgCalls /\ cgPc \in [CgCalls -> CgPlaces]  BY <1>4 DEF CgShape
<1>6. /\ cgSaid' \in [CgCalls -> {"", "done", "error"}]
      /\ \A d \in CgCalls : d # c => cgSaid'[d] = cgSaid[d]
      /\ cgSaid'[c] = "done" => cgSaid[c] = "done"
  BY <1>1, <1>4, SaysOnly DEF CgShape
<1>7. CgKind[c] \in {"write", "edit"}  BY <1>2, <1>4 DEF CgShape
<1>8. CgShape'
  BY <1>1, <1>2, <1>3, <1>4, <1>5, <1>6, <1>7, ShapeAfter DEF CgShape, CgPlaces, CgBesideFiles, cgAsking
<1>9. /\ cgPc'[c] = to
      /\ \A d \in CgCalls : d # c => cgPc'[d] = cgPc[d] /\ cgText'[d] = cgText[d] /\ cgPut'[d] = cgPut[d]
  BY <1>1, <1>2, <1>5
<1>10. cgPut'[c] \subseteq cgText'[c] \/ cgPut'[c] = {}
  <2>1. cgPut[c] = {}  BY <1>2, <1>4 DEF CgTexts
  <2>2. Placed(c) \subseteq Rewritten(c)  BY DEF Placed, Rewritten
  <2>. QED  BY <1>1, <1>5, <2>1, <2>2
<1>11. cgSaid'[c] # "done"  BY <1>2, <1>4, <1>6 DEF CgTexts
<1>12. UNION {cgText[d] : d \in Open} = (UNION {cgText[d] : d \in Open})'  BY <1>2, <1>9 DEF Open
<1>13. CgTexts'
  <2>. SUFFICES ASSUME NEW d \in CgCalls
                PROVE  /\ cgPut'[d] # {} => cgPc'[d] \in {"write", "opened", "over"}
                       /\ cgPc'[d] \in {"write", "opened"} => cgPut'[d] \subseteq cgText'[d]
                       /\ cgSaid'[d] = "done" =>
                            /\ cgPc'[d] = "over"
                            /\ cgPut'[d] \subseteq cgFile \cup cgOver \cup UNION {cgText[e] : e \in Open}
    BY <1>3, <1>12 DEF CgTexts
  <2>1. CASE d = c  BY <2>1, <1>9, <1>10, <1>11
  <2>2. CASE d # c  BY <2>2, <1>4, <1>6, <1>9 DEF CgTexts
  <2>. QED  BY <2>1, <2>2
<1>14. CgAsked'  BY <1>2, <1>3, <1>7, AskedBeside
<1>. QED  BY <1>8, <1>13, <1>14 DEF CgInv

\* What is in the file when it is opened is kept with the text of the call that opened
\* it, or is counted as written over.
LEMMA OpensKeeps == CgInv /\ CgOpens => CgInv'
<1>. SUFFICES ASSUME CgInv, CgOpens PROVE CgInv'  OBVIOUS
<1>1. PICK c \in CgCalls : CallGoes(c, "write", "opened") /\ cgFile' = {} /\ cgOver' = cgOver \cup Unseen(c)
  BY DEF CgOpens
<1>2. cgPc[c] = "write" /\ cgPc' = [cgPc EXCEPT ![c] = "opened"]  BY <1>1 DEF CallGoes
<1>3. cgText' = cgText /\ cgPut' = cgPut /\ cgSaid' = cgSaid /\ CgBesideFiles  BY DEF CgOpens
<1>4. CgShape /\ CgTexts  BY DEF CgInv
<1>5. cgPc \in [CgCalls -> CgPlaces] /\ CgKind[c] \in {"write", "edit"}  BY <1>2, <1>4 DEF CgShape
<1>6. CgShape'
  BY <1>2, <1>3, <1>4, <1>5, ShapeAfter DEF CgShape, CgPlaces, CgBesideFiles, cgAsking
<1>7. cgPc'[c] = "opened" /\ \A d \in CgCalls : d # c => cgPc'[d] = cgPc[d]  BY <1>2, <1>5
<1>8. Open' = Open \cup {c}  BY <1>7 DEF Open
<1>9. cgFile \cup cgOver \cup UNION {cgText[d] : d \in Open}
        \subseteq (cgFile \cup cgOver \cup UNION {cgText[d] : d \in Open})'
  <2>1. cgFile \subseteq cgOver' \cup cgText[c]  BY <1>1 DEF Unseen
  <2>2. cgText[c] \subseteq UNION {cgText[d] : d \in Open'}  BY <1>8
  <2>3. UNION {cgText[d] : d \in Open} \subseteq UNION {cgText[d] : d \in Open'}  BY <1>8
  <2>4. cgOver \subseteq cgOver'  BY <1>1
  <2>. QED  BY <1>3, <2>1, <2>2, <2>3, <2>4
<1>10. CgTexts'
  <2>. SUFFICES ASSUME NEW d \in CgCalls
                PROVE  /\ cgPut[d] # {} => cgPc'[d] \in {"write", "opened", "over"}
                       /\ cgPc'[d] \in {"write", "opened"} => cgPut[d] \subseteq cgText[d]
                       /\ cgSaid[d] = "done" =>
                            /\ cgPc'[d] = "over"
                            /\ cgPut[d] \subseteq (cgFile \cup cgOver \cup UNION {cgText[e] : e \in Open})'
    BY <1>3 DEF CgTexts
  <2>1. /\ cgPut[d] # {} => cgPc[d] \in {"write", "opened", "over"}
        /\ cgPc[d] \in {"write", "opened"} => cgPut[d] \subseteq cgText[d]
        /\ cgSaid[d] = "done" =>
             cgPc[d] = "over" /\ cgPut[d] \subseteq cgFile \cup cgOver \cup UNION {cgText[e] : e \in Open}
    BY <1>4 DEF CgTexts
  <2>2. cgSaid[d] = "done" => cgPut[d] \subseteq (cgFile \cup cgOver \cup UNION {cgText[e] : e \in Open})'
    BY <1>9, <2>1
  <2>. QED  BY <1>2, <1>7, <2>1, <2>2
<1>11. CgAsked'  BY <1>2, <1>3, <1>5, AskedBeside
<1>. QED  BY <1>6, <1>10, <1>11 DEF CgInv

LEMMA FillsKeeps == CgInv /\ CgFills => CgInv'
<1>. SUFFICES ASSUME CgInv, CgFills PROVE CgInv'  OBVIOUS
<1>1. PICK c \in CgCalls :
        \/ /\ CallGoes(c, "opened", "over") /\ Says(c, "done")
           /\ cgFile' = cgText[c] /\ cgOver' = cgOver \cup Unseen(c)
        \/ /\ CallGoes(c, "opened", "over") /\ Says(c, "error")
           /\ cgFile' = cgFile /\ cgOver' = cgOver \cup cgText[c]
  BY DEF CgFills
<1>2. cgPc[c] = "opened" /\ cgPc' = [cgPc EXCEPT ![c] = "over"]  BY <1>1 DEF CallGoes
<1>3. cgText' = cgText /\ cgPut' = cgPut /\ CgBesideFiles  BY DEF CgFills
<1>4. CgShape /\ CgTexts  BY DEF CgInv
<1>5. cgPc \in [CgCalls -> CgPlaces] /\ CgKind[c] \in {"write", "edit"}  BY <1>2, <1>4 DEF CgShape
<1>6. /\ cgSaid' \in [CgCalls -> {"", "done", "error"}]
      /\ \A d \in CgCalls : d # c => cgSaid'[d] = cgSaid[d]
  BY <1>1, <1>4, SaysOnly
<1>7. CgShape'
  BY <1>2, <1>3, <1>4, <1>5, <1>6, ShapeAfter DEF CgShape, CgPlaces, CgBesideFiles, cgAsking
<1>8. cgPc'[c] = "over" /\ \A d \in CgCalls : d # c => cgPc'[d] = cgPc[d]  BY <1>2, <1>5
<1>9. Open = Open' \cup {c}  BY <1>2, <1>8 DEF Open
<1>10. cgText[c] \subseteq cgFile' \cup cgOver'  BY <1>1
<1>11. cgFile \cup cgOver \cup UNION {cgText[d] : d \in Open}
         \subseteq (cgFile \cup cgOver \cup UNION {cgText[d] : d \in Open})'
  <2>1. cgFile \subseteq cgFile' \cup cgOver' /\ cgOver \subseteq cgOver'  BY <1>1 DEF Unseen
  <2>2. UNION {cgText[d] : d \in Open} = cgText[c] \cup UNION {cgText[d] : d \in Open'}  BY <1>9
  <2>. QED  BY <1>3, <1>10, <2>1, <2>2
<1>12. CgTexts'
  <2>. SUFFICES ASSUME NEW d \in CgCalls
                PROVE  /\ cgPut[d] # {} => cgPc'[d] \in {"write", "opened", "over"}
                       /\ cgPc'[d] \in {"write", "opened"} => cgPut[d] \subseteq cgText[d]
                       /\ cgSaid'[d] = "done" =>
                            /\ cgPc'[d] = "over"
                            /\ cgPut[d] \subseteq (cgFile \cup cgOver \cup UNION {cgText[e] : e \in Open})'
    BY <1>3 DEF CgTexts
  <2>1. /\ cgPut[d] # {} => cgPc[d] \in {"write", "opened", "over"}
        /\ cgPc[d] \in {"write", "opened"} => cgPut[d] \subseteq cgText[d]
        /\ cgSaid[d] = "done" =>
             cgPc[d] = "over" /\ cgPut[d] \subseteq cgFile \cup cgOver \cup UNION {cgText[e] : e \in Open}
    BY <1>4 DEF CgTexts
  <2>2. CASE d = c
    <3>1. cgPut[c] \subseteq cgFile' \cup cgOver'  BY <1>2, <1>10, <2>1, <2>2
    <3>. QED  BY <1>8, <2>2, <3>1
  <2>3. CASE d # c
    <3>1. cgSaid[d] = "done" => cgPut[d] \subseteq (cgFile \cup cgOver \cup UNION {cgText[e] : e \in Open})'
      BY <1>11, <2>1
    <3>. QED  BY <1>6, <1>8, <2>1, <2>3, <3>1
  <2>. QED  BY <2>2, <2>3
<1>13. CgAsked'  BY <1>2, <1>3, <1>5, AskedBeside
<1>. QED  BY <1>7, <1>12, <1>13 DEF CgInv

\* A step that is about one command leaves the others as they are.
LEMMA AskedAfter ==
  ASSUME CgAsked, NEW c \in CgCalls, AskedOf(c)',
         \A d \in CgCalls : d # c =>
            /\ cgReq'[d] = cgReq[d] /\ cgCard'[d] = cgCard[d] /\ cgPc'[d] = cgPc[d]
            /\ (d \in cgYes') = (d \in cgYes) /\ (d \in cgNo') = (d \in cgNo)
            /\ (d \in cgRan') = (d \in cgRan) /\ (d \in cgStopped') = (d \in cgStopped)
  PROVE  CgAsked'
<1>. SUFFICES ASSUME NEW d \in CgCalls, d # c PROVE AskedOf(d)'  BY DEF CgAsked
<1>1. AskedOf(d)  BY DEF CgAsked
<1>. QED  BY <1>1 DEF AskedOf

\* A request of which two fields are set.
LEMMA TwoFields ==
  ASSUME NEW r \in CgRequest, NEW st \in CgStatus, NEW p \in BOOLEAN
  PROVE  /\ [r EXCEPT !.status = st, !.pooled = p] \in CgRequest
         /\ [r EXCEPT !.status = st, !.pooled = p].status = st
         /\ [r EXCEPT !.status = st, !.pooled = p].pooled = p
         /\ [r EXCEPT !.status = st, !.pooled = p].set = r.set
         /\ [r EXCEPT !.status = st, !.pooled = p].due = r.due
         /\ [r EXCEPT !.status = st, !.pooled = p].fired = r.fired
BY DEF CgRequest

LEMMA ExecutesKeeps == CgInv /\ CgExecutes => CgInv'
<1>. SUFFICES ASSUME CgInv, CgExecutes PROVE CgInv'  OBVIOUS
<1>1. PICK c \in CgCalls :
        \/ CgKind[c] = "free" /\ CallGoes(c, "new", "run") /\ UNCHANGED cgAsking
        \/ /\ CgKind[c] = "command" /\ CallGoes(c, "new", "wait")
           /\ Request(c, [NothingAsked EXCEPT !.status = "pending", !.pooled = TRUE]) /\ Shows(c, "asked")
           /\ UNCHANGED <<cgYes, cgNo>>
  BY DEF CgExecutes
<1>2. PICK to \in {"run", "wait"} : cgPc[c] = "new" /\ cgPc' = [cgPc EXCEPT ![c] = to]  BY <1>1 DEF CallGoes
<1>3. /\ cgFiles' = cgFiles /\ cgText' = cgText /\ cgPut' = cgPut
      /\ cgSaid' = cgSaid /\ cgRan' = cgRan /\ cgStopped' = cgStopped
  BY DEF CgExecutes, CgBesideCommands, cgFiles
<1>4. CgShape /\ CgAsked  BY DEF CgInv
<1>5. /\ cgPc \in [CgCalls -> CgPlaces] /\ cgReq \in [CgCalls -> CgRequest]
      /\ cgCard \in [CgCalls -> {"", "asked", "approved", "rejected", "timeout"}]
  BY <1>4 DEF CgShape
<1>6. cgPc'[c] = to /\ \A d \in CgCalls : d # c => cgPc'[d] = cgPc[d]  BY <1>2, <1>5
<1>7. AskedOf(c) /\ cgReq[c] \in CgRequest  BY <1>4, <1>5 DEF CgAsked
<1>8. cgReq[c].status = "none" /\ c \notin cgRan  BY <1>2, <1>7 DEF AskedOf
<1>9. c \notin cgYes \cup cgNo  BY <1>7, <1>8 DEF AskedOf
<1>10. CASE CgKind[c] = "free" /\ cgAsking' = cgAsking /\ to = "run"
  <2>1. cgReq' = cgReq /\ cgCard' = cgCard /\ cgYes' = cgYes /\ cgNo' = cgNo  BY <1>10 DEF cgAsking
  <2>2. CgShape'  BY <1>2, <1>3, <1>4, <1>10, <2>1, ShapeAfter DEF CgShape, CgPlaces
  <2>3. AskedOf(c)'  BY <1>3, <1>6, <1>7, <1>8, <1>10, <2>1 DEF AskedOf
  <2>4. CgAsked'  BY <1>3, <1>4, <1>6, <2>1, <2>3, AskedAfter
  <2>. QED  BY <1>2, <1>3, <2>2, <2>4, TextsBeside DEF CgInv
<1>11. CASE /\ CgKind[c] = "command" /\ to = "wait" /\ cgYes' = cgYes /\ cgNo' = cgNo
            /\ Request(c, [NothingAsked EXCEPT !.status = "pending", !.pooled = TRUE]) /\ Shows(c, "asked")
  <2>1. PICK new \in CgRequest :
          cgReq' = [cgReq EXCEPT ![c] = new] /\ new.status = "pending" /\ new.pooled /\ ~new.set
    <3>1. NothingAsked \in CgRequest /\ ~NothingAsked.set  BY DEF NothingAsked, CgRequest, CgStatus
    <3>. DEFINE made == [NothingAsked EXCEPT !.status = "pending", !.pooled = TRUE]
    <3>2. "pending" \in CgStatus /\ TRUE \in BOOLEAN  BY DEF CgStatus
    <3>3. made \in CgRequest /\ made.status = "pending" /\ made.pooled = TRUE /\ made.set = NothingAsked.set
      BY <3>1, <3>2, TwoFields, ZenonT(20)
    <3>4. cgReq' = [cgReq EXCEPT ![c] = made]  BY <1>11, Zenon DEF Request
    <3>. HIDE DEF made
    <3>. QED  BY <3>1, <3>3, <3>4
  <2>2. cgCard' = [cgCard EXCEPT ![c] = "asked"]  BY <1>11 DEF Shows
  <2>3. cgReq' \in [CgCalls -> CgRequest]  BY <1>5, <2>1
  <2>4. cgCard' \in [CgCalls -> {"", "asked", "approved", "rejected", "timeout"}]  BY <1>5, <2>2
  <2>5. CgShape'  BY <1>2, <1>3, <1>4, <1>11, <2>3, <2>4, ShapeAfter DEF CgShape, CgPlaces
  <2>6. /\ cgReq'[c].status = "pending" /\ cgReq'[c].pooled = TRUE /\ ~cgReq'[c].set
        /\ cgCard'[c] = "asked"
        /\ \A d \in CgCalls : d # c => cgReq'[d] = cgReq[d] /\ cgCard'[d] = cgCard[d]
    BY <1>5, <2>1, <2>2
  <2>7. AskedOf(c)'  BY <1>3, <1>6, <1>8, <1>9, <1>11, <2>6 DEF AskedOf
  <2>8. CgAsked'  BY <1>3, <1>4, <1>6, <1>11, <2>6, <2>7, AskedAfter
  <2>. QED  BY <1>2, <1>3, <1>11, <2>5, <2>8, TextsBeside DEF CgInv
<1>. QED  BY <1>1, <1>2, <1>5, <1>6, <1>10, <1>11 DEF CallGoes

\* A request that was answered.
LEMMA ThreeFields ==
  ASSUME NEW r \in CgRequest, NEW st \in CgStatus
  PROVE  /\ [r EXCEPT !.status = st, !.set = TRUE, !.pooled = FALSE] \in CgRequest
         /\ [r EXCEPT !.status = st, !.set = TRUE, !.pooled = FALSE].status = st
         /\ [r EXCEPT !.status = st, !.set = TRUE, !.pooled = FALSE].pooled = FALSE
         /\ [r EXCEPT !.status = st, !.set = TRUE, !.pooled = FALSE].set = TRUE
         /\ [r EXCEPT !.status = st, !.set = TRUE, !.pooled = FALSE].fired = r.fired
BY DEF CgRequest

\* A step in which no call goes on: what is left is what was asked.
LEMMA CallsStay ==
  ASSUME CgInv, cgPc' = cgPc, cgSaid' = cgSaid, cgFiles' = cgFiles, CgAsked',
         cgReq' \in [CgCalls -> CgRequest],
         cgCard' \in [CgCalls -> {"", "asked", "approved", "rejected", "timeout"}]
  PROVE  CgInv'
<1>1. cgFile' = cgFile /\ cgText' = cgText /\ cgPut' = cgPut /\ cgOver' = cgOver  BY DEF cgFiles
<1>2. Open' = Open  BY DEF Open
<1>3. CgShape'  BY <1>1 DEF CgInv, CgShape
<1>4. CgTexts'
  <2>1. UNION {cgText'[d] : d \in Open'} = UNION {cgText[d] : d \in Open}  BY <1>1, <1>2
  <2>2. PICK opened : opened = UNION {cgText[d] : d \in Open}  OBVIOUS
  <2>3. CgTexts  BY DEF CgInv
  <2>. QED  BY <1>1, <2>1, <2>2, <2>3 DEF CgTexts
<1>. QED  BY <1>3, <1>4 DEF CgInv

LEMMA AnswersKeeps == CgInv /\ CgAnswers => CgInv'
<1>. SUFFICES ASSUME CgInv, CgAnswers PROVE CgInv'  OBVIOUS
<1>1. PICK c \in CgCalls, what \in {"approved", "rejected"} :
        /\ Pending(c) /\ Request(c, [cgReq[c] EXCEPT !.status = what, !.set = TRUE, !.pooled = FALSE])
        /\ Shows(c, what)
        /\ cgYes' = IF what = "approved" THEN cgYes \cup {c} ELSE cgYes
        /\ cgNo' = IF what = "rejected" THEN cgNo \cup {c} ELSE cgNo
  BY DEF CgAnswers
<1>2. cgPc' = cgPc /\ cgSaid' = cgSaid /\ cgRan' = cgRan /\ cgFiles' = cgFiles /\ cgStopped' = cgStopped
  BY DEF CgAnswers, CgBesideCommands
<1>3. CgShape /\ CgAsked  BY DEF CgInv
<1>4. /\ cgReq \in [CgCalls -> CgRequest]
      /\ cgCard \in [CgCalls -> {"", "asked", "approved", "rejected", "timeout"}]
  BY <1>3 DEF CgShape
<1>5. PICK new \in CgRequest :
        cgReq' = [cgReq EXCEPT ![c] = new] /\ new.status = what /\ new.set = TRUE /\ new.pooled = FALSE
  <2>. DEFINE made == [cgReq[c] EXCEPT !.status = what, !.set = TRUE, !.pooled = FALSE]
  <2>1. cgReq[c] \in CgRequest /\ what \in CgStatus  BY <1>4 DEF CgStatus
  <2>2. made \in CgRequest /\ made.status = what /\ made.set = TRUE /\ made.pooled = FALSE
    BY <2>1, ThreeFields, ZenonT(20)
  <2>3. cgReq' = [cgReq EXCEPT ![c] = made]  BY <1>1, Zenon DEF Request
  <2>. HIDE DEF made
  <2>. QED  BY <2>2, <2>3
<1>6. cgCard' = [cgCard EXCEPT ![c] = what]  BY <1>1 DEF Shows
<1>7. /\ cgReq'[c] = new /\ cgCard'[c] = what
      /\ \A d \in CgCalls : d # c => cgReq'[d] = cgReq[d] /\ cgCard'[d] = cgCard[d]
  BY <1>4, <1>5, <1>6
<1>8. cgReq' \in [CgCalls -> CgRequest]  BY <1>4, <1>5
<1>9. cgCard' \in [CgCalls -> {"", "asked", "approved", "rejected", "timeout"}]  BY <1>4, <1>6
<1>10. cgReq[c].status = "pending" /\ AskedOf(c)  BY <1>1, <1>3 DEF Pending, CgAsked
<1>11. CgKind[c] = "command" /\ cgPc[c] # "new" /\ c \notin cgYes \cup cgNo /\ c \notin cgRan
  BY <1>10 DEF AskedOf
<1>12. cgPc[c] \notin {"run", "running"} /\ (cgPc[c] = "wait" \/ c \in cgStopped)
  BY <1>10, <1>11 DEF AskedOf
<1>13. /\ c \in cgYes' <=> what = "approved"
       /\ c \in cgNo' <=> what = "rejected"
       /\ \A d \in CgCalls : d # c => (d \in cgYes' <=> d \in cgYes) /\ (d \in cgNo' <=> d \in cgNo)
  BY <1>1, <1>11
<1>14. AskedOf(c)'  BY <1>2, <1>5, <1>7, <1>11, <1>12, <1>13 DEF AskedOf
<1>15. CgAsked'  BY <1>2, <1>3, <1>7, <1>13, <1>14, AskedAfter
<1>. QED  BY <1>2, <1>8, <1>9, <1>15, CallsStay

LEMMA TimesKeeps == CgInv /\ CgTimes => CgInv'
<1>. SUFFICES ASSUME CgInv, CgTimes PROVE CgInv'  OBVIOUS
<1>1. PICK c \in CgCalls :
        \/ Request(c, [cgReq[c] EXCEPT !.due = TRUE])
        \/ Request(c, [cgReq[c] EXCEPT !.fired = TRUE])
  BY DEF CgTimes
<1>2. /\ cgPc' = cgPc /\ cgSaid' = cgSaid /\ cgRan' = cgRan /\ cgFiles' = cgFiles /\ cgStopped' = cgStopped
      /\ cgCard' = cgCard /\ cgYes' = cgYes /\ cgNo' = cgNo
  BY DEF CgTimes, CgBesideCommands
<1>3. CgShape /\ CgAsked  BY DEF CgInv
<1>4. /\ cgReq \in [CgCalls -> CgRequest] /\ cgReq[c] \in CgRequest
      /\ cgCard \in [CgCalls -> {"", "asked", "approved", "rejected", "timeout"}]
  BY <1>3 DEF CgShape
<1>5. PICK new \in CgRequest :
        /\ cgReq' = [cgReq EXCEPT ![c] = new] /\ new.status = cgReq[c].status
        /\ new.set = cgReq[c].set /\ new.pooled = cgReq[c].pooled /\ (cgReq[c].fired => new.fired)
  <2>1. \A r \in CgRequest :
          /\ [r EXCEPT !.due = TRUE] \in CgRequest /\ [r EXCEPT !.due = TRUE].status = r.status
          /\ [r EXCEPT !.due = TRUE].set = r.set /\ [r EXCEPT !.due = TRUE].pooled = r.pooled
          /\ [r EXCEPT !.due = TRUE].fired = r.fired
    BY DEF CgRequest
  <2>2. \A r \in CgRequest :
          /\ [r EXCEPT !.fired = TRUE] \in CgRequest /\ [r EXCEPT !.fired = TRUE].status = r.status
          /\ [r EXCEPT !.fired = TRUE].set = r.set /\ [r EXCEPT !.fired = TRUE].pooled = r.pooled
          /\ [r EXCEPT !.fired = TRUE].fired = TRUE
    BY DEF CgRequest
  <2>. DEFINE later == [cgReq[c] EXCEPT !.due = TRUE]
              rang == [cgReq[c] EXCEPT !.fired = TRUE]
  <2>3. /\ later \in CgRequest /\ later.status = cgReq[c].status /\ later.set = cgReq[c].set
        /\ later.pooled = cgReq[c].pooled /\ later.fired = cgReq[c].fired
    BY <1>4, <2>1, ZenonT(20)
  <2>4. /\ rang \in CgRequest /\ rang.status = cgReq[c].status /\ rang.set = cgReq[c].set
        /\ rang.pooled = cgReq[c].pooled /\ rang.fired = TRUE
    BY <1>4, <2>2, ZenonT(20)
  <2>5. cgReq' = [cgReq EXCEPT ![c] = later] \/ cgReq' = [cgReq EXCEPT ![c] = rang]  BY <1>1, Zenon DEF Request
  <2>. HIDE DEF later, rang
  <2>. QED  BY <2>3, <2>4, <2>5
<1>6. cgReq'[c] = new /\ \A d \in CgCalls : d # c => cgReq'[d] = cgReq[d]  BY <1>4, <1>5
<1>7. cgReq' \in [CgCalls -> CgRequest]  BY <1>4, <1>5
<1>8. AskedOf(c)  BY <1>3 DEF CgAsked
<1>9. AskedOf(c)'  BY <1>2, <1>5, <1>6, <1>8 DEF AskedOf
<1>10. CgAsked'  BY <1>2, <1>3, <1>6, <1>9, AskedAfter
<1>. QED  BY <1>2, <1>4, <1>7, <1>10, CallsStay

LEMMA CleansKeeps == CgInv /\ CgCleans => CgInv'
<1>. SUFFICES ASSUME CgInv, CgCleans PROVE CgInv'  OBVIOUS
<1>1. PICK c \in CgCalls :
        Pending(c) /\ Request(c, [cgReq[c] EXCEPT !.status = "timeout", !.pooled = FALSE])
  BY DEF CgCleans
<1>2. /\ cgPc' = cgPc /\ cgSaid' = cgSaid /\ cgRan' = cgRan /\ cgFiles' = cgFiles /\ cgStopped' = cgStopped
      /\ cgCard' = cgCard /\ cgYes' = cgYes /\ cgNo' = cgNo
  BY DEF CgCleans, CgBesideCommands
<1>3. CgShape /\ CgAsked  BY DEF CgInv
<1>4. /\ cgReq \in [CgCalls -> CgRequest] /\ cgReq[c] \in CgRequest
      /\ cgCard \in [CgCalls -> {"", "asked", "approved", "rejected", "timeout"}]
  BY <1>3 DEF CgShape
<1>5. PICK new \in CgRequest :
        /\ cgReq' = [cgReq EXCEPT ![c] = new] /\ new.status = "timeout"
        /\ new.set = cgReq[c].set /\ new.pooled = FALSE
  <2>. DEFINE made == [cgReq[c] EXCEPT !.status = "timeout", !.pooled = FALSE]
  <2>1. "timeout" \in CgStatus /\ FALSE \in BOOLEAN  BY DEF CgStatus
  <2>2. made \in CgRequest /\ made.status = "timeout" /\ made.set = cgReq[c].set /\ made.pooled = FALSE
    BY <1>4, <2>1, TwoFields, ZenonT(20)
  <2>3. cgReq' = [cgReq EXCEPT ![c] = made]  BY <1>1, Zenon DEF Request
  <2>. HIDE DEF made
  <2>. QED  BY <2>2, <2>3
<1>6. cgReq'[c] = new /\ \A d \in CgCalls : d # c => cgReq'[d] = cgReq[d]  BY <1>4, <1>5
<1>7. cgReq' \in [CgCalls -> CgRequest]  BY <1>4, <1>5
<1>8. cgReq[c].status = "pending" /\ AskedOf(c)  BY <1>1, <1>3 DEF Pending, CgAsked
<1>9. AskedOf(c)'  BY <1>2, <1>5, <1>6, <1>8 DEF AskedOf
<1>10. CgAsked'  BY <1>2, <1>3, <1>6, <1>9, AskedAfter
<1>. QED  BY <1>2, <1>4, <1>7, <1>10, CallsStay

LEMMA WakesKeeps == CgInv /\ CgWakes => CgInv'
<1>. SUFFICES ASSUME CgInv, CgWakes PROVE CgInv'  OBVIOUS
<1>1. PICK c \in CgCalls :
        /\ cgReq[c].set
        /\ IF Runs(c) THEN CallGoes(c, "wait", "run") /\ UNCHANGED cgSaid
           ELSE CallGoes(c, "wait", "over") /\ Says(c, "error")
  BY DEF CgWakes
<1>2. PICK to \in {"run", "over"} :
        cgPc[c] = "wait" /\ cgPc' = [cgPc EXCEPT ![c] = to] /\ (to = "run" <=> cgReq[c].status = "approved")
  BY <1>1 DEF CallGoes, Runs
<1>3. /\ cgFiles' = cgFiles /\ cgText' = cgText /\ cgPut' = cgPut /\ cgStopped' = cgStopped /\ cgRan' = cgRan
      /\ cgReq' = cgReq /\ cgCard' = cgCard /\ cgYes' = cgYes /\ cgNo' = cgNo
  BY DEF CgWakes, CgBesideCommands, cgFiles, cgAsking
<1>4. CgShape /\ CgAsked  BY DEF CgInv
<1>5. cgPc \in [CgCalls -> CgPlaces] /\ CgKind[c] = "command"  BY <1>2, <1>4 DEF CgShape
<1>6. cgPc'[c] = to /\ \A d \in CgCalls : d # c => cgPc'[d] = cgPc[d]  BY <1>2, <1>5
<1>7. /\ cgSaid' \in [CgCalls -> {"", "done", "error"}]
      /\ \A d \in CgCalls : cgSaid'[d] # cgSaid[d] => d = c /\ to = "over"
  BY <1>1, <1>2, <1>4, SaysOnly DEF CgShape, Runs
<1>8. CgShape'  BY <1>2, <1>3, <1>4, <1>5, <1>7, ShapeAfter DEF CgShape, CgPlaces
<1>9. AskedOf(c)  BY <1>4 DEF CgAsked
<1>10. AskedOf(c)'  BY <1>1, <1>2, <1>3, <1>6, <1>9 DEF AskedOf
<1>11. CgAsked'  BY <1>3, <1>4, <1>6, <1>10, AskedAfter
<1>. QED  BY <1>2, <1>3, <1>7, <1>8, <1>11, TextsBeside DEF CgInv

LEMMA TimesOutKeeps == CgInv /\ CgTimesOut => CgInv'
<1>. SUFFICES ASSUME CgInv, CgTimesOut PROVE CgInv'  OBVIOUS
<1>1. PICK c \in CgCalls :
        /\ cgReq[c].fired /\ CallGoes(c, "wait", "over") /\ Says(c, "error")
        /\ Request(c, TimedOut(cgReq[c])) /\ Shows(c, "timeout")
  BY DEF CgTimesOut
<1>2. cgPc[c] = "wait" /\ cgPc' = [cgPc EXCEPT ![c] = "over"]  BY <1>1 DEF CallGoes
<1>3. /\ cgFiles' = cgFiles /\ cgText' = cgText /\ cgPut' = cgPut /\ cgStopped' = cgStopped /\ cgRan' = cgRan
      /\ cgYes' = cgYes /\ cgNo' = cgNo
  BY DEF CgTimesOut, CgBesideCommands, cgFiles
<1>4. CgShape /\ CgAsked  BY DEF CgInv
<1>5. /\ cgPc \in [CgCalls -> CgPlaces] /\ CgKind[c] = "command"
      /\ cgReq \in [CgCalls -> CgRequest] /\ cgReq[c] \in CgRequest
      /\ cgCard \in [CgCalls -> {"", "asked", "approved", "rejected", "timeout"}]
  BY <1>2, <1>4 DEF CgShape
<1>6. PICK new \in CgRequest :
        /\ cgReq' = [cgReq EXCEPT ![c] = new] /\ new.status = "timeout"
        /\ new.fired = cgReq[c].fired /\ new.pooled = FALSE
  <2>. DEFINE made == [cgReq[c] EXCEPT !.status = "timeout", !.pooled = FALSE]
  <2>1. "timeout" \in CgStatus /\ FALSE \in BOOLEAN  BY DEF CgStatus
  <2>2. made \in CgRequest /\ made.status = "timeout" /\ made.fired = cgReq[c].fired /\ made.pooled = FALSE
    BY <1>5, <2>1, TwoFields, ZenonT(20)
  <2>3. cgReq' = [cgReq EXCEPT ![c] = made]  BY <1>1, Zenon DEF Request, TimedOut
  <2>. HIDE DEF made
  <2>. QED  BY <2>2, <2>3
<1>7. cgCard' = [cgCard EXCEPT ![c] = "timeout"]  BY <1>1 DEF Shows
<1>8. /\ cgPc'[c] = "over" /\ cgReq'[c] = new /\ cgCard'[c] = "timeout"
      /\ \A d \in CgCalls : d # c => cgPc'[d] = cgPc[d] /\ cgReq'[d] = cgReq[d] /\ cgCard'[d] = cgCard[d]
  BY <1>2, <1>5, <1>6, <1>7
<1>9. /\ cgSaid' \in [CgCalls -> {"", "done", "error"}]
      /\ \A d \in CgCalls : cgSaid'[d] # cgSaid[d] => d = c
  BY <1>1, <1>4, SaysOnly
<1>10. /\ cgReq' \in [CgCalls -> CgRequest]
       /\ cgCard' \in [CgCalls -> {"", "asked", "approved", "rejected", "timeout"}]
  BY <1>5, <1>6, <1>7
<1>11. CgShape'  BY <1>2, <1>3, <1>4, <1>9, <1>10, ShapeAfter DEF CgShape, CgPlaces
<1>12. AskedOf(c)  BY <1>4 DEF CgAsked
<1>13. c \notin cgRan  BY <1>2, <1>12 DEF AskedOf
<1>14. AskedOf(c)'  BY <1>1, <1>3, <1>5, <1>6, <1>8, <1>13 DEF AskedOf
<1>15. CgAsked'  BY <1>3, <1>4, <1>8, <1>14, AskedAfter
<1>. QED  BY <1>2, <1>3, <1>9, <1>11, <1>15, TextsBeside DEF CgInv

LEMMA RunsKeeps == CgInv /\ CgRuns => CgInv'
<1>. SUFFICES ASSUME CgInv, CgRuns PROVE CgInv'  OBVIOUS
<1>1. PICK c \in CgCalls : CallGoes(c, "run", "running") /\ cgRan' = cgRan \cup {c}  BY DEF CgRuns
<1>2. cgPc[c] = "run" /\ cgPc' = [cgPc EXCEPT ![c] = "running"]  BY <1>1 DEF CallGoes
<1>3. /\ cgFiles' = cgFiles /\ cgText' = cgText /\ cgPut' = cgPut /\ cgStopped' = cgStopped /\ cgSaid' = cgSaid
      /\ cgReq' = cgReq /\ cgCard' = cgCard /\ cgYes' = cgYes /\ cgNo' = cgNo
  BY DEF CgRuns, CgBesideCommands, cgFiles, cgAsking
<1>4. CgShape /\ CgAsked  BY DEF CgInv
<1>5. cgPc \in [CgCalls -> CgPlaces] /\ CgKind[c] \in {"command", "free"}  BY <1>2, <1>4 DEF CgShape
<1>6. cgPc'[c] = "running" /\ \A d \in CgCalls : d # c => cgPc'[d] = cgPc[d]  BY <1>2, <1>5
<1>7. CgShape'  BY <1>2, <1>3, <1>4, <1>5, ShapeAfter DEF CgShape, CgPlaces
<1>8. AskedOf(c)  BY <1>4 DEF CgAsked
<1>9. AskedOf(c)'  BY <1>1, <1>2, <1>3, <1>6, <1>8 DEF AskedOf
<1>10. CgAsked'  BY <1>1, <1>3, <1>4, <1>6, <1>9, AskedAfter
<1>. QED  BY <1>2, <1>3, <1>7, <1>10, TextsBeside DEF CgInv

LEMMA EndsKeeps == CgInv /\ CgEnds => CgInv'
<1>. SUFFICES ASSUME CgInv, CgEnds PROVE CgInv'  OBVIOUS
<1>1. PICK c \in CgCalls, what \in {"done", "error"} : CallGoes(c, "running", "over") /\ Says(c, what)
  BY DEF CgEnds
<1>2. cgPc[c] = "running" /\ cgPc' = [cgPc EXCEPT ![c] = "over"]  BY <1>1 DEF CallGoes
<1>3. /\ cgFiles' = cgFiles /\ cgText' = cgText /\ cgPut' = cgPut /\ cgStopped' = cgStopped /\ cgRan' = cgRan
      /\ cgReq' = cgReq /\ cgCard' = cgCard /\ cgYes' = cgYes /\ cgNo' = cgNo
  BY DEF CgEnds, CgBesideCommands, cgFiles, cgAsking
<1>4. CgShape /\ CgAsked  BY DEF CgInv
<1>5. cgPc \in [CgCalls -> CgPlaces]  BY <1>4 DEF CgShape
<1>6. cgPc'[c] = "over" /\ \A d \in CgCalls : d # c => cgPc'[d] = cgPc[d]  BY <1>2, <1>5
<1>7. /\ cgSaid' \in [CgCalls -> {"", "done", "error"}]
      /\ \A d \in CgCalls : cgSaid'[d] # cgSaid[d] => d = c
  BY <1>1, <1>4, SaysOnly
<1>8. CgShape'  BY <1>2, <1>3, <1>4, <1>7, ShapeAfter DEF CgShape, CgPlaces
<1>9. AskedOf(c)  BY <1>4 DEF CgAsked
<1>10. AskedOf(c)'  BY <1>2, <1>3, <1>6, <1>9 DEF AskedOf
<1>11. CgAsked'  BY <1>3, <1>4, <1>6, <1>10, AskedAfter
<1>. QED  BY <1>2, <1>3, <1>7, <1>8, <1>11, TextsBeside DEF CgInv

\* A stop takes calls that wait or have yet to begin to their end, and no other.
LEMMA StopKeeps == CgInv /\ CgStop => CgInv'
<1>. SUFFICES ASSUME CgInv, CgStop PROVE CgInv'  OBVIOUS
<1>1. PICK calls \in SUBSET CgCalls :
        /\ cgStopped' = cgStopped \cup calls
        /\ cgPc' = [c \in CgCalls |-> IF c \in calls /\ cgPc[c] \in {"new", "read", "wait"} THEN "over" ELSE cgPc[c]]
  BY DEF CgStop
<1>2. /\ cgFile' = cgFile /\ cgOver' = cgOver /\ cgText' = cgText /\ cgPut' = cgPut /\ cgSaid' = cgSaid
      /\ cgRan' = cgRan /\ cgReq' = cgReq /\ cgCard' = cgCard /\ cgYes' = cgYes /\ cgNo' = cgNo
  BY DEF CgStop, cgFiles, cgAsking
<1>3. CgShape /\ CgTexts /\ CgAsked  BY DEF CgInv
<1>4. cgPc \in [CgCalls -> CgPlaces]  BY <1>3 DEF CgShape
<1>5. \A d \in CgCalls :
        \/ cgPc'[d] = cgPc[d]
        \/ cgPc[d] \in {"new", "read", "wait"} /\ cgPc'[d] = "over" /\ d \in cgStopped'
  BY <1>1
<1>6. cgPc' \in [CgCalls -> CgPlaces]  BY <1>1, <1>4 DEF CgPlaces
<1>7. CgShape'
  <2>1. \A d \in CgCalls : cgPc'[d] = cgPc[d] \/ cgPc'[d] = "over"  BY <1>5
  <2>. QED  BY <1>2, <1>3, <1>6, <2>1 DEF CgShape
<1>8. Open' = Open  BY <1>5 DEF Open
<1>9. CgTexts'
  <2>. SUFFICES ASSUME NEW d \in CgCalls
                PROVE  /\ cgPut[d] # {} => cgPc'[d] \in {"write", "opened", "over"}
                       /\ cgPc'[d] \in {"write", "opened"} => cgPut[d] \subseteq cgText[d]
                       /\ cgSaid[d] = "done" =>
                            /\ cgPc'[d] = "over"
                            /\ cgPut[d] \subseteq cgFile \cup cgOver \cup UNION {cgText[e] : e \in Open}
    BY <1>2, <1>8 DEF CgTexts
  <2>1. CASE cgPc'[d] = cgPc[d]  BY <1>3, <2>1 DEF CgTexts
  <2>2. CASE cgPc[d] \in {"new", "read", "wait"} /\ cgPc'[d] = "over"  BY <1>3, <2>2 DEF CgTexts
  <2>. QED  BY <1>5, <2>1, <2>2
<1>10. CgAsked'
  <2>. SUFFICES ASSUME NEW d \in CgCalls PROVE AskedOf(d)'  BY DEF CgAsked
  <2>1. AskedOf(d)  BY <1>3 DEF CgAsked
  <2>2. d \in cgStopped => d \in cgStopped'  BY <1>1
  <2>3. CASE cgPc'[d] = cgPc[d]  BY <1>2, <2>1, <2>2, <2>3 DEF AskedOf
  <2>4. CASE cgPc[d] \in {"new", "read", "wait"} /\ cgPc'[d] = "over" /\ d \in cgStopped'
    BY <1>2, <2>1, <2>4 DEF AskedOf
  <2>. QED  BY <1>5, <2>3, <2>4
<1>. QED  BY <1>7, <1>9, <1>10 DEF CgInv

-----------------------------------------------------------------------------
(***************************************************************************)
(* CodingTools: the theorem.                                               *)
(***************************************************************************)
LEMMA CgStepKeeps == CgInv /\ [CgNext]_cgVars => CgInv'
<1>. SUFFICES ASSUME CgInv, [CgNext]_cgVars PROVE CgInv'  OBVIOUS
<1>1. CASE UNCHANGED cgVars
  <2>1. /\ cgPc' = cgPc /\ cgSaid' = cgSaid /\ cgFiles' = cgFiles /\ cgReq' = cgReq /\ cgCard' = cgCard
        /\ cgYes' = cgYes /\ cgNo' = cgNo /\ cgRan' = cgRan /\ cgStopped' = cgStopped
    BY <1>1 DEF cgVars, cgAsking
  <2>2. /\ cgReq \in [CgCalls -> CgRequest]
        /\ cgCard \in [CgCalls -> {"", "asked", "approved", "rejected", "timeout"}]
    BY DEF CgInv, CgShape
  <2>3. CgAsked'  BY <2>1 DEF CgInv, CgAsked, AskedOf
  <2>. QED  BY <2>1, <2>2, <2>3, CallsStay
<1>2. CASE CgNext
  BY <1>2, RefusedKeeps, WritesKeeps, ReadsKeeps, AppliesKeeps, OpensKeeps, FillsKeeps, ExecutesKeeps,
     AnswersKeeps, TimesKeeps, CleansKeeps, WakesKeeps, TimesOutKeeps, RunsKeeps, EndsKeeps, StopKeeps
     DEF CgNext
<1>. QED  BY <1>1, <1>2

\* For any number of tool calls, any kinds and any texts: what an agent was told to be in
\* the file is there or was written over by a call that had not seen it, and a command
\* that asks runs when, and only when, a user was told to have approved it, unless its
\* turn was stopped or its time was over (coding_tools.py, approval_manager.py).
THEOREM CodingSafe == CgSpec => []CodingKept
<1>1. CgInit => CgInv  BY CgInitInv
<1>2. CgInv /\ [CgNext]_cgVars => CgInv'  BY CgStepKeeps
<1>3. CgInv => CodingKept  BY CodingOfInv
<1>. QED  BY <1>1, <1>2, <1>3, PTL DEF CgSpec

-----------------------------------------------------------------------------
(***************************************************************************)
(* AgentSession: the invariant.                                            *)
(***************************************************************************)
AsSpec == AsInit /\ [][AsNext]_asVars

AsToken == [t : Nat, retryable : BOOLEAN]
Running == asPc \in {"prepare"} \cup Streaming
Stored == {asFlush.failed, asFile.failed}

\* Types the definitions rely on.  Who waits for a save has not been terminated.
AsShape ==
  /\ asTurns \in Nat /\ asT \in 0..asTurns /\ asRan \subseteq 0..asTurns
  /\ asPc \in {"idle", "retry", "resume", "prepare", "save"} \cup Streaming
  /\ asFailed \in AsToken /\ asFailed.t <= asTurns
  /\ asFlush.failed \in AsToken /\ asFlush.failed.t <= asTurns
  /\ asFile.failed \in AsToken /\ asFile.failed.t <= asTurns
  /\ asFlush.by = "none" => asFlush = NoFlush
  /\ asFlush.by = "turn" => Waiting \/ asTerm
  /\ asTerm => asPc = "idle"

\* A session that is not marked dirty is as the file is, or as what is being written.
AsSaved ==
  ~asDirty =>
    /\ asFlush.by = "none" => /\ asFile.failed = asFailed /\ asFile.record = asRecord
                              /\ asRecord = <<>> => asFile.ctx = asCtx
    /\ asFlush.by # "none" => /\ asFlush.failed = asFailed /\ asFlush.record = asRecord
                              /\ asFlush.ctx = asCtx

\* Nowhere is a turn offered of which a tool was started.  A turn that is run again is
\* offered nowhere any more; one that has started no tool in this attempt has started none.
AsTokens ==
  ~asUnsaved =>
    /\ ~Offers(asFailed) /\ \A token \in Stored : ~Offers(token)
    /\ asPc \in {"retry", "resume"} => ~asFailed.retryable /\ asFailed.t \notin asRan
    /\ asPc = "retry" /\ asFlush.by = "turn" => asFlush.failed = asFailed
    /\ asPc = "resume" => \A token \in Stored : token.retryable => token.t # asFailed.t
    /\ Running => /\ asFailed = NoFailure /\ (~asToolStarted => asT \notin asRan)
                  /\ \A token \in Stored : token.retryable => token.t # asT

AsInv == AsShape /\ AsSaved /\ AsTokens

LEMMA SessionOfInv == AsInv => SessionKept
<1>1. AsInv => AsRetrySafe  BY DEF AsInv, AsTokens, AsRetrySafe, Stored
<1>2. AsInv => AsDirtyCovers  BY DEF AsInv, AsSaved, AsDirtyCovers, NoFlush
<1>. QED  BY <1>1, <1>2 DEF SessionKept

LEMMA AsInitInv == AsInit => AsInv
<1>. SUFFICES ASSUME AsInit PROVE AsInv  OBVIOUS
<1>1. NoFailure \in AsToken /\ NoFailure.t = 0 /\ ~NoFailure.retryable  BY DEF NoFailure, AsToken
<1>2. NoFlush.by = "none" /\ NoFlush.failed = NoFailure  BY DEF NoFlush
<1>3. asFile.failed = NoFailure /\ asFile.record = <<>> /\ asFile.ctx = <<>>  BY DEF AsInit
<1>4. AsShape  BY <1>1, <1>2, <1>3 DEF AsInit, AsShape
<1>5. AsSaved  BY <1>2, <1>3 DEF AsInit, AsSaved
<1>6. AsTokens  BY <1>1, <1>2, <1>3 DEF AsInit, AsTokens, Stored, Offers, Running, Streaming
<1>. QED  BY <1>4, <1>5, <1>6 DEF AsInv

-----------------------------------------------------------------------------
(***************************************************************************)
(* AgentSession: the steps of a turn.                                      *)
(***************************************************************************)
\* A turn begins: with a text, an edit, or once more.
LEMMA TurnBegins ==
  ASSUME AsInv, ~asTerm, NEW t,
         asPc' = "prepare", asFailed' = NoFailure, asToolStarted' = FALSE, asT' = t, asDirty' = TRUE,
         asFlush' = asFlush, asFile' = asFile, asRan' = asRan, asUnsaved' = asUnsaved, asTerm' = asTerm,
         asTurns' \in Nat, asTurns <= asTurns', t \in 0..asTurns', asPc \notin {"retry", "save"},
         ~asUnsaved => t \notin asRan /\ \A token \in Stored : token.retryable => token.t # t
  PROVE  AsInv'
<1>1. AsShape /\ AsTokens  BY DEF AsInv
<1>2. NoFailure \in AsToken /\ NoFailure.t = 0 /\ ~NoFailure.retryable  BY DEF NoFailure, AsToken
<1>3. Stored' = Stored  BY DEF Stored
<1>4. asFlush.by # "turn"  BY <1>1 DEF AsShape, Waiting
<1>5. asFlush.failed.t \in Nat /\ asFile.failed.t \in Nat /\ asTurns \in Nat  BY <1>1 DEF AsShape, AsToken
<1>6. AsShape'
  <2>1. asRan \subseteq 0..asTurns'  BY <1>1, <1>5 DEF AsShape
  <2>2. asFlush.failed.t <= asTurns' /\ asFile.failed.t <= asTurns'  BY <1>1, <1>5 DEF AsShape
  <2>. QED  BY <1>1, <1>2, <1>4, <2>1, <2>2 DEF AsShape
<1>7. AsSaved'  BY DEF AsSaved
<1>8. AsTokens'
  <2>. SUFFICES ASSUME ~asUnsaved
                PROVE  /\ ~Offers(asFailed') /\ \A token \in Stored : ~Offers(token)'
                       /\ t \notin asRan /\ \A token \in Stored : token.retryable => token.t # t
    BY <1>3 DEF AsTokens, Running, Offers
  <2>. QED  BY <1>1, <1>2 DEF AsTokens, Offers
<1>. QED  BY <1>6, <1>7, <1>8 DEF AsInv

\* A turn that runs goes on.
LEMMA TurnGoesOn ==
  ASSUME AsInv, Running, Running',
         asFailed' = asFailed, asT' = asT, asTerm' = asTerm, asTurns' = asTurns,
         asFlush' = asFlush, asFile' = asFile, asUnsaved' = asUnsaved,
         \/ asDirty' = TRUE
         \/ asDirty' = asDirty /\ asRecord' = asRecord /\ asCtx' = asCtx,
         \/ asRan' = asRan /\ asToolStarted' = asToolStarted
         \/ asRan' = asRan \cup {asT} /\ asToolStarted' = TRUE
  PROVE  AsInv'
<1>1. AsShape /\ AsSaved /\ AsTokens  BY DEF AsInv
<1>2. Stored' = Stored  BY DEF Stored
<1>3. ~asTerm /\ asFlush.by # "turn"  BY <1>1 DEF AsShape, Waiting, Running, Streaming
<1>4. asPc' \notin {"idle", "retry", "resume", "save"}  BY DEF Running, Streaming
<1>5. AsShape'
  <2>1. asRan' \subseteq 0..asTurns  BY <1>1 DEF AsShape
  <2>2. asPc' \in {"idle", "retry", "resume", "prepare", "save"} \cup Streaming  BY DEF Running
  <2>. QED  BY <1>1, <1>3, <2>1, <2>2 DEF AsShape
<1>6. AsSaved'  BY <1>1 DEF AsSaved
<1>7. AsTokens'
  <2>. SUFFICES ASSUME ~asUnsaved
                PROVE  /\ asFailed = NoFailure /\ ~Offers(asFailed)' /\ \A token \in Stored : ~Offers(token)'
                       /\ ~asToolStarted' => asT \notin asRan'
                       /\ \A token \in Stored : token.retryable => token.t # asT
    BY <1>2, <1>4 DEF AsTokens, Offers
  <2>1. /\ asFailed = NoFailure /\ (~asToolStarted => asT \notin asRan)
        /\ \A token \in Stored : token.retryable => token.t # asT
        /\ \A token \in Stored : ~Offers(token)
    BY <1>1 DEF AsTokens
  <2>2. \A token \in Stored : ~Offers(token)'  BY <2>1 DEF Offers
  <2>3. ~Offers(asFailed)'  BY <2>1 DEF Offers, NoFailure
  <2>. QED  BY <2>1, <2>2, <2>3
<1>. QED  BY <1>5, <1>6, <1>7 DEF AsInv

\* A turn that runs is over: it returned, or failed and may be offered again.
LEMMA TurnEnds ==
  ASSUME AsInv, Running, asPc' \in {"idle", "save"}, asT' = 0, asDirty' = TRUE,
         asFailed' \in {asFailed, [t |-> asT, retryable |-> FALSE], [t |-> asT, retryable |-> ~asToolStarted]},
         asTerm' = asTerm, asTurns' = asTurns, asFlush' = asFlush, asFile' = asFile,
         asRan' = asRan, asUnsaved' = asUnsaved
  PROVE  AsInv'
<1>1. AsShape /\ AsTokens  BY DEF AsInv
<1>2. Stored' = Stored  BY DEF Stored
<1>3. ~asTerm /\ asFlush.by # "turn"  BY <1>1 DEF AsShape, Waiting, Running, Streaming
<1>4. asTurns \in Nat /\ asT \in 0..asTurns  BY <1>1 DEF AsShape
<1>5. asFailed' \in AsToken /\ asFailed'.t <= asTurns
  <2>1. CASE asFailed' = asFailed  BY <1>1, <2>1 DEF AsShape
  <2>2. CASE asFailed' = [t |-> asT, retryable |-> FALSE]  BY <1>4, <2>2 DEF AsToken
  <2>3. CASE asFailed' = [t |-> asT, retryable |-> ~asToolStarted]  BY <1>4, <2>3 DEF AsToken
  <2>. QED  BY <2>1, <2>2, <2>3
<1>6. AsShape'  BY <1>1, <1>3, <1>4, <1>5 DEF AsShape
<1>7. AsSaved'  BY DEF AsSaved
<1>8. AsTokens'
  <2>. SUFFICES ASSUME ~asUnsaved
                PROVE  ~Offers(asFailed)' /\ \A token \in Stored : ~Offers(token)'
    BY <1>2 DEF AsTokens, Running, Streaming
  <2>1. /\ ~asToolStarted => asT \notin asRan
        /\ ~Offers(asFailed) /\ \A token \in Stored : ~Offers(token)
    BY <1>1 DEF AsTokens
  <2>2. \A token \in Stored : ~Offers(token)'  BY <2>1 DEF Offers
  <2>3. asFailed'.retryable => asFailed'.t \notin asRan
    <3>1. CASE asFailed' = asFailed  BY <2>1, <3>1 DEF Offers
    <3>2. CASE asFailed' = [t |-> asT, retryable |-> FALSE]  BY <3>2
    <3>3. CASE asFailed' = [t |-> asT, retryable |-> ~asToolStarted]  BY <2>1, <3>3
    <3>. QED  BY <3>1, <3>2, <3>3
  <2>. QED  BY <2>2, <2>3 DEF Offers
<1>. QED  BY <1>6, <1>7, <1>8 DEF AsInv

LEMMA SendKeeps == ASSUME AsInv, NEW human \in BOOLEAN, AsSend(human) PROVE AsInv'
<1>1. AsShape /\ AsTokens  BY DEF AsInv
<1>2. asPc = "idle" /\ ~asTerm /\ asTurns' = asTurns + 1  BY DEF AsSend, Enter
<1>3. asTurns \in Nat /\ asTurns' \in Nat /\ asTurns + 1 \in 0..asTurns' /\ asTurns <= asTurns'
  BY <1>1, <1>2 DEF AsShape
<1>4. asTurns + 1 \notin asRan /\ \A token \in Stored : token.t # asTurns + 1
  BY <1>1, <1>3 DEF AsShape, AsToken, Stored
<1>5. /\ asPc' = "prepare" /\ asFailed' = NoFailure /\ asToolStarted' = FALSE /\ asT' = asTurns + 1
      /\ asDirty' = TRUE /\ asFlush' = asFlush /\ asFile' = asFile /\ asTerm' = asTerm
      /\ asRan' = asRan /\ asUnsaved' = asUnsaved
  BY DEF AsSend, Invoke, asPast
<1>. QED  BY <1>2, <1>3, <1>4, <1>5, TurnBegins

LEMMA EditKeeps == ASSUME AsInv, NEW i \in 1..Len(asRecord), AsEdit(i) PROVE AsInv'
<1>1. AsShape /\ AsTokens  BY DEF AsInv
<1>2. asPc = "idle" /\ ~asTerm /\ asTurns' = asTurns + 1  BY DEF AsEdit, Enter
<1>3. asTurns \in Nat /\ asTurns' \in Nat /\ asTurns + 1 \in 0..asTurns' /\ asTurns <= asTurns'
  BY <1>1, <1>2 DEF AsShape
<1>4. asTurns + 1 \notin asRan /\ \A token \in Stored : token.t # asTurns + 1
  BY <1>1, <1>3 DEF AsShape, AsToken, Stored
<1>5. /\ asPc' = "prepare" /\ asFailed' = NoFailure /\ asToolStarted' = FALSE /\ asT' = asTurns + 1
      /\ asDirty' = TRUE /\ asFlush' = asFlush /\ asFile' = asFile /\ asTerm' = asTerm
      /\ asRan' = asRan /\ asUnsaved' = asUnsaved
  BY DEF AsEdit, Invoke, asPast
<1>. QED  BY <1>2, <1>3, <1>4, <1>5, TurnBegins

\* Once more: by then it is offered nowhere.
LEMMA RetriedKeeps == AsInv /\ AsRetried => AsInv'
<1>. SUFFICES ASSUME AsInv, AsRetried PROVE AsInv'  OBVIOUS
<1>1. AsShape /\ AsTokens  BY DEF AsInv
<1>2. asPc = "resume" /\ asTurns' = asTurns  BY DEF AsRetried, asCount
<1>3. ~asTerm /\ asTurns' \in Nat /\ asTurns <= asTurns' /\ asFailed.t \in 0..asTurns'  BY <1>1, <1>2 DEF AsShape, AsToken
<1>4. ~asUnsaved => asFailed.t \notin asRan /\ \A token \in Stored : token.retryable => token.t # asFailed.t
  BY <1>1, <1>2 DEF AsTokens
<1>5. /\ asPc' = "prepare" /\ asFailed' = NoFailure /\ asToolStarted' = FALSE /\ asT' = asFailed.t
      /\ asDirty' = TRUE /\ asFlush' = asFlush /\ asFile' = asFile /\ asTerm' = asTerm
      /\ asRan' = asRan /\ asUnsaved' = asUnsaved
  BY DEF AsRetried, Invoke, asPast
<1>. QED  BY <1>2, <1>3, <1>4, <1>5, TurnBegins

LEMMA StreamKeeps == AsInv /\ AsStream => AsInv'
<1>. SUFFICES ASSUME AsInv, AsStream PROVE AsInv'  OBVIOUS
<1>1. Running /\ Running'  BY DEF AsStream, Running, Streaming
<1>2. /\ asFailed' = asFailed /\ asT' = asT /\ asTerm' = asTerm /\ asTurns' = asTurns
      /\ asFlush' = asFlush /\ asFile' = asFile /\ asUnsaved' = asUnsaved /\ asDirty' = asDirty
      /\ asRecord' = asRecord /\ asCtx' = asCtx /\ asRan' = asRan /\ asToolStarted' = asToolStarted
  BY DEF AsStream, asMemory, asSaving, asPast, asCount
<1>. QED  BY <1>1, <1>2, TurnGoesOn

LEMMA RecordedKeeps == ASSUME AsInv, Running, Running', NEW k, Recorded(k) PROVE AsInv'
<1>1. /\ asFailed' = asFailed /\ asT' = asT /\ asTerm' = asTerm /\ asTurns' = asTurns
      /\ asFlush' = asFlush /\ asFile' = asFile /\ asUnsaved' = asUnsaved /\ asDirty' = TRUE
      /\ asRan' = asRan /\ asToolStarted' = asToolStarted
  BY DEF Recorded, asPast, asCount
<1>. QED  BY <1>1, TurnGoesOn

LEMMA CallsKeeps == AsInv /\ (AsCalls \/ AsAnswers \/ AsToolEnds) => AsInv'
<1>. SUFFICES ASSUME AsInv, AsCalls \/ AsAnswers \/ AsToolEnds PROVE AsInv'  OBVIOUS
<1>1. Running /\ Running'  BY DEF AsCalls, AsAnswers, AsToolEnds, Running, Streaming
<1>2. Recorded("call") \/ Recorded("answer") \/ Recorded("tool")  BY DEF AsCalls, AsAnswers, AsToolEnds
<1>. QED  BY <1>1, <1>2, RecordedKeeps

LEMMA ToolStartsKeeps == AsInv /\ AsToolStarts => AsInv'
<1>. SUFFICES ASSUME AsInv, AsToolStarts PROVE AsInv'  OBVIOUS
<1>1. Running /\ Running'  BY DEF AsToolStarts, Running, Streaming
<1>2. /\ asFailed' = asFailed /\ asT' = asT /\ asTerm' = asTerm /\ asTurns' = asTurns
      /\ asFlush' = asFlush /\ asFile' = asFile /\ asUnsaved' = asUnsaved /\ asDirty' = asDirty
      /\ asRecord' = asRecord /\ asCtx' = asCtx /\ asRan' = asRan \cup {asT} /\ asToolStarted' = TRUE
  BY DEF AsToolStarts, asMemory, asSaving, asCount
<1>. QED  BY <1>1, <1>2, TurnGoesOn

LEMMA TurnStoppedKeeps == AsInv /\ (AsStopped \/ AsEnds \/ AsBlocked) => AsInv'
<1>. SUFFICES ASSUME AsInv, AsStopped \/ AsEnds \/ AsBlocked PROVE AsInv'  OBVIOUS
<1>1. Running /\ asPc' \in {"idle", "save"}
  BY DEF AsStopped, AsEnds, AsBlocked, Running, Streaming, Return
<1>2. /\ asFailed' = asFailed /\ asT' = 0 /\ asTerm' = asTerm /\ asTurns' = asTurns
      /\ asFlush' = asFlush /\ asFile' = asFile /\ asUnsaved' = asUnsaved /\ asDirty' = TRUE /\ asRan' = asRan
  BY DEF AsStopped, AsEnds, AsBlocked, RollBack, Over, asPast, asCount
<1>. QED  BY <1>1, <1>2, TurnEnds

LEMMA FailsKeeps == AsInv /\ AsFails => AsInv'
<1>. SUFFICES ASSUME AsInv, AsFails PROVE AsInv'  OBVIOUS
<1>1. Running /\ asPc' \in {"idle", "save"}  BY DEF AsFails, Running, Streaming
<1>2. /\ asT' = 0 /\ asTerm' = asTerm /\ asTurns' = asTurns
      /\ asFlush' = asFlush /\ asFile' = asFile /\ asUnsaved' = asUnsaved /\ asDirty' = TRUE /\ asRan' = asRan
  BY DEF AsFails, RollBack, Over, asPast
<1>3. Retryable = FALSE \/ Retryable = ~asToolStarted  BY DEF Retryable
<1>4. asFailed' = asFailed \/ asFailed' = [t |-> asT, retryable |-> Retryable]  BY DEF AsFails
<1>. QED  BY <1>1, <1>2, <1>3, <1>4, TurnEnds

\* Where nothing is done but noticed later.
LEMMA AbortKeeps == AsInv /\ AsAbort => AsInv'
<1>. SUFFICES ASSUME AsInv, AsAbort PROVE AsInv'  OBVIOUS
<1>1. /\ asRecord' = asRecord /\ asCtx' = asCtx /\ asFailed' = asFailed /\ asPc' = asPc /\ asT' = asT
      /\ asToolStarted' = asToolStarted /\ asTerm' = asTerm /\ asDirty' = asDirty /\ asFlush' = asFlush
      /\ asFile' = asFile /\ asRan' = asRan /\ asUnsaved' = asUnsaved /\ asTurns' = asTurns
  BY DEF AsAbort, asMemory, asTurn, asSaving, asPast, asCount
<1>2. AsShape'  BY <1>1 DEF AsInv, AsShape, Waiting
<1>3. AsSaved'  BY <1>1 DEF AsInv, AsSaved
<1>4. AsTokens'  BY <1>1 DEF AsInv, AsTokens, Stored, Offers, Running
<1>. QED  BY <1>2, <1>3, <1>4 DEF AsInv

\* A session that is terminated is at rest for good.
LEMMA CancelKeeps == AsInv /\ AsCancel => AsInv'
<1>. SUFFICES ASSUME AsInv, AsCancel PROVE AsInv'  OBVIOUS
<1>1. /\ asTerm' = TRUE /\ asFailed' = asFailed /\ asFlush' = asFlush /\ asFile' = asFile
      /\ asRan' = asRan /\ asUnsaved' = asUnsaved /\ asTurns' = asTurns /\ asPc' = "idle"
      /\ \/ asDirty' = TRUE /\ asT' = 0
         \/ asDirty' = asDirty /\ asRecord' = asRecord /\ asCtx' = asCtx /\ asT' = asT
  BY DEF AsCancel, Over, asMemory, asTurn, asSaving, asPast, asCount
<1>2. AsShape  BY DEF AsInv
<1>3. AsShape'  BY <1>1, <1>2 DEF AsShape, Streaming
<1>4. AsSaved'  BY <1>1 DEF AsInv, AsSaved
<1>5. AsTokens'
  <2>. SUFFICES ASSUME ~asUnsaved PROVE ~Offers(asFailed)' /\ (\A token \in Stored : ~Offers(token))'
    BY <1>1 DEF AsTokens, Running, Streaming
  <2>. QED  BY <1>1 DEF AsInv, AsTokens, Stored, Offers
<1>. QED  BY <1>3, <1>4, <1>5 DEF AsInv

\* The token is withdrawn in memory; what is stored still offers the turn.
LEMMA RetryKeeps == AsInv /\ AsRetry => AsInv'
<1>. SUFFICES ASSUME AsInv, AsRetry PROVE AsInv'  OBVIOUS
<1>1. /\ asPc = "idle" /\ ~asTerm /\ asFailed.retryable /\ asDirty' = TRUE /\ asPc' = "retry"
      /\ asFailed' = [asFailed EXCEPT !.retryable = FALSE] /\ asT' = asT /\ asTerm' = asTerm
      /\ asFlush' = asFlush /\ asFile' = asFile /\ asRan' = asRan /\ asUnsaved' = asUnsaved /\ asTurns' = asTurns
  BY DEF AsRetry, Enter, RetryWaitsFor, asPast, asCount
<1>2. AsShape /\ AsTokens  BY DEF AsInv
<1>3. asFailed' \in AsToken /\ asFailed'.t = asFailed.t /\ ~asFailed'.retryable
  BY <1>1, <1>2 DEF AsShape, AsToken
<1>4. asFlush.by # "turn"  BY <1>1, <1>2 DEF AsShape, Waiting
<1>5. AsShape'  BY <1>1, <1>2, <1>3, <1>4 DEF AsShape
<1>6. AsSaved'  BY <1>1 DEF AsSaved
<1>7. AsTokens'
  <2>. SUFFICES ASSUME ~asUnsaved
                PROVE  /\ ~Offers(asFailed)' /\ (\A token \in Stored : ~Offers(token))'
                       /\ ~asFailed'.retryable /\ asFailed'.t \notin asRan
    BY <1>1, <1>4 DEF AsTokens, Running, Streaming
  <2>1. asFailed.t \notin asRan  BY <1>1, <1>2 DEF AsTokens, Offers
  <2>2. (\A token \in Stored : ~Offers(token))'  BY <1>1, <1>2 DEF AsTokens, Stored, Offers
  <2>. QED  BY <1>3, <2>1, <2>2 DEF Offers
<1>. QED  BY <1>5, <1>6, <1>7 DEF AsInv

-----------------------------------------------------------------------------
(***************************************************************************)
(* AgentSession: the file.                                                 *)
(***************************************************************************)
LEMMA FlushBeginsKeeps == ASSUME AsInv, NEW who \in {"timer", "turn"}, AsFlushBegins(who) PROVE AsInv'
<1>1. /\ asFlush.by = "none" /\ (who = "turn" => Waiting) /\ asDirty' = FALSE
      /\ asFlush' = [by |-> who, failed |-> asFailed, record |-> asRecord, ctx |-> asCtx]
      /\ asRecord' = asRecord /\ asCtx' = asCtx /\ asFailed' = asFailed /\ asPc' = asPc /\ asT' = asT
      /\ asToolStarted' = asToolStarted /\ asTerm' = asTerm
      /\ asFile' = asFile /\ asRan' = asRan /\ asUnsaved' = asUnsaved /\ asTurns' = asTurns
  BY DEF AsFlushBegins, asMemory, asTurn, asPast, asCount
<1>2. AsShape /\ AsTokens  BY DEF AsInv
<1>3. asFlush'.by = who /\ asFlush'.failed = asFailed /\ asFlush'.record = asRecord /\ asFlush'.ctx = asCtx
  BY <1>1
<1>4. AsShape'  BY <1>1, <1>2, <1>3 DEF AsShape, Waiting
<1>5. AsSaved'  BY <1>1, <1>3 DEF AsSaved
<1>6. AsTokens'
  <2>. SUFFICES ASSUME ~asUnsaved
                PROVE  /\ ~Offers(asFailed) /\ ~Offers(asFile.failed)
                       /\ asPc \in {"retry", "resume"} => ~asFailed.retryable /\ asFailed.t \notin asRan
                       /\ asPc = "resume" => (asFile.failed.retryable => asFile.failed.t # asFailed.t)
                       /\ Running => /\ asFailed = NoFailure /\ (~asToolStarted => asT \notin asRan)
                                     /\ ~asFailed.retryable
                                     /\ asFile.failed.retryable => asFile.failed.t # asT
    BY <1>1, <1>3 DEF AsTokens, Running, Offers, Stored
  <2>1. ~NoFailure.retryable  BY DEF NoFailure
  <2>. QED  BY <1>2, <2>1 DEF AsTokens, Stored
<1>. QED  BY <1>4, <1>5, <1>6 DEF AsInv

LEMMA FlushEndsKeeps == ASSUME AsInv, NEW late \in BOOLEAN, AsFlushEnds(late) PROVE AsInv'
<1>1. /\ asFlush.by # "none" /\ asFlush' = NoFlush /\ asPc' = Goes /\ asDirty' = asDirty
      /\ asFile' = [failed |-> asFlush.failed, ctx |-> asFlush.ctx,
                    record |-> IF late THEN asRecord ELSE asFlush.record]
      /\ asRecord' = asRecord /\ asCtx' = asCtx /\ asFailed' = asFailed /\ asT' = asT
      /\ asToolStarted' = asToolStarted /\ asTerm' = asTerm
      /\ asRan' = asRan /\ asUnsaved' = asUnsaved /\ asTurns' = asTurns
  BY DEF AsFlushEnds, asMemory, asTurn, asPast, asCount
<1>2. AsShape /\ AsTokens /\ AsSaved  BY DEF AsInv
<1>3. /\ asFlush'.by = "none" /\ asFlush'.failed = NoFailure
      /\ asFile'.failed = asFlush.failed /\ asFile'.ctx = asFlush.ctx
      /\ asFile'.record = IF late THEN asRecord ELSE asFlush.record
  BY <1>1 DEF NoFlush
<1>4. NoFailure \in AsToken /\ NoFailure.t = 0 /\ ~NoFailure.retryable  BY DEF NoFailure, AsToken
<1>5. \/ asPc' = asPc /\ (asFlush.by = "turn" => ~Waiting)
      \/ asPc = "retry" /\ asPc' = "resume" /\ asFlush.by = "turn"
      \/ asPc = "save" /\ asPc' = "idle"
  BY <1>1 DEF Goes, After, Waiting
<1>6. AsShape'
  <2>1. asTerm => asPc' = "idle"  BY <1>2, <1>5 DEF AsShape
  <2>2. asPc' \in {"idle", "retry", "resume", "prepare", "save"} \cup Streaming  BY <1>2, <1>5 DEF AsShape
  <2>. QED  BY <1>1, <1>2, <1>3, <1>4, <2>1, <2>2 DEF AsShape
<1>7. AsSaved'  BY <1>1, <1>2, <1>3 DEF AsSaved
<1>8. AsTokens'
  <2>. SUFFICES ASSUME ~asUnsaved
                PROVE  /\ ~Offers(asFailed) /\ ~Offers(asFlush.failed)
                       /\ asPc' \in {"retry", "resume"} => ~asFailed.retryable /\ asFailed.t \notin asRan
                       /\ asPc' = "resume" => (asFlush.failed.retryable => asFlush.failed.t # asFailed.t)
                       /\ Running' => /\ asFailed = NoFailure /\ (~asToolStarted => asT \notin asRan)
                                      /\ asFlush.failed.retryable => asFlush.failed.t # asT
    BY <1>1, <1>3, <1>4 DEF AsTokens, Running, Offers, Stored
  <2>1. ~Offers(asFailed) /\ ~Offers(asFlush.failed)  BY <1>2 DEF AsTokens, Stored
  <2>2. CASE asPc' = asPc  BY <1>2, <2>1, <2>2 DEF AsTokens, Stored, Running
  <2>3. CASE asPc = "retry" /\ asPc' = "resume" /\ asFlush.by = "turn"
    <3>1. asFlush.failed = asFailed /\ ~asFailed.retryable /\ asFailed.t \notin asRan  BY <1>2, <2>3 DEF AsTokens
    <3>. QED  BY <2>1, <2>3, <3>1 DEF Running, Streaming
  <2>4. CASE asPc' = "idle"  BY <2>1, <2>4 DEF Running, Streaming
  <2>. QED  BY <1>5, <2>2, <2>3, <2>4
<1>. QED  BY <1>6, <1>7, <1>8 DEF AsInv

\* A save that fails leaves the session dirty; the retry that waited goes on unsaved.
LEMMA FlushFailsKeeps == AsInv /\ AsFlushFails => AsInv'
<1>. SUFFICES ASSUME AsInv, AsFlushFails PROVE AsInv'  OBVIOUS
<1>1. /\ asFlush.by # "none" /\ asFlush' = NoFlush /\ asPc' = Goes /\ asDirty' = TRUE /\ asFile' = asFile
      /\ asFailed' = asFailed /\ asT' = asT /\ asToolStarted' = asToolStarted /\ asTerm' = asTerm
      /\ asRan' = asRan /\ asTurns' = asTurns
      /\ asUnsaved' = (asUnsaved \/ (asFlush.by = "turn" /\ asPc = "retry"))
  BY DEF AsFlushFails, StillDirty, asMemory, asTurn, asPast, asCount
<1>2. AsShape /\ AsTokens  BY DEF AsInv
<1>3. asFlush'.by = "none" /\ asFlush'.failed = NoFailure  BY <1>1 DEF NoFlush
<1>4. NoFailure \in AsToken /\ NoFailure.t = 0 /\ ~NoFailure.retryable  BY DEF NoFailure, AsToken
<1>5. \/ asPc' = asPc
      \/ asPc = "retry" /\ asPc' = "resume" /\ asFlush.by = "turn"
      \/ asPc = "save" /\ asPc' = "idle"
  BY <1>1 DEF Goes, After, Waiting
<1>6. AsShape'
  <2>1. asTerm => asPc' = "idle"  BY <1>2, <1>5 DEF AsShape
  <2>2. asPc' \in {"idle", "retry", "resume", "prepare", "save"} \cup Streaming  BY <1>2, <1>5 DEF AsShape
  <2>. QED  BY <1>1, <1>2, <1>3, <1>4, <2>1, <2>2 DEF AsShape
<1>7. AsSaved'  BY <1>1 DEF AsSaved
<1>8. AsTokens'
  <2>. SUFFICES ASSUME ~asUnsaved, ~(asFlush.by = "turn" /\ asPc = "retry")
                PROVE  /\ ~Offers(asFailed) /\ ~Offers(asFile.failed)
                       /\ asPc' \in {"retry", "resume"} => ~asFailed.retryable /\ asFailed.t \notin asRan
                       /\ asPc' = "resume" => (asFile.failed.retryable => asFile.failed.t # asFailed.t)
                       /\ Running' => /\ asFailed = NoFailure /\ (~asToolStarted => asT \notin asRan)
                                      /\ asFile.failed.retryable => asFile.failed.t # asT
    BY <1>1, <1>3, <1>4 DEF AsTokens, Running, Offers, Stored
  <2>1. ~Offers(asFailed) /\ ~Offers(asFile.failed)  BY <1>2 DEF AsTokens, Stored
  <2>2. CASE asPc' = asPc  BY <1>2, <2>1, <2>2 DEF AsTokens, Stored, Running
  <2>3. CASE asPc' = "idle"  BY <2>1, <2>3 DEF Running, Streaming
  <2>. QED  BY <1>5, <2>2, <2>3
<1>. QED  BY <1>6, <1>7, <1>8 DEF AsInv

\* Everything was written: what is in the file is what the session has.
LEMMA NothingToFlushKeeps == AsInv /\ AsNothingToFlush => AsInv'
<1>. SUFFICES ASSUME AsInv, AsNothingToFlush PROVE AsInv'  OBVIOUS
<1>1. /\ asFlush.by = "none" /\ ~asDirty /\ asFlush' = asFlush /\ asDirty' = asDirty /\ asFile' = asFile
      /\ asRecord' = asRecord /\ asCtx' = asCtx /\ asFailed' = asFailed /\ asT' = asT
      /\ asToolStarted' = asToolStarted /\ asTerm' = asTerm
      /\ asRan' = asRan /\ asUnsaved' = asUnsaved /\ asTurns' = asTurns
  BY DEF AsNothingToFlush, asMemory, asTurn, asSaving, asPast, asCount
<1>2. AsShape /\ AsTokens /\ AsSaved  BY DEF AsInv
<1>3. \/ asPc = "retry" /\ asPc' = "resume"
      \/ asPc = "save" /\ asPc' = "idle"
  BY DEF AsNothingToFlush, After, Waiting
<1>4. AsShape'  BY <1>1, <1>2, <1>3 DEF AsShape
<1>5. AsSaved'  BY <1>1, <1>2 DEF AsSaved
<1>6. asFile.failed = asFailed /\ ~asFlush.failed.retryable
  BY <1>1, <1>2 DEF AsSaved, AsShape, NoFlush, NoFailure
<1>7. AsTokens'
  <2>. SUFFICES ASSUME ~asUnsaved
                PROVE  /\ ~Offers(asFailed)
                       /\ asPc' = "resume" => ~asFailed.retryable /\ asFailed.t \notin asRan
    BY <1>1, <1>3, <1>6 DEF AsTokens, Running, Streaming, Offers, Stored
  <2>. QED  BY <1>2, <1>3 DEF AsTokens
<1>. QED  BY <1>4, <1>5, <1>7 DEF AsInv

\* After an exit there is what is in the file.
LEMMA RestartKeeps == AsInv /\ AsRestart => AsInv'
<1>. SUFFICES ASSUME AsInv, AsRestart PROVE AsInv'  OBVIOUS
<1>1. /\ asFlush' = NoFlush /\ asPc' = "idle" /\ asDirty' = FALSE /\ asFile' = asFile /\ asTerm' = FALSE
      /\ asFailed' = asFile.failed /\ asT' = 0 /\ asRecord' = asFile.record
      /\ asCtx' = (IF asFile.record # <<>> THEN <<>> ELSE asFile.ctx)
      /\ asRan' = asRan /\ asUnsaved' = asUnsaved /\ asTurns' = asTurns
  BY DEF AsRestart, Over, asPast
<1>2. AsShape /\ AsTokens  BY DEF AsInv
<1>3. NoFlush.by = "none" /\ NoFlush.failed = NoFailure  BY DEF NoFlush
<1>4. NoFailure \in AsToken /\ NoFailure.t = 0 /\ ~NoFailure.retryable  BY DEF NoFailure, AsToken
<1>5. AsShape'  BY <1>1, <1>2, <1>3, <1>4 DEF AsShape
<1>6. AsSaved'  BY <1>1, <1>3 DEF AsSaved
<1>7. AsTokens'
  <2>. SUFFICES ASSUME ~asUnsaved PROVE ~Offers(asFile.failed)
    BY <1>1, <1>3, <1>4 DEF AsTokens, Running, Streaming, Offers, Stored
  <2>. QED  BY <1>2 DEF AsTokens, Stored
<1>. QED  BY <1>5, <1>6, <1>7 DEF AsInv

-----------------------------------------------------------------------------
(***************************************************************************)
(* AgentSession: the theorem.                                              *)
(***************************************************************************)
LEMMA AsStepKeeps == AsInv /\ [AsNext]_asVars => AsInv'
<1>. SUFFICES ASSUME AsInv, [AsNext]_asVars PROVE AsInv'  OBVIOUS
<1>1. CASE UNCHANGED asVars
  <2>1. /\ asRecord' = asRecord /\ asCtx' = asCtx /\ asFailed' = asFailed /\ asPc' = asPc /\ asT' = asT
        /\ asToolStarted' = asToolStarted /\ asTerm' = asTerm /\ asDirty' = asDirty /\ asFlush' = asFlush
        /\ asFile' = asFile /\ asRan' = asRan /\ asUnsaved' = asUnsaved /\ asTurns' = asTurns
    BY <1>1 DEF asVars, asMemory, asTurn, asSaving, asPast, asCount
  <2>2. AsShape'  BY <2>1 DEF AsInv, AsShape, Waiting
  <2>3. AsSaved'  BY <2>1 DEF AsInv, AsSaved
  <2>4. AsTokens'  BY <2>1 DEF AsInv, AsTokens, Stored, Offers, Running
  <2>. QED  BY <2>2, <2>3, <2>4 DEF AsInv
<1>2. CASE AsNext
  BY <1>2, SendKeeps, EditKeeps, RetryKeeps, RetriedKeeps, StreamKeeps, CallsKeeps, ToolStartsKeeps,
     TurnStoppedKeeps, FailsKeeps, AbortKeeps, CancelKeeps, FlushBeginsKeeps, FlushEndsKeeps,
     FlushFailsKeeps, NothingToFlushKeeps, RestartKeeps DEF AsNext
<1>. QED  BY <1>1, <1>2

\* Through any number of turns, tools, aborts, failed saves and restarts: a turn is
\* offered for another attempt, in memory or in the file, only if no attempt at it has
\* started a tool, as long as no save that a retry waited for failed; and a session that
\* is neither dirty nor being written is in its file as it is (agent/session.py:
\* retry_failed_turn, _flush_to_disk).
THEOREM SessionSafe == AsSpec => []SessionKept
<1>1. AsInit => AsInv  BY AsInitInv
<1>2. AsInv /\ [AsNext]_asVars => AsInv'  BY AsStepKeeps
<1>3. AsInv => SessionKept  BY SessionOfInv
<1>. QED  BY <1>1, <1>2, <1>3, PTL DEF AsSpec

-----------------------------------------------------------------------------
(***************************************************************************)
(* AgentNode: the invariant.                                               *)
(***************************************************************************)
AnSpec == AnInit /\ [][AnNext]_anVars

AnStates == {"pending", "running", "waiting_approval", "reissue", "completed", "failed"}
AnVerdicts == {"none", "lapsed", "approved", "forced", "rejected"}
AnObject == [st : AnStates, rejections : Nat, session : 0..AnMaxAttempts]
AnAgents == [pc : {"none", "first", "idle", "again", "corrects", "gone"}, inbox : Nat, runs : Nat]
AnMemos == [called : BOOLEAN, asked : BOOLEAN, result : {"none", "success", "failure"},
            event : BOOLEAN, again : BOOLEAN]
AnHandlers == [pc : {"none", "new", "sending", "waiting", "over"}, rung : BOOLEAN]
AnCurrent == [k : 0..AnMaxAttempts, left : Int,
              pc : {"rest", "creating", "approving", "waiting", "checking", "asking"}]

\* Types the definitions rely on.
AnShape ==
  /\ anTakeover \in BOOLEAN /\ anRetries \in 0..1 /\ anRun \in AnCurrent
  /\ anHeld \in 0..Now /\ anPending \in 0..Now
  /\ anObj \in [0..AnMaxAttempts -> AnObject] /\ anAgent \in [Attempts -> AnAgents]
  /\ anMemo \in [Attempts -> AnMemos] /\ anHandler \in [Attempts -> AnHandlers]
  /\ anVerdict \in [Attempts -> AnVerdicts] /\ anTold \in [Attempts -> {"none", "approved", "rejected"}]
  /\ anResult \in {"none", "approved", "rejected"}
  /\ anRun.pc # "rest" => Now \in Attempts

Untouched(k) ==
  anAgent[k].pc = "none" /\ anMemo[k] = NoMemo /\ anHandler[k] = NoHandler /\ anVerdict[k] = "none"

ReportedSuccess(k) == anMemo[k].event /\ anMemo[k].result = "success"

\* What is so of every attempt: one that asks has no verdict and no event yet, and the
\* event comes with a verdict, or with a first run that is over.
AttemptOf(k) ==
  /\ k > Now \/ (k = Now /\ anRun.pc = "creating") => Untouched(k)
  /\ anTakeover /\ anAgent[k].pc = "first" /\ ~anMemo[k].asked =>
       anHandler[k] = NoHandler /\ anVerdict[k] = "none" /\ ~anMemo[k].event
  /\ anHandler[k].pc \in {"new", "sending", "waiting"} =>
       anTakeover /\ anVerdict[k] = "none" /\ ~anMemo[k].event
  /\ ~anTakeover =>
       /\ anHandler[k].pc = "none" /\ anAgent[k].inbox = 0 /\ anAgent[k].pc # "again"
       /\ anMemo[k].event => anAgent[k].pc # "first"
  /\ anTakeover /\ ReportedSuccess(k) => anVerdict[k] \in {"approved", "lapsed", "forced"}
  /\ anObj[k].st = "completed" => ReportedSuccess(k)
  /\ k = Now /\ anRun.pc \in {"checking", "asking"} => ReportedSuccess(k)

\* Without a takeover nobody is asked.
NobodyAsked == ~anTakeover => \A k \in 0..AnMaxAttempts : anObj[k].st \notin {"waiting_approval", "reissue"}

\* The registry has the event of a coroutine that asks.
Registered == anPending # 0 => anHandler[anPending].pc \in {"sending", "waiting"}

\* What is so of attempt k as long as none left something behind that asks: only the
\* current attempt asks, it is registered and its state is the task's, and the answer
\* in the registry is the one a person gave it.
AnsweredOf(k) ==
  /\ anHandler[k].pc \in {"sending", "waiting"} => k = Now /\ anPending = k /\ anHeld = k
  /\ k < Now \/ (k = Now /\ anRun.pc = "rest") => ~MayAsk(k)
  /\ anHandler[k].pc \in {"none", "new"} => ~anHandler[k].rung
  /\ anHandler[k].pc \in {"sending", "waiting"} /\ anHandler[k].rung =>
       anResult # "none" /\ anResult = anTold[k]
  /\ anVerdict[k] = "approved" => anTold[k] = "approved"
  /\ anVerdict[k] \in {"rejected", "forced"} => anTold[k] = "rejected"
AnInv ==
  /\ AnShape /\ NobodyAsked /\ Registered /\ \A k \in Attempts : AttemptOf(k)
  /\ ~anOutlived => \A k \in Attempts : AnsweredOf(k)

-----------------------------------------------------------------------------
(***************************************************************************)
(* AgentNode: what a step about one attempt changes.                       *)
(***************************************************************************)
\* The local variables of an attempt after a step wrote some of them.
MemoOnly(k, called, asked, result, event) ==
  /\ anMemo' \in [Attempts -> AnMemos] /\ \A j \in Attempts : j # k => anMemo'[j] = anMemo[j]
  /\ anMemo'[k].called = called /\ anMemo'[k].asked = asked
  /\ anMemo'[k].result = result /\ anMemo'[k].event = event

LEMMA MemoCalled ==
  ASSUME anMemo \in [Attempts -> AnMemos], NEW k \in Attempts,
         anMemo' = [anMemo EXCEPT ![k].called = TRUE]
  PROVE  MemoOnly(k, TRUE, anMemo[k].asked, anMemo[k].result, anMemo[k].event)
BY DEF AnMemos, MemoOnly

LEMMA MemoAsked ==
  ASSUME anMemo \in [Attempts -> AnMemos], NEW k \in Attempts, NEW r \in {"success", "failure"},
         anMemo' = [anMemo EXCEPT ![k] = [@ EXCEPT !.called = TRUE, !.asked = TRUE, !.result = r]]
  PROVE  MemoOnly(k, TRUE, TRUE, r, anMemo[k].event)
BY DEF AnMemos, MemoOnly

LEMMA MemoAgain ==
  ASSUME anMemo \in [Attempts -> AnMemos], NEW k \in Attempts, NEW r \in {"none", "success", "failure"},
         anMemo' = [anMemo EXCEPT ![k].again = TRUE, ![k].result = r]
  PROVE  MemoOnly(k, anMemo[k].called, anMemo[k].asked, r, anMemo[k].event)
BY DEF AnMemos, MemoOnly

LEMMA MemoReported ==
  ASSUME anMemo \in [Attempts -> AnMemos], NEW k \in Attempts, NEW r \in {"success", "failure"},
         anMemo' = [anMemo EXCEPT ![k].called = TRUE, ![k].result = r]
  PROVE  MemoOnly(k, TRUE, anMemo[k].asked, r, anMemo[k].event)
BY DEF AnMemos, MemoOnly

LEMMA MemoEnded ==
  ASSUME anMemo \in [Attempts -> AnMemos], NEW k \in Attempts, NEW r \in {"none", "success", "failure"},
         anMemo' = [anMemo EXCEPT ![k].called = TRUE, ![k].event = TRUE, ![k].result = r]
  PROVE  MemoOnly(k, TRUE, anMemo[k].asked, r, TRUE)
BY DEF AnMemos, MemoOnly

LEMMA MemoFailed ==
  ASSUME anMemo \in [Attempts -> AnMemos], NEW k \in Attempts,
         anMemo' = [anMemo EXCEPT ![k].result = "failure", ![k].event = TRUE]
  PROVE  MemoOnly(k, anMemo[k].called, anMemo[k].asked, "failure", TRUE)
BY DEF AnMemos, MemoOnly

LEMMA MemoEvent ==
  ASSUME anMemo \in [Attempts -> AnMemos], NEW k \in Attempts,
         anMemo' = [anMemo EXCEPT ![k].event = TRUE]
  PROVE  MemoOnly(k, anMemo[k].called, anMemo[k].asked, anMemo[k].result, TRUE)
BY DEF AnMemos, MemoOnly

HandlerOnly(k, pc, rung) ==
  /\ anHandler' \in [Attempts -> AnHandlers] /\ \A j \in Attempts : j # k => anHandler'[j] = anHandler[j]
  /\ anHandler'[k].pc = pc /\ anHandler'[k].rung = rung
AgentOnly(k, pc, inbox) ==
  /\ anAgent' \in [Attempts -> AnAgents] /\ \A j \in Attempts : j # k => anAgent'[j] = anAgent[j]
  /\ anAgent'[k].pc = pc /\ anAgent'[k].inbox = inbox
ObjOnly(k, st) ==
  /\ anObj' \in [0..AnMaxAttempts -> AnObject] /\ \A j \in 0..AnMaxAttempts : j # k => anObj'[j] = anObj[j]
  /\ anObj'[k].st = st
RunAt(pc) == anRun' \in AnCurrent /\ anRun'.k = anRun.k /\ anRun'.pc = pc

LEMMA HandlerGoes ==
  ASSUME anHandler \in [Attempts -> AnHandlers], NEW k \in Attempts,
         NEW pc \in {"none", "new", "sending", "waiting", "over"},
         anHandler' = [anHandler EXCEPT ![k].pc = pc]
  PROVE  HandlerOnly(k, pc, anHandler[k].rung)
BY DEF AnHandlers, HandlerOnly

LEMMA HandlerRings ==
  ASSUME anHandler \in [Attempts -> AnHandlers], NEW k \in Attempts,
         anHandler' = [anHandler EXCEPT ![k].rung = TRUE]
  PROVE  HandlerOnly(k, anHandler[k].pc, TRUE)
BY DEF AnHandlers, HandlerOnly

LEMMA AgentGoes ==
  ASSUME anAgent \in [Attempts -> AnAgents], NEW k \in Attempts,
         NEW pc \in {"none", "first", "idle", "again", "corrects", "gone"},
         anAgent' = [anAgent EXCEPT ![k].pc = pc]
  PROVE  AgentOnly(k, pc, anAgent[k].inbox)
BY DEF AnAgents, AgentOnly

LEMMA ObjGoes ==
  ASSUME anObj \in [0..AnMaxAttempts -> AnObject], NEW k \in 0..AnMaxAttempts, NEW st \in AnStates,
         anObj' = [anObj EXCEPT ![k].st = st]
  PROVE  ObjOnly(k, st)
BY DEF AnObject, ObjOnly

LEMMA RunGoes ==
  ASSUME anRun \in AnCurrent,
         NEW pc \in {"rest", "creating", "approving", "waiting", "checking", "asking"},
         anRun' = [anRun EXCEPT !.pc = pc]
  PROVE  RunAt(pc)
BY DEF AnCurrent, RunAt

LEMMA RunAsks ==
  ASSUME anRun \in AnCurrent, anRun' = [anRun EXCEPT !.left = @ - 1, !.pc = "asking"]
  PROVE  RunAt("asking")
<1>1. \A r \in AnCurrent, l \in Int :
        /\ [r EXCEPT !.left = l, !.pc = "asking"] \in AnCurrent
        /\ [r EXCEPT !.left = l, !.pc = "asking"].k = r.k
        /\ [r EXCEPT !.left = l, !.pc = "asking"].pc = "asking"
  BY DEF AnCurrent
<1>2. PICK l \in Int : l = anRun.left - 1  BY DEF AnCurrent
<1>3. anRun' = [anRun EXCEPT !.left = l, !.pc = "asking"]  BY <1>2
<1>. DEFINE asks == [anRun EXCEPT !.left = l, !.pc = "asking"]
<1>4. asks \in AnCurrent /\ asks.k = anRun.k /\ asks.pc = "asking"  BY <1>1, ZenonT(20)
<1>5. anRun' = asks  BY <1>3, Zenon
<1>. HIDE DEF asks
<1>. QED  BY <1>4, <1>5 DEF RunAt

LEMMA PendingAttempt == AnShape /\ anPending # 0 => anPending \in Attempts
BY AnAssumption DEF AnShape, AnCurrent, Attempts, Now

\* A step that is about one attempt: the others are as they were, but for a message in
\* the inbox of a session.
LEMMA OneAttempt ==
  ASSUME AnInv, NEW k \in Attempts, AnShape', Registered', AttemptOf(k)',
         anTakeover' = anTakeover, anRun'.k = anRun.k, k = Now \/ anRun'.pc = anRun.pc,
         anOutlived => anOutlived',
         \A j \in 0..AnMaxAttempts : j # k => anObj'[j] = anObj[j],
         ~anTakeover => anObj'[k].st \notin {"waiting_approval", "reissue"},
         \A j \in Attempts : j # k =>
            /\ anMemo'[j] = anMemo[j] /\ anHandler'[j] = anHandler[j] /\ anVerdict'[j] = anVerdict[j]
            /\ anTold'[j] = anTold[j] /\ anAgent'[j].pc = anAgent[j].pc
            /\ anAgent'[j].inbox = anAgent[j].inbox \/ anTakeover,
         ~anOutlived' => /\ AnsweredOf(k)'
                         /\ \/ k = Now
                            \/ anPending' = anPending /\ anHeld' = anHeld /\ anResult' = anResult
  PROVE  AnInv'
<1>1. \A j \in Attempts : AttemptOf(j)  BY DEF AnInv
<1>2. anRun \in AnCurrent /\ AnMaxAttempts \in Nat  BY AnAssumption DEF AnInv, AnShape
<1>3. NobodyAsked'  BY DEF AnInv, NobodyAsked
<1>4. ASSUME NEW j \in Attempts, j # k PROVE AttemptOf(j)'
  <2>1. anObj'[j] = anObj[j]  BY <1>2, <1>4 DEF Attempts
  <2>2. j = Now => anRun'.pc = anRun.pc  BY <1>4
  <2>. QED  BY <1>1, <1>4, <2>1, <2>2 DEF AttemptOf, Untouched, ReportedSuccess, Now
<1>5. ASSUME ~anOutlived', NEW j \in Attempts, j # k PROVE AnsweredOf(j)'
  <2>1. AnsweredOf(j)  BY <1>5 DEF AnInv
  <2>2. j = Now => anRun'.pc = anRun.pc /\ anPending' = anPending /\ anHeld' = anHeld /\ anResult' = anResult
    BY <1>5
  <2>3. MayAsk(j)' = MayAsk(j)  BY <1>5 DEF MayAsk
  <2>. QED  BY <1>5, <2>1, <2>2, <2>3 DEF AnsweredOf, Now
<1>. QED  BY <1>3, <1>4, <1>5 DEF AnInv

-----------------------------------------------------------------------------
(***************************************************************************)
(* AgentNode: the attempt.                                                 *)
(***************************************************************************)
\* execute returns: with a success only when that was decided.
LEMMA ReturnsKeeps ==
  ASSUME AnInv, anRun.pc # "rest", NEW k \in Attempts, k = anRun.k,
         NEW st \in {"failed", "completed"}, AnReturns(st), st = "completed" => ReportedSuccess(k),
         \/ anAgent' = anAgent
         \/ anAgent' = [anAgent EXCEPT ![k].pc = "idle"],
         anTakeover' = anTakeover, anRetries' = anRetries, anMemo' = anMemo, anHandler' = anHandler,
         anPending' = anPending, anResult' = anResult, anVerdict' = anVerdict, anTold' = anTold
  PROVE  AnInv'
<1>1. AnShape /\ k \in 0..AnMaxAttempts /\ AnMaxAttempts \in Nat /\ AttemptOf(k)
  BY AnAssumption DEF AnInv, Attempts
<1>2. anRun \in AnCurrent /\ anAgent \in [Attempts -> AnAgents] /\ anObj \in [0..AnMaxAttempts -> AnObject]
  BY <1>1 DEF AnShape
<1>3. /\ RunAt("rest") /\ anHeld' = k /\ anOutlived' = (anOutlived \/ MayAsk(k))
      /\ anObj' = [anObj EXCEPT ![k].st = st]
  BY <1>2, RunGoes DEF AnReturns, Now
<1>4. ObjOnly(k, st)
  <2>1. st \in AnStates  BY DEF AnStates
  <2>. QED  BY <1>1, <1>2, <1>3, <2>1, ObjGoes
<1>5. /\ anAgent' \in [Attempts -> AnAgents] /\ \A j \in Attempts : j # k => anAgent'[j] = anAgent[j]
      /\ anAgent'[k].inbox = anAgent[k].inbox
      /\ anAgent'[k].pc = anAgent[k].pc \/ anAgent'[k].pc = "idle"
  <2>1. CASE anAgent' = anAgent  BY <1>2, <2>1
  <2>2. CASE anAgent' = [anAgent EXCEPT ![k].pc = "idle"]
    BY <1>2, <2>2, AgentGoes DEF AgentOnly
  <2>. QED  BY <2>1, <2>2
<1>6. AnShape'
  <2>1. anHeld' \in 0..Now' /\ anPending' \in 0..Now'  BY <1>1, <1>3 DEF AnShape, RunAt, Now
  <2>2. anRun' \in AnCurrent /\ anRun'.pc = "rest" /\ anObj' \in [0..AnMaxAttempts -> AnObject]
    BY <1>3, <1>4 DEF RunAt, ObjOnly
  <2>. QED  BY <1>1, <1>5, <2>1, <2>2 DEF AnShape
<1>7. Registered'  BY DEF AnInv, Registered
<1>8. anRun'.k = k /\ anRun'.pc = "rest" /\ anObj'[k].st = st
  BY <1>3, <1>4 DEF RunAt, ObjOnly
<1>9. AttemptOf(k)'
  <2>1. ~(k > anRun'.k)  BY <1>1, <1>8
  <2>. QED  BY <1>1, <1>5, <1>8, <2>1 DEF AttemptOf, ReportedSuccess, Now
<1>10. ASSUME ~anOutlived' PROVE AnsweredOf(k)'
  <2>1. AnsweredOf(k) /\ ~MayAsk(k)  BY <1>3, <1>10 DEF AnInv
  <2>2. ~MayAsk(k)'  BY <1>5, <2>1 DEF MayAsk
  <2>. QED  BY <1>3, <1>8, <2>1, <2>2 DEF AnsweredOf, Now
<1>11. \A j \in 0..AnMaxAttempts : j # k => anObj'[j] = anObj[j]  BY <1>4 DEF ObjOnly
<1>12. anOutlived => anOutlived'  BY <1>3
<1>. QED  BY <1>5, <1>6, <1>7, <1>8, <1>9, <1>10, <1>11, <1>12, OneAttempt DEF Now

LEMMA CurrentAttempt == ASSUME AnInv, anRun.pc # "rest" PROVE \E k \in Attempts : k = anRun.k
BY DEF AnInv, AnShape, Now

\* The current attempt goes on.
LEMMA AttemptGoesOn ==
  ASSUME AnInv, NEW k \in Attempts, k = anRun.k, AnShape',
         anRun'.k = k, anRun.pc # "rest", anRun'.pc \notin {"rest", "creating"},
         anRun'.pc \in {"checking", "asking"} => ReportedSuccess(k),
         \A j \in 0..AnMaxAttempts : anObj'[j].st = anObj[j].st /\ (j # k => anObj'[j] = anObj[j]),
         \A j \in Attempts : j # k => anAgent'[j] = anAgent[j], anAgent'[k].inbox = anAgent[k].inbox,
         anAgent'[k].pc \in {anAgent[k].pc, "corrects"} \/
           (anAgent'[k].pc \in {"first", "idle"} /\ (anAgent'[k].pc = "first" => Untouched(k))),
         anHeld' \in {anHeld, k},
         anTakeover' = anTakeover, anMemo' = anMemo, anHandler' = anHandler, anOutlived' = anOutlived,
         anPending' = anPending, anResult' = anResult, anVerdict' = anVerdict, anTold' = anTold
  PROVE  AnInv'
<1>1. AttemptOf(k) /\ k \in 0..AnMaxAttempts /\ AnMaxAttempts \in Nat /\ k \in Nat
  BY AnAssumption DEF AnInv, Attempts
<1>2. Registered'  BY DEF AnInv, Registered
<1>3. NoMemo.event = FALSE  BY DEF NoMemo
<1>4. AttemptOf(k)'
  <2>1. ~(k > anRun'.k)  BY <1>1
  <2>2. anObj'[k].st = anObj[k].st  BY <1>1
  <2>. QED  BY <1>1, <1>3, <2>1, <2>2 DEF AttemptOf, ReportedSuccess, Now, Untouched
<1>5. ASSUME ~anOutlived' PROVE AnsweredOf(k)'
  <2>1. AnsweredOf(k)  BY <1>5 DEF AnInv
  <2>2. ~(k < anRun'.k)  BY <1>1
  <2>. QED  BY <2>1, <2>2 DEF AnsweredOf, Now
<1>6. ~anTakeover => anObj'[k].st \notin {"waiting_approval", "reissue"}  BY <1>1 DEF AnInv, NobodyAsked
<1>. QED  BY <1>2, <1>4, <1>5, <1>6, OneAttempt DEF Now

LEMMA CreatesKeeps == AnInv /\ AnCreates => AnInv'
<1>. SUFFICES ASSUME AnInv, AnCreates PROVE AnInv'  OBVIOUS
<1>1. anRun.pc = "creating"  BY DEF AnCreates
<1>2. PICK k \in Attempts : k = anRun.k  BY <1>1, CurrentAttempt
<1>3. /\ anTakeover' = anTakeover /\ anRetries' = anRetries /\ anMemo' = anMemo /\ anHandler' = anHandler
      /\ anPending' = anPending /\ anResult' = anResult /\ anVerdict' = anVerdict /\ anTold' = anTold
  BY DEF AnCreates, anCtl, anEngine, anPast
<1>4. AnShape /\ AttemptOf(k) /\ k \in 0..AnMaxAttempts  BY AnAssumption DEF AnInv, Attempts
<1>5. CASE AnReturns("failed") /\ anAgent' = anAgent  BY <1>1, <1>2, <1>3, <1>5, ReturnsKeeps
<1>6. CASE /\ anRun' = [anRun EXCEPT !.pc = "waiting"] /\ anAgent' = [anAgent EXCEPT ![k].pc = "first"]
           /\ anObj' = [anObj EXCEPT ![k].session = k] /\ anHeld' = k /\ anOutlived' = anOutlived
  <2>1. anRun' \in AnCurrent /\ anRun'.k = k /\ anRun'.pc = "waiting"
    BY <1>2, <1>4, <1>6, RunGoes DEF AnShape, RunAt
  <2>2. AgentOnly(k, "first", anAgent[k].inbox)  BY <1>4, <1>6, AgentGoes DEF AnShape
  <2>3. /\ anObj' \in [0..AnMaxAttempts -> AnObject]
        /\ \A j \in 0..AnMaxAttempts : anObj'[j].st = anObj[j].st /\ (j # k => anObj'[j] = anObj[j])
    BY <1>4, <1>6 DEF AnShape, AnObject
  <2>4. anHeld' \in 0..Now' /\ anPending' \in 0..Now'  BY <1>2, <1>3, <1>4, <1>6, <2>1 DEF AnShape, Now, Attempts
  <2>5. AnShape'  BY <1>2, <1>3, <1>4, <2>1, <2>2, <2>3, <2>4 DEF AnShape, AgentOnly, Now
  <2>6. Untouched(k)  BY <1>1, <1>2, <1>4 DEF AttemptOf, Now
  <2>. QED  BY <1>1, <1>2, <1>3, <1>6, <2>1, <2>2, <2>3, <2>5, <2>6, AttemptGoesOn DEF AgentOnly
<1>. QED  BY <1>2, <1>5, <1>6 DEF AnCreates, Now

\* Only where the attempt is changes, and what its agent is at.
LEMMA PlaceKeeps ==
  ASSUME AnInv, NEW k \in Attempts, k = anRun.k, anRun.pc # "rest",
         anRun' \in AnCurrent, anRun'.k = k, anRun'.pc \in {"waiting", "checking", "asking"},
         anRun'.pc \in {"checking", "asking"} => ReportedSuccess(k),
         \/ anAgent' = anAgent
         \/ \E pc \in {"corrects", "idle"} : anAgent' = [anAgent EXCEPT ![k].pc = pc],
         anObj' = anObj, anHeld' = anHeld, anOutlived' = anOutlived,
         anTakeover' = anTakeover, anRetries' = anRetries, anMemo' = anMemo, anHandler' = anHandler,
         anPending' = anPending, anResult' = anResult, anVerdict' = anVerdict, anTold' = anTold
  PROVE  AnInv'
<1>1. AnShape  BY DEF AnInv
<1>2. /\ anAgent' \in [Attempts -> AnAgents] /\ \A j \in Attempts : j # k => anAgent'[j] = anAgent[j]
      /\ anAgent'[k].inbox = anAgent[k].inbox /\ anAgent'[k].pc \in {anAgent[k].pc, "corrects", "idle"}
  <2>1. CASE anAgent' = anAgent  BY <1>1, <2>1 DEF AnShape
  <2>2. ASSUME NEW pc \in {"corrects", "idle"}, anAgent' = [anAgent EXCEPT ![k].pc = pc]
        PROVE  AgentOnly(k, pc, anAgent[k].inbox)
    BY <1>1, <2>2, AgentGoes DEF AnShape
  <2>. QED  BY <2>1, <2>2 DEF AgentOnly
<1>3. AnShape'  BY <1>1, <1>2 DEF AnShape, Now
<1>4. \A j \in 0..AnMaxAttempts : anObj'[j].st = anObj[j].st /\ anObj'[j] = anObj[j]  OBVIOUS
<1>. QED  BY <1>2, <1>3, <1>4, AttemptGoesOn

LEMMA ApprovedKeeps == AnInv /\ AnApproved => AnInv'
<1>. SUFFICES ASSUME AnInv, AnApproved PROVE AnInv'  OBVIOUS
<1>1. anRun.pc = "approving" /\ anRun' = [anRun EXCEPT !.pc = "waiting"]  BY DEF AnApproved
<1>2. PICK k \in Attempts : k = anRun.k  BY <1>1, CurrentAttempt
<1>3. anRun' \in AnCurrent /\ anRun'.k = k /\ anRun'.pc = "waiting"
  BY <1>1, <1>2, RunGoes DEF AnInv, AnShape, RunAt
<1>4. /\ anTakeover' = anTakeover /\ anRetries' = anRetries /\ anMemo' = anMemo /\ anHandler' = anHandler
      /\ anPending' = anPending /\ anResult' = anResult /\ anVerdict' = anVerdict /\ anTold' = anTold
      /\ anObj' = anObj /\ anHeld' = anHeld /\ anOutlived' = anOutlived /\ anAgent' = anAgent
  BY DEF AnApproved, anCtl, anEngine, anPast
<1>. QED  BY <1>1, <1>2, <1>3, <1>4, PlaceKeeps

LEMMA TimesOutWaits == AnInv /\ AnTimesOut => AnInv'
<1>. SUFFICES ASSUME AnInv, AnTimesOut PROVE AnInv'  OBVIOUS
<1>1. anRun.pc = "waiting" /\ AnReturns("failed")  BY DEF AnTimesOut
<1>2. PICK k \in Attempts : k = anRun.k  BY <1>1, CurrentAttempt
<1>3. /\ anTakeover' = anTakeover /\ anRetries' = anRetries /\ anMemo' = anMemo /\ anHandler' = anHandler
      /\ anPending' = anPending /\ anResult' = anResult /\ anVerdict' = anVerdict /\ anTold' = anTold
      /\ anAgent' = anAgent
  BY DEF AnTimesOut, anCtl, anEngine, anPast
<1>. QED  BY <1>1, <1>2, <1>3, ReturnsKeeps

LEMMA WakesDecided == AnInv /\ AnWakes => AnInv'
<1>. SUFFICES ASSUME AnInv, AnWakes PROVE AnInv'  OBVIOUS
<1>1. anRun.pc = "waiting"  BY DEF AnWakes
<1>2. PICK k \in Attempts : k = anRun.k  BY <1>1, CurrentAttempt
<1>3. /\ anTakeover' = anTakeover /\ anRetries' = anRetries /\ anMemo' = anMemo /\ anHandler' = anHandler
      /\ anPending' = anPending /\ anResult' = anResult /\ anVerdict' = anVerdict /\ anTold' = anTold
      /\ anAgent' = anAgent
  BY DEF AnWakes, anCtl, anEngine, anPast
<1>4. CASE AnReturns("failed")  BY <1>1, <1>2, <1>3, <1>4, ReturnsKeeps
<1>5. CASE /\ anMemo[k].event /\ anMemo[k].result = "success" /\ anRun' = [anRun EXCEPT !.pc = "checking"]
           /\ anObj' = anObj /\ anHeld' = anHeld /\ anOutlived' = anOutlived
  <2>1. anRun' \in AnCurrent /\ anRun'.k = k /\ anRun'.pc = "checking"
    BY <1>2, <1>5, RunGoes DEF AnInv, AnShape, RunAt
  <2>2. ReportedSuccess(k)  BY <1>5 DEF ReportedSuccess
  <2>. QED  BY <1>1, <1>2, <1>3, <1>5, <2>1, <2>2, PlaceKeeps
<1>. QED  BY <1>2, <1>4, <1>5 DEF AnWakes, Now

LEMMA ChecksKeeps == AnInv /\ (AnChecks \/ AnCorrected) => AnInv'
<1>. SUFFICES ASSUME AnInv, AnChecks \/ AnCorrected PROVE AnInv'  OBVIOUS
<1>1. anRun.pc \in {"checking", "asking"}  BY DEF AnChecks, AnCorrected
<1>2. PICK k \in Attempts : k = anRun.k  BY <1>1, CurrentAttempt
<1>3. /\ anTakeover' = anTakeover /\ anRetries' = anRetries /\ anMemo' = anMemo /\ anHandler' = anHandler
      /\ anPending' = anPending /\ anResult' = anResult /\ anVerdict' = anVerdict /\ anTold' = anTold
  BY DEF AnChecks, AnCorrected, anCtl, anEngine, anPast
<1>4. ReportedSuccess(k)  BY <1>1, <1>2 DEF AnInv, AttemptOf, Now
<1>5. anRun \in AnCurrent  BY DEF AnInv, AnShape
<1>6. CASE AnChecks
  <2>1. ASSUME NEW st \in {"failed", "completed"}, AnReturns(st), anAgent' = anAgent PROVE AnInv'
    BY <1>1, <1>2, <1>3, <1>4, <2>1, ReturnsKeeps
  <2>2. CASE /\ anRun' = [anRun EXCEPT !.left = @ - 1, !.pc = "asking"]
             /\ anAgent' = [anAgent EXCEPT ![k].pc = "corrects"]
             /\ anObj' = anObj /\ anHeld' = anHeld /\ anOutlived' = anOutlived
    <3>1. anRun' \in AnCurrent /\ anRun'.k = k /\ anRun'.pc = "asking"  BY <1>2, <1>5, <2>2, RunAsks DEF RunAt
    <3>. QED  BY <1>1, <1>2, <1>3, <1>4, <2>2, <3>1, PlaceKeeps
  <2>. QED  BY <1>2, <1>6, <2>1, <2>2 DEF AnChecks, Now
<1>7. CASE AnCorrected
  <2>1. anAgent' = [anAgent EXCEPT ![k].pc = "idle"]  BY <1>2, <1>7 DEF AnCorrected, Now
  <2>2. CASE AnReturns("failed")  BY <1>1, <1>2, <1>3, <2>1, <2>2, ReturnsKeeps
  <2>3. CASE /\ anRun' = [anRun EXCEPT !.pc = "checking"]
             /\ anObj' = anObj /\ anHeld' = anHeld /\ anOutlived' = anOutlived
    <3>1. anRun' \in AnCurrent /\ anRun'.k = k /\ anRun'.pc = "checking"  BY <1>2, <1>5, <2>3, RunGoes DEF RunAt
    <3>. QED  BY <1>1, <1>2, <1>3, <1>4, <2>1, <2>3, <3>1, PlaceKeeps
  <2>. QED  BY <1>7, <2>2, <2>3 DEF AnCorrected
<1>. QED  BY <1>6, <1>7

-----------------------------------------------------------------------------
(***************************************************************************)
(* AgentNode: the agent.                                                   *)
(***************************************************************************)
AsksNow(k) ==
  /\ anTakeover /\ anAgent[k].pc = "first" /\ ~anMemo[k].asked /\ anMemo'[k].asked
  /\ HandlerOnly(k, "new", anHandler[k].rung)

\* The agent of attempt k does something, of which only the attempt hears.
LEMMA AgentWorks ==
  ASSUME AnInv, NEW k \in Attempts, anAgent[k].pc # "none",
         anTakeover' = anTakeover, anRetries' = anRetries, anObj' = anObj, anHeld' = anHeld,
         anRun' = anRun, anPending' = anPending, anResult' = anResult, anVerdict' = anVerdict,
         anTold' = anTold, anOutlived' = anOutlived,
         AgentOnly(k, anAgent'[k].pc, anAgent'[k].inbox),
         anAgent'[k].pc = "first" => anAgent[k].pc = "first",
         ~anTakeover => anAgent'[k].inbox = anAgent[k].inbox /\ anAgent'[k].pc # "again",
         MemoOnly(k, anMemo'[k].called, anMemo'[k].asked, anMemo'[k].result, anMemo'[k].event),
         anMemo[k].asked => anMemo'[k].asked,
         anMemo[k].event => anMemo'[k].event /\ anMemo'[k].result = anMemo[k].result,
         anMemo'[k].event => anMemo[k].event \/ (~anTakeover /\ anAgent'[k].pc # "first"),
         anHandler' = anHandler \/ AsksNow(k)
  PROVE  AnInv'
<1>1. AnShape /\ AttemptOf(k) /\ Registered /\ NobodyAsked  BY DEF AnInv
<1>2. NoHandler.pc = "none" /\ ~NoHandler.rung  BY DEF NoHandler
<1>3. /\ anHandler' \in [Attempts -> AnHandlers] /\ \A j \in Attempts : j # k => anHandler'[j] = anHandler[j]
      /\ \/ anHandler'[k] = anHandler[k]
         \/ AsksNow(k) /\ anHandler'[k].pc = "new" /\ ~anHandler'[k].rung /\ anHandler[k].pc = "none"
              /\ anVerdict[k] = "none" /\ ~anMemo[k].event
  <2>1. CASE anHandler' = anHandler  BY <1>1, <2>1 DEF AnShape
  <2>2. CASE AsksNow(k)
    <3>1. anHandler[k] = NoHandler /\ anVerdict[k] = "none" /\ ~anMemo[k].event
      BY <1>1, <2>2 DEF AsksNow, AttemptOf
    <3>. QED  BY <1>2, <2>2, <3>1 DEF AsksNow, HandlerOnly
  <2>. QED  BY <2>1, <2>2
<1>4. AnShape'  BY <1>1, <1>3 DEF AnShape, AgentOnly, MemoOnly, Now
<1>5. Registered'
  <2>. SUFFICES ASSUME anPending # 0 PROVE anHandler'[anPending].pc \in {"sending", "waiting"}
    BY DEF Registered
  <2>1. anPending \in Attempts /\ anHandler[anPending].pc \in {"sending", "waiting"}
    BY <1>1, PendingAttempt DEF Registered
  <2>2. CASE anPending = k  BY <1>3, <2>1, <2>2
  <2>3. CASE anPending # k  BY <1>3, <2>1, <2>3
  <2>. QED  BY <2>2, <2>3
<1>6. ~(k > Now) /\ ~(k = Now /\ anRun.pc = "creating")  BY <1>1 DEF AttemptOf, Untouched
<1>7. AttemptOf(k)'
  <2>1. CASE anHandler'[k] = anHandler[k]  BY <1>1, <1>6, <2>1 DEF AttemptOf, ReportedSuccess, Now
  <2>2. CASE /\ AsksNow(k) /\ anHandler'[k].pc = "new"
             /\ anVerdict[k] = "none" /\ ~anMemo[k].event
    BY <1>1, <1>6, <2>2 DEF AttemptOf, ReportedSuccess, Now, AsksNow
  <2>. QED  BY <1>3, <2>1, <2>2
<1>8. ASSUME ~anOutlived' PROVE AnsweredOf(k)'
  <2>1. AnsweredOf(k)  BY <1>8 DEF AnInv
  <2>2. CASE anHandler'[k] = anHandler[k]
    <3>1. MayAsk(k)' => MayAsk(k)  BY <2>2 DEF MayAsk
    <3>. QED  BY <2>1, <2>2, <3>1 DEF AnsweredOf, Now
  <2>3. CASE AsksNow(k) /\ anHandler'[k].pc = "new" /\ ~anHandler'[k].rung
    <3>1. MayAsk(k)  BY <2>3 DEF MayAsk, AsksNow
    <3>. QED  BY <2>1, <2>3, <3>1 DEF AnsweredOf, Now
  <2>. QED  BY <1>3, <2>2, <2>3
<1>9. /\ \A j \in 0..AnMaxAttempts : j # k => anObj'[j] = anObj[j]
      /\ ~anTakeover => anObj'[k].st \notin {"waiting_approval", "reissue"}
  BY <1>1, AnAssumption DEF NobodyAsked, Attempts
<1>. QED  BY <1>3, <1>4, <1>5, <1>7, <1>8, <1>9, OneAttempt DEF AgentOnly, MemoOnly

\* request_approval asks once.
LEMMA RequestsOnce ==
  ASSUME AnInv, NEW k \in Attempts, NEW r \in {"success", "failure"}, AnRequests(k, r),
         anTakeover, anAgent[k].pc = "first"
  PROVE  /\ MemoOnly(k, anMemo'[k].called, anMemo'[k].asked, anMemo'[k].result, anMemo'[k].event)
         /\ anMemo[k].asked => anMemo'[k].asked
         /\ anMemo[k].event => anMemo'[k].event /\ anMemo'[k].result = anMemo[k].result
         /\ anMemo'[k].event => anMemo[k].event
         /\ anHandler' = anHandler \/ AsksNow(k)
<1>1. AnShape /\ AttemptOf(k)  BY DEF AnInv
<1>2. anMemo \in [Attempts -> AnMemos] /\ anHandler \in [Attempts -> AnHandlers]  BY <1>1 DEF AnShape
<1>3. CASE anMemo[k].asked
  <2>1. anHandler' = anHandler /\ anMemo' = [anMemo EXCEPT ![k].called = TRUE]  BY <1>3 DEF AnRequests
  <2>2. MemoOnly(k, TRUE, anMemo[k].asked, anMemo[k].result, anMemo[k].event)  BY <1>2, <2>1, MemoCalled
  <2>. QED  BY <2>1, <2>2 DEF MemoOnly
<1>4. CASE ~anMemo[k].asked
  <2>1. /\ anHandler' = [anHandler EXCEPT ![k].pc = "new"]
        /\ anMemo' = [anMemo EXCEPT ![k] = [@ EXCEPT !.called = TRUE, !.asked = TRUE, !.result = r]]
    BY <1>4 DEF AnRequests
  <2>2. MemoOnly(k, TRUE, TRUE, r, anMemo[k].event)  BY <1>2, <2>1, MemoAsked
  <2>3. HandlerOnly(k, "new", anHandler[k].rung)  BY <1>2, <2>1, HandlerGoes
  <2>4. ~anMemo[k].event  BY <1>1, <1>4 DEF AttemptOf
  <2>. QED  BY <1>4, <2>2, <2>3, <2>4 DEF MemoOnly, AsksNow
<1>. QED  BY <1>3, <1>4

LEMMA ReportsKeeps == ASSUME AnInv, NEW k \in Attempts, NEW r \in {"success", "failure"}, AnReports(k, r) PROVE AnInv'
<1>1. AnShape /\ AttemptOf(k)  BY DEF AnInv
<1>2. anMemo \in [Attempts -> AnMemos] /\ anAgent \in [Attempts -> AnAgents]  BY <1>1 DEF AnShape
<1>3. /\ anTakeover' = anTakeover /\ anRetries' = anRetries /\ anObj' = anObj /\ anHeld' = anHeld
      /\ anRun' = anRun /\ anPending' = anPending /\ anResult' = anResult /\ anVerdict' = anVerdict
      /\ anTold' = anTold /\ anOutlived' = anOutlived /\ anAgent' = anAgent
      /\ anAgent[k].pc \in {"first", "again"}
  BY DEF AnReports, anCtl, anEngine, anPast
<1>4. AgentOnly(k, anAgent'[k].pc, anAgent'[k].inbox)  BY <1>2, <1>3 DEF AgentOnly
<1>5. ~anTakeover => anAgent[k].pc # "again" /\ (anMemo[k].event => anAgent[k].pc # "first")
  BY <1>1 DEF AttemptOf
<1>6. /\ MemoOnly(k, anMemo'[k].called, anMemo'[k].asked, anMemo'[k].result, anMemo'[k].event)
      /\ anMemo[k].asked => anMemo'[k].asked
      /\ anMemo[k].event => anMemo'[k].event /\ anMemo'[k].result = anMemo[k].result
      /\ anMemo'[k].event => anMemo[k].event
      /\ anHandler' = anHandler \/ AsksNow(k)
  <2>1. CASE anAgent[k].pc = "again"
    <3>1. PICK res : anMemo' = [anMemo EXCEPT ![k].again = TRUE, ![k].result = res] /\ res = anMemo[k].result
      BY <1>5, <2>1 DEF AnReports
    <3>2. anMemo[k].result \in {"none", "success", "failure"}  BY <1>2 DEF AnMemos
    <3>3. MemoOnly(k, anMemo[k].called, anMemo[k].asked, res, anMemo[k].event)
      BY <1>2, <3>1, <3>2, MemoAgain
    <3>. QED  BY <2>1, <3>1, <3>3 DEF MemoOnly, AnReports
  <2>2. CASE anAgent[k].pc = "first" /\ anTakeover
    <3>1. AnRequests(k, r)  BY <2>2 DEF AnReports
    <3>. QED  BY <2>2, <3>1, RequestsOnce
  <2>3. CASE anAgent[k].pc = "first" /\ ~anTakeover
    <3>1. anMemo' = [anMemo EXCEPT ![k].called = TRUE, ![k].result = r] /\ anHandler' = anHandler
      BY <2>3 DEF AnReports
    <3>2. MemoOnly(k, TRUE, anMemo[k].asked, r, anMemo[k].event)  BY <1>2, <3>1, MemoReported
    <3>. QED  BY <1>5, <2>3, <3>1, <3>2 DEF MemoOnly
  <2>. QED  BY <1>3, <2>1, <2>2, <2>3
<1>. QED  BY <1>3, <1>4, <1>5, <1>6, AgentWorks

LEMMA FirstEndsKeeps == ASSUME AnInv, NEW k \in Attempts, NEW r \in {"success", "failure"}, AnFirstEnds(k, r) PROVE AnInv'
<1>1. AnShape /\ AttemptOf(k)  BY DEF AnInv
<1>2. anMemo \in [Attempts -> AnMemos] /\ anAgent \in [Attempts -> AnAgents]  BY <1>1 DEF AnShape
<1>3. /\ anTakeover' = anTakeover /\ anRetries' = anRetries /\ anObj' = anObj /\ anHeld' = anHeld
      /\ anRun' = anRun /\ anPending' = anPending /\ anResult' = anResult /\ anVerdict' = anVerdict
      /\ anTold' = anTold /\ anOutlived' = anOutlived /\ anAgent' = [anAgent EXCEPT ![k].pc = "idle"]
      /\ anAgent[k].pc = "first" /\ AnAutoComplete(k, r)
  BY DEF AnFirstEnds, anCtl, anEngine, anPast
<1>4. AgentOnly(k, "idle", anAgent[k].inbox)  BY <1>2, <1>3, AgentGoes
<1>5. AgentOnly(k, anAgent'[k].pc, anAgent'[k].inbox) /\ anAgent'[k].pc = "idle"
      /\ anAgent'[k].inbox = anAgent[k].inbox
  BY <1>4 DEF AgentOnly
<1>6. ~anTakeover => ~anMemo[k].event  BY <1>1, <1>3 DEF AttemptOf
<1>7. /\ MemoOnly(k, anMemo'[k].called, anMemo'[k].asked, anMemo'[k].result, anMemo'[k].event)
      /\ anMemo[k].asked => anMemo'[k].asked
      /\ anMemo[k].event => anMemo'[k].event /\ anMemo'[k].result = anMemo[k].result
      /\ anMemo'[k].event => anMemo[k].event \/ ~anTakeover
      /\ anHandler' = anHandler \/ AsksNow(k)
  <2>1. CASE anTakeover /\ anMemo[k].called
    <3>1. anMemo' = anMemo /\ anHandler' = anHandler  BY <1>3, <2>1 DEF AnAutoComplete
    <3>. QED  BY <1>2, <3>1 DEF MemoOnly
  <2>2. CASE anTakeover /\ ~anMemo[k].called
    <3>1. AnRequests(k, r)  BY <1>3, <2>2 DEF AnAutoComplete
    <3>. QED  BY <1>3, <2>2, <3>1, RequestsOnce
  <2>3. CASE ~anTakeover
    <3>1. PICK res \in {"none", "success", "failure"} :
            anMemo' = [anMemo EXCEPT ![k].called = TRUE, ![k].event = TRUE, ![k].result = res]
      BY <1>2, <1>3, <2>3 DEF AnAutoComplete, AnMemos
    <3>2. MemoOnly(k, TRUE, anMemo[k].asked, res, TRUE)  BY <1>2, <3>1, MemoEnded
    <3>. QED  BY <1>3, <1>6, <2>3, <3>2 DEF MemoOnly, AnAutoComplete
  <2>. QED  BY <2>1, <2>2, <2>3
<1>. QED  BY <1>3, <1>5, <1>7, AgentWorks

LEMMA ReworksKeeps == ASSUME AnInv, NEW k \in Attempts, AnReworks(k) \/ AnReworked(k) PROVE AnInv'
<1>1. AnShape /\ AttemptOf(k)  BY DEF AnInv
<1>2. /\ anMemo \in [Attempts -> AnMemos] /\ anAgent \in [Attempts -> AnAgents]
      /\ anAgent[k].inbox \in Nat /\ anAgent[k].runs \in Nat
  BY <1>1 DEF AnShape, AnAgents
<1>3. /\ anTakeover' = anTakeover /\ anRetries' = anRetries /\ anObj' = anObj /\ anHeld' = anHeld
      /\ anRun' = anRun /\ anPending' = anPending /\ anResult' = anResult /\ anVerdict' = anVerdict
      /\ anTold' = anTold /\ anOutlived' = anOutlived /\ anMemo' = anMemo /\ anHandler' = anHandler
      /\ anAgent[k].pc \in {"idle", "again"}
  BY DEF AnReworks, AnReworked, anCtl, anEngine, anPast
<1>4. MemoOnly(k, anMemo'[k].called, anMemo'[k].asked, anMemo'[k].result, anMemo'[k].event)
  BY <1>2, <1>3 DEF MemoOnly
<1>5. CASE AnReworks(k)
  <2>1. /\ anAgent[k].inbox > 0
        /\ anAgent' = [anAgent EXCEPT ![k] = [pc |-> "again", inbox |-> anAgent[k].inbox - 1,
                                              runs |-> anAgent[k].runs + 1]]
    BY <1>5 DEF AnReworks
  <2>2. AgentOnly(k, "again", anAgent[k].inbox - 1)  BY <1>2, <2>1 DEF AgentOnly, AnAgents
  <2>3. anTakeover  BY <1>1, <2>1 DEF AttemptOf, AnShape
  <2>. QED  BY <1>3, <1>4, <2>2, <2>3, AgentWorks DEF AgentOnly
<1>6. CASE AnReworked(k)
  <2>1. anAgent' = [anAgent EXCEPT ![k].pc = "idle"]  BY <1>6 DEF AnReworked
  <2>2. AgentOnly(k, "idle", anAgent[k].inbox)  BY <1>2, <2>1, AgentGoes
  <2>. QED  BY <1>3, <1>4, <2>2, AgentWorks DEF AgentOnly
<1>. QED  BY <1>5, <1>6

-----------------------------------------------------------------------------
(***************************************************************************)
(* AgentNode: the approval.                                                *)
(***************************************************************************)
\* A coroutine that is not over belongs to an attempt that began, and as long as nothing
\* was left behind to the current one.
LEMMA AskingAttempt ==
  ASSUME AnInv, NEW k \in Attempts, anHandler[k].pc \in {"new", "sending", "waiting"}
  PROVE  /\ anTakeover /\ anVerdict[k] = "none" /\ ~anMemo[k].event
         /\ k \in 0..anRun.k /\ ~(k = Now /\ anRun.pc = "creating")
         /\ ~anOutlived => k = Now /\ anRun.pc # "rest"
<1>1. AttemptOf(k) /\ anRun \in AnCurrent  BY DEF AnInv, AnShape
<1>2. ~(k > Now) /\ ~(k = Now /\ anRun.pc = "creating")  BY <1>1 DEF AttemptOf, Untouched, NoHandler
<1>3. anTakeover /\ anVerdict[k] = "none" /\ ~anMemo[k].event  BY <1>1 DEF AttemptOf
<1>4. ASSUME ~anOutlived PROVE ~(k < Now) /\ ~(k = Now /\ anRun.pc = "rest")
  BY <1>3, <1>4 DEF AnInv, AnsweredOf, MayAsk
<1>5. anRun.k \in Int /\ k \in Nat  BY <1>1, AnAssumption DEF AnCurrent, Attempts
<1>. QED  BY <1>2, <1>3, <1>4, <1>5 DEF Now

LEMMA AsksKeeps == ASSUME AnInv, NEW k \in Attempts, AnAsks(k) PROVE AnInv'
<1>1. AnShape /\ AttemptOf(k) /\ k \in 0..AnMaxAttempts
  BY AnAssumption DEF AnInv, Attempts
<1>2. /\ anTakeover' = anTakeover /\ anRetries' = anRetries /\ anRun' = anRun /\ anAgent' = anAgent
      /\ anMemo' = anMemo /\ anVerdict' = anVerdict /\ anTold' = anTold /\ anOutlived' = anOutlived
      /\ anHandler[k].pc = "new" /\ anPending' = k /\ anResult' = "none" /\ anHeld' = k
      /\ anObj' = [anObj EXCEPT ![k].st = "waiting_approval"]
      /\ anHandler' = [anHandler EXCEPT ![k].pc = "sending"]
  BY DEF AnAsks, Handler, anCtl, anPast
<1>3. ObjOnly(k, "waiting_approval")  BY <1>1, <1>2, ObjGoes DEF AnShape, AnStates
<1>4. HandlerOnly(k, "sending", anHandler[k].rung)  BY <1>1, <1>2, HandlerGoes DEF AnShape
<1>5. /\ anTakeover /\ anVerdict[k] = "none" /\ ~anMemo[k].event
      /\ k \in 0..anRun.k /\ ~(k = Now /\ anRun.pc = "creating")
      /\ ~anOutlived => k = Now /\ anRun.pc # "rest"
  BY <1>2, AskingAttempt
<1>6. AnShape'  BY <1>1, <1>2, <1>3, <1>4, <1>5 DEF AnShape, ObjOnly, HandlerOnly, Now
<1>7. Registered'  BY <1>2, <1>4 DEF Registered, HandlerOnly
<1>8. k > anRun.k => FALSE  BY <1>1, <1>5 DEF AnShape, AnCurrent
<1>9. AttemptOf(k)'
  BY <1>1, <1>2, <1>3, <1>4, <1>5, <1>8 DEF AttemptOf, ReportedSuccess, Now, ObjOnly, HandlerOnly, NoHandler
<1>10. ASSUME ~anOutlived' PROVE AnsweredOf(k)'
  <2>1. AnsweredOf(k) /\ k = Now /\ anRun.pc # "rest"  BY <1>2, <1>5, <1>10 DEF AnInv
  <2>2. ~(k < anRun.k)  BY <1>1, <2>1 DEF AnShape, AnCurrent, Now
  <2>. QED  BY <1>2, <1>4, <1>5, <2>1, <2>2 DEF AnsweredOf, HandlerOnly, Now
<1>. QED  BY <1>2, <1>3, <1>4, <1>5, <1>6, <1>7, <1>9, <1>10, OneAttempt DEF ObjOnly, HandlerOnly

LEMMA SendsKeeps == ASSUME AnInv, NEW k \in Attempts, AnSends(k) PROVE AnInv'
<1>1. AnShape /\ AttemptOf(k) /\ k \in 0..AnMaxAttempts /\ Registered
  BY AnAssumption DEF AnInv, Attempts
<1>2. /\ anTakeover' = anTakeover /\ anRetries' = anRetries /\ anRun' = anRun /\ anAgent' = anAgent
      /\ anVerdict' = anVerdict /\ anTold' = anTold /\ anOutlived' = anOutlived
      /\ anHandler[k].pc = "sending"
  BY DEF AnSends, anCtl, anPast
<1>3. /\ anTakeover /\ anVerdict[k] = "none" /\ ~anMemo[k].event
      /\ k \in 0..anRun.k /\ ~(k = Now /\ anRun.pc = "creating")
      /\ ~anOutlived => k = Now /\ anRun.pc # "rest"
  BY <1>2, AskingAttempt
<1>4. k > anRun.k => FALSE  BY <1>1, <1>3 DEF AnShape, AnCurrent
<1>5. ~anOutlived => ~(k < anRun.k) /\ AnsweredOf(k)  BY <1>1, <1>3 DEF AnShape, AnCurrent, Now, AnInv
<1>6. CASE /\ anHandler' = [anHandler EXCEPT ![k].pc = "waiting"]
           /\ anObj' = anObj /\ anHeld' = anHeld /\ anMemo' = anMemo
           /\ anPending' = anPending /\ anResult' = anResult
  <2>1. HandlerOnly(k, "waiting", anHandler[k].rung)  BY <1>1, <1>6, HandlerGoes DEF AnShape
  <2>2. AnShape'  BY <1>1, <1>2, <1>6, <2>1 DEF AnShape, HandlerOnly, Now
  <2>3. Registered'
    <3>1. CASE anPending = k  BY <1>6, <2>1, <3>1 DEF Registered, HandlerOnly
    <3>2. CASE anPending # k  BY <1>1, <1>6, <2>1, <3>2, PendingAttempt DEF Registered, HandlerOnly
    <3>. QED  BY <3>1, <3>2
  <2>4. AttemptOf(k)'
    BY <1>1, <1>2, <1>3, <1>4, <1>6, <2>1 DEF AttemptOf, ReportedSuccess, Now, HandlerOnly, NoHandler
  <2>5. ASSUME ~anOutlived' PROVE AnsweredOf(k)'
    BY <1>2, <1>3, <1>5, <1>6, <2>1, <2>5 DEF AnsweredOf, HandlerOnly, Now
  <2>. QED  BY <1>2, <1>3, <1>6, <2>1, <2>2, <2>3, <2>4, <2>5, OneAttempt DEF HandlerOnly
<1>7. CASE /\ anObj' = [anObj EXCEPT ![k].st = "failed"] /\ anHeld' = k
           /\ anMemo' = [anMemo EXCEPT ![k].result = "failure", ![k].event = TRUE]
           /\ anPending' = 0 /\ anResult' = "none" /\ anHandler' = [anHandler EXCEPT ![k].pc = "over"]
  <2>1. HandlerOnly(k, "over", anHandler[k].rung)  BY <1>1, <1>7, HandlerGoes DEF AnShape
  <2>2. ObjOnly(k, "failed")  BY <1>1, <1>7, ObjGoes DEF AnShape, AnStates
  <2>3. MemoOnly(k, anMemo[k].called, anMemo[k].asked, "failure", TRUE)
    BY <1>1, <1>7, MemoFailed DEF AnShape
  <2>4. AnShape'
    BY <1>1, <1>2, <1>3, <1>7, <2>1, <2>2, <2>3 DEF AnShape, AnCurrent, HandlerOnly, ObjOnly, MemoOnly, Now
  <2>5. Registered'  BY <1>7 DEF Registered
  <2>6. AttemptOf(k)'
    BY <1>1, <1>2, <1>3, <1>4, <2>1, <2>2, <2>3
       DEF AttemptOf, ReportedSuccess, Now, HandlerOnly, ObjOnly, MemoOnly, NoHandler
  <2>7. ASSUME ~anOutlived' PROVE AnsweredOf(k)'
    BY <1>2, <1>3, <1>5, <2>1, <2>7 DEF AnsweredOf, HandlerOnly, Now
  <2>. QED  BY <1>2, <1>3, <2>1, <2>2, <2>3, <2>4, <2>5, <2>6, <2>7, OneAttempt
            DEF HandlerOnly, ObjOnly, MemoOnly
<1>. QED  BY <1>6, <1>7 DEF AnSends, Handler, Popped, anEngine

LEMMA AnswerArrives ==
  ASSUME AnInv, NEW answer \in {"approved", "rejected"}, AnAnswers(answer),
         NEW k \in Attempts, k = anPending
  PROVE  AnInv'
<1>1. AnShape /\ Registered  BY DEF AnInv
<1>2. anPending # 0  BY DEF AnAnswers
<1>3. k = anPending  OBVIOUS
<1>4. AttemptOf(k) /\ k \in 0..AnMaxAttempts /\ anHandler[k].pc \in {"sending", "waiting"}
  BY <1>1, <1>2, <1>3, AnAssumption DEF AnInv, Attempts, Registered
<1>5. /\ anTakeover' = anTakeover /\ anRetries' = anRetries /\ anRun' = anRun /\ anAgent' = anAgent
      /\ anMemo' = anMemo /\ anVerdict' = anVerdict /\ anOutlived' = anOutlived
      /\ anObj' = anObj /\ anHeld' = anHeld /\ anPending' = anPending /\ anResult' = answer
      /\ anHandler' = [anHandler EXCEPT ![k].rung = TRUE]
      /\ anTold' = [anTold EXCEPT ![k] = answer]
  BY <1>3 DEF AnAnswers, anCtl
<1>6. HandlerOnly(k, anHandler[k].pc, TRUE)  BY <1>1, <1>5, HandlerRings DEF AnShape
<1>7. /\ anTold' \in [Attempts -> {"none", "approved", "rejected"}] /\ anTold'[k] = answer
      /\ \A j \in Attempts : j # k => anTold'[j] = anTold[j]
  BY <1>1, <1>5 DEF AnShape
<1>8. /\ anTakeover /\ anVerdict[k] = "none" /\ ~anMemo[k].event
      /\ k \in 0..anRun.k /\ ~(k = Now /\ anRun.pc = "creating")
      /\ ~anOutlived => k = Now /\ anRun.pc # "rest"
  BY <1>4, AskingAttempt
<1>9. AnShape'  BY <1>1, <1>5, <1>6, <1>7 DEF AnShape, HandlerOnly, Now
<1>10. Registered'  BY <1>3, <1>4, <1>5, <1>6 DEF Registered, HandlerOnly
<1>11. k > anRun.k => FALSE  BY <1>1, <1>8 DEF AnShape, AnCurrent
<1>12. AttemptOf(k)'
  BY <1>4, <1>5, <1>6, <1>8, <1>11 DEF AttemptOf, ReportedSuccess, Now, HandlerOnly, NoHandler
<1>13. ASSUME ~anOutlived' PROVE AnsweredOf(k)'
  <2>1. AnsweredOf(k) /\ k = Now /\ anRun.pc # "rest"  BY <1>5, <1>8, <1>13 DEF AnInv
  <2>2. ~(k < anRun.k)  BY <1>1, <2>1 DEF AnShape, AnCurrent, Now
  <2>. QED  BY <1>4, <1>5, <1>6, <1>7, <1>8, <2>1, <2>2 DEF AnsweredOf, HandlerOnly, Now
<1>14. /\ anTakeover' = anTakeover /\ anRun'.k = anRun.k /\ anRun'.pc = anRun.pc
       /\ anOutlived => anOutlived'
       /\ \A j \in 0..AnMaxAttempts : j # k => anObj'[j] = anObj[j]
       /\ ~anTakeover => anObj'[k].st \notin {"waiting_approval", "reissue"}
       /\ \A j \in Attempts : j # k =>
            /\ anMemo'[j] = anMemo[j] /\ anHandler'[j] = anHandler[j] /\ anVerdict'[j] = anVerdict[j]
            /\ anTold'[j] = anTold[j] /\ anAgent'[j].pc = anAgent[j].pc
            /\ anAgent'[j].inbox = anAgent[j].inbox
       /\ ~anOutlived' => k = Now
  BY <1>5, <1>6, <1>7, <1>8 DEF HandlerOnly
<1>. QED  BY <1>9, <1>10, <1>12, <1>13, <1>14, OneAttempt

LEMMA PersonAnswers == AnInv /\ (\E answer \in {"approved", "rejected"} : AnAnswers(answer)) => AnInv'
<1>. SUFFICES ASSUME AnInv, \E a \in {"approved", "rejected"} : AnAnswers(a) PROVE AnInv'  OBVIOUS
<1>1. PICK answer \in {"approved", "rejected"} : AnAnswers(answer)  OBVIOUS
<1>2. AnShape /\ anPending # 0  BY <1>1 DEF AnInv, AnAnswers
<1>3. PICK k \in Attempts : k = anPending  BY <1>2, PendingAttempt
<1>. QED  BY <1>1, <1>3, AnswerArrives

LEMMA ObjDecided ==
  ASSUME anObj \in [0..AnMaxAttempts -> AnObject], NEW k \in 0..AnMaxAttempts,
         NEW n \in Nat, NEW st \in AnStates,
         anObj' = [anObj EXCEPT ![k].rejections = n, ![k].st = st]
  PROVE  ObjOnly(k, st)
<1>1. \A o \in AnObject : [o EXCEPT !.rejections = n, !.st = st] \in AnObject
                          /\ [o EXCEPT !.rejections = n, !.st = st].st = st
  BY DEF AnObject
<1>. DEFINE o == anObj[k]
            decided == [o EXCEPT !.rejections = n, !.st = st]
<1>2. anObj' = [anObj EXCEPT ![k] = decided]  OBVIOUS
<1>3. decided \in AnObject /\ decided.st = st  BY <1>1, ZenonT(20)
<1>. HIDE DEF decided
<1>. QED  BY <1>2, <1>3 DEF ObjOnly

\* The answer decides the attempt, a message goes to a session of it, or the event is set.
LEMMA DecidesKeeps == ASSUME AnInv, NEW k \in Attempts, AnDecides(k) PROVE AnInv'
<1>1. AnShape /\ AttemptOf(k) /\ k \in 0..AnMaxAttempts /\ anObj[k] \in AnObject
  BY AnAssumption DEF AnInv, Attempts, AnShape
<1>. DEFINE sentBack == anObj[k].rejections + 1
            verdict == IF ~anHandler[k].rung THEN "lapsed"
                       ELSE IF Answer(k) = "approved" THEN "approved"
                       ELSE IF sentBack >= MAX_REJECTION_COUNT THEN "forced" ELSE "rejected"
            hot == anObj[k].session # 0 /\ anAgent[anObj[k].session].pc \notin {"none", "gone"}
            mine == anHeld = k \/ (verdict = "rejected" /\ hot)
<1>2. /\ anTakeover' = anTakeover /\ anRetries' = anRetries /\ anRun' = anRun /\ anTold' = anTold
      /\ anOutlived' = anOutlived /\ anHandler[k].pc = "waiting"
      /\ anHandler' = [anHandler EXCEPT ![k].pc = "over"]
      /\ anPending' = 0 /\ anResult' = "none" /\ anVerdict' = [anVerdict EXCEPT ![k] = verdict]
  BY DEF AnDecides, Handler, Popped, anCtl
<1>3. /\ anTakeover /\ anVerdict[k] = "none" /\ ~anMemo[k].event
      /\ k \in 0..anRun.k /\ ~(k = Now /\ anRun.pc = "creating")
      /\ ~anOutlived => k = Now /\ anRun.pc # "rest"
  BY <1>2, AskingAttempt
<1>4. HandlerOnly(k, "over", anHandler[k].rung)  BY <1>1, <1>2, HandlerGoes DEF AnShape
<1>5. PICK v \in AnVerdicts \ {"none"} : v = verdict  BY DEF AnVerdicts
<1>6. /\ anVerdict' \in [Attempts -> AnVerdicts] /\ anVerdict'[k] = v
      /\ \A j \in Attempts : j # k => anVerdict'[j] = anVerdict[j]
  BY <1>1, <1>2, <1>5 DEF AnShape
<1>7. /\ MemoOnly(k, anMemo[k].called, anMemo[k].asked, anMemo[k].result, anMemo'[k].event)
      /\ anMemo'[k].event => v # "rejected"
  <2>1. CASE v = "rejected"
    <3>1. anMemo' = anMemo  BY <1>5, <2>1 DEF AnDecides
    <3>. QED  BY <1>1, <1>3, <3>1 DEF MemoOnly, AnShape
  <2>2. CASE v # "rejected"
    <3>1. anMemo' = [anMemo EXCEPT ![k].event = TRUE]  BY <1>5, <2>2 DEF AnDecides
    <3>2. MemoOnly(k, anMemo[k].called, anMemo[k].asked, anMemo[k].result, TRUE)
      BY <1>1, <3>1, MemoEvent DEF AnShape
    <3>. QED  BY <2>2, <3>2 DEF MemoOnly
  <2>. QED  BY <2>1, <2>2
<1>8. /\ anAgent' \in [Attempts -> AnAgents] /\ anHeld' \in {anHeld, k}
      /\ \A j \in Attempts : anAgent'[j].pc = anAgent[j].pc
  <2>1. CASE anAgent' = anAgent /\ anHeld' = anHeld  BY <1>1, <2>1 DEF AnShape
  <2>2. CASE v = "rejected" /\ hot
    <3>1. PICK s : s = anObj[k].session  OBVIOUS
    <3>2. s \in Attempts  BY <1>1, <2>2, <3>1, AnAssumption DEF AnObject, Attempts
    <3>3. anAgent' = [anAgent EXCEPT ![s].inbox = @ + 1] /\ anHeld' = k
      BY <1>5, <2>2, <3>1 DEF AnDecides
    <3>4. anAgent[s] \in AnAgents /\ anAgent[s].inbox + 1 \in Nat  BY <1>1, <3>2 DEF AnShape, AnAgents
    <3>. QED  BY <1>1, <3>2, <3>3, <3>4 DEF AnShape, AnAgents
  <2>. QED  BY <1>5, <2>1, <2>2 DEF AnDecides
<1>9. /\ anObj' \in [0..AnMaxAttempts -> AnObject]
      /\ \A j \in 0..AnMaxAttempts : j # k => anObj'[j] = anObj[j]
      /\ anObj'[k].st \in {anObj[k].st, "running"}
  <2>1. CASE ~mine
    <3>1. anObj' = anObj  BY <1>5, <2>1 DEF AnDecides
    <3>. QED  BY <1>1, <3>1 DEF AnShape
  <2>2. CASE mine
    <3>1. PICK n \in Nat : n = IF verdict \in {"rejected", "forced"} THEN sentBack ELSE anObj[k].rejections
      BY <1>1 DEF AnObject
    <3>2. PICK st \in AnStates \cap {anObj[k].st, "running"} :
            st = IF verdict = "rejected" /\ hot THEN "running" ELSE anObj[k].st
      BY <1>1 DEF AnObject, AnStates
    <3>3. anObj' = [anObj EXCEPT ![k].rejections = n, ![k].st = st]  BY <1>5, <2>2, <3>1, <3>2 DEF AnDecides
    <3>. HIDE DEF mine, hot, verdict, sentBack
    <3>4. ObjOnly(k, st)  BY <1>1, <3>2, <3>3, ObjDecided DEF AnShape
    <3>. QED  BY <3>2, <3>4 DEF ObjOnly
  <2>. QED  BY <2>1, <2>2
<1>10. ~anOutlived => AnsweredOf(k) /\ (v = "approved" => anTold[k] = "approved")
                      /\ (v \in {"rejected", "forced"} => anTold[k] = "rejected")
  <2>. SUFFICES ASSUME ~anOutlived
       PROVE  AnsweredOf(k) /\ (v = "approved" => anTold[k] = "approved")
              /\ (v \in {"rejected", "forced"} => anTold[k] = "rejected")
    OBVIOUS
  <2>1. AnsweredOf(k)  BY DEF AnInv
  <2>2. anHandler[k].rung => anResult = anTold[k] /\ anTold[k] \in {"approved", "rejected"}
    BY <1>1, <1>2, <2>1 DEF AnsweredOf, AnShape
  <2>3. v \in {"approved", "rejected", "forced"} => anHandler[k].rung  BY <1>5
  <2>4. anHandler[k].rung => Answer(k) = anTold[k]  BY <2>2 DEF Answer
  <2>. QED  BY <1>5, <2>1, <2>2, <2>3, <2>4
<1>. HIDE DEF mine, hot, verdict, sentBack
<1>11. AnShape'
  BY <1>1, <1>2, <1>3, <1>4, <1>6, <1>7, <1>8, <1>9 DEF AnShape, AnCurrent, HandlerOnly, MemoOnly, Now
<1>12. Registered'  BY <1>2 DEF Registered
<1>13. k > anRun.k => FALSE  BY <1>1, <1>3 DEF AnShape, AnCurrent
<1>14. AttemptOf(k)'
  BY <1>1, <1>2, <1>3, <1>4, <1>5, <1>6, <1>7, <1>8, <1>9, <1>13
     DEF AttemptOf, ReportedSuccess, Now, HandlerOnly, MemoOnly, NoHandler, AnVerdicts
<1>15. ASSUME ~anOutlived' PROVE AnsweredOf(k)'
  <2>1. AnsweredOf(k) /\ k = Now /\ anRun.pc # "rest"  BY <1>2, <1>3, <1>15 DEF AnInv
  <2>2. ~(k < anRun.k)  BY <1>1, <2>1 DEF AnShape, AnCurrent, Now
  <2>3. /\ v = "approved" => anTold[k] = "approved"
        /\ v \in {"rejected", "forced"} => anTold[k] = "rejected"
    BY <1>2, <1>10, <1>15
  <2>. QED  BY <1>2, <1>4, <1>6, <2>1, <2>2, <2>3 DEF AnsweredOf, HandlerOnly, Now
<1>. QED  BY <1>1, <1>2, <1>3, <1>4, <1>6, <1>7, <1>8, <1>9, <1>11, <1>12, <1>14, <1>15, OneAttempt
          DEF HandlerOnly, MemoOnly, NobodyAsked

-----------------------------------------------------------------------------
(***************************************************************************)
(* AgentNode: an attempt begins, the process ends, and the theorem.        *)
(***************************************************************************)
LEMMA BeginsKeeps == AnInv /\ AnBegin => AnInv'
<1>. SUFFICES ASSUME AnInv, AnBegin PROVE AnInv'  OBVIOUS
<1>1. /\ AnShape /\ NobodyAsked /\ Registered /\ AnMaxAttempts \in Nat /\ anRun.k \in Nat
      /\ anRun.pc = "rest" /\ anRun.k < AnMaxAttempts
  BY AnAssumption DEF AnInv, AnShape, AnCurrent, AnBegin, Now
<1>2. PICK k \in Attempts : k = anRun.k + 1  BY <1>1 DEF Attempts
<1>3. /\ anTakeover' = anTakeover /\ anRetries' = anRetries /\ anAgent' = anAgent
      /\ anVerdict' = anVerdict /\ anTold' = anTold /\ anOutlived' = anOutlived
      /\ anPending' = anPending /\ anResult' = anResult /\ anHeld' = k
  BY <1>2 DEF AnBegin, Now, anCtl, anPast, anEngine
<1>4. Untouched(k) /\ k \in 0..AnMaxAttempts /\ k > anRun.k
  BY <1>1, <1>2 DEF AnInv, AttemptOf, Attempts, Now
<1>5. Shown \in AnObject  BY <1>1 DEF Shown, AnShape, Now
<1>6. /\ anObj' \in [0..AnMaxAttempts -> AnObject] /\ anObj'[k].st = "running"
      /\ \A j \in 0..AnMaxAttempts : j # k => anObj'[j] = anObj[j]
  <2>1. \A s \in 0..AnMaxAttempts : \A o \in AnObject :
          /\ [o EXCEPT !.st = "running", !.session = s] \in AnObject
          /\ [o EXCEPT !.st = "running", !.session = s].st = "running"
    BY DEF AnObject, AnStates
  <2>2. PICK s \in 0..AnMaxAttempts :
          anObj' = [anObj EXCEPT ![k] = [Shown EXCEPT !.st = "running", !.session = s]]
    <3>1. Shown.session \in 0..AnMaxAttempts /\ 0 \in 0..AnMaxAttempts  BY <1>1, <1>5 DEF AnObject
    <3>2. CASE anObj' = [anObj EXCEPT ![k] = [Shown EXCEPT !.st = "running", !.session = @]]
      BY <3>1, <3>2, Zenon
    <3>3. CASE anObj' = [anObj EXCEPT ![k] = [Shown EXCEPT !.st = "running", !.session = 0]]
      BY <3>1, <3>3, Zenon
    <3>. QED  BY <1>2, <3>2, <3>3 DEF AnBegin, Now
  <2>. DEFINE new == [Shown EXCEPT !.st = "running", !.session = s]
  <2>3. new \in AnObject /\ new.st = "running"  BY <1>5, <2>1, ZenonT(20)
  <2>4. anObj' = [anObj EXCEPT ![k] = new]  BY <2>2, Zenon
  <2>. HIDE DEF new
  <2>. QED  BY <1>1, <1>4, <2>3, <2>4 DEF AnShape
<1>7. anRun' \in AnCurrent /\ anRun'.k = k /\ anRun'.pc \in {"creating", "approving"}
  BY <1>1, <1>2, <1>4 DEF AnBegin, AnCurrent, AnShape, Now
<1>8. /\ anMemo' \in [Attempts -> AnMemos] /\ anHandler' \in [Attempts -> AnHandlers]
      /\ \A j \in Attempts : j # k => anMemo'[j] = anMemo[j] /\ anHandler'[j] = anHandler[j]
      /\ ~anHandler'[k].rung /\ ~anMemo'[k].event
      /\ \/ Untouched(k)'
         \/ anRun'.pc = "approving" /\ anTakeover /\ anHandler'[k].pc = "new"
  <2>1. CASE anMemo' = anMemo /\ anHandler' = anHandler
    BY <1>1, <1>3, <1>4, <2>1 DEF AnShape, Untouched, NoHandler, NoMemo
  <2>2. CASE /\ Shown.st = "reissue" /\ anRun'.pc = "approving"
             /\ anMemo' = [anMemo EXCEPT ![k].result = "success"]
             /\ anHandler' = [anHandler EXCEPT ![k].pc = "new"]
    <3>1. HandlerOnly(k, "new", anHandler[k].rung)  BY <1>1, <2>2, HandlerGoes DEF AnShape
    <3>2. /\ anMemo' \in [Attempts -> AnMemos] /\ anMemo'[k].event = anMemo[k].event
          /\ \A j \in Attempts : j # k => anMemo'[j] = anMemo[j]
      BY <1>1, <2>2 DEF AnShape, AnMemos
    <3>3. ~anHandler[k].rung /\ ~anMemo[k].event  BY <1>4 DEF Untouched, NoHandler, NoMemo
    <3>4. anTakeover  BY <1>1, <2>2 DEF NobodyAsked, Shown, AnShape, AnCurrent, Now
    <3>. QED  BY <2>2, <3>1, <3>2, <3>3, <3>4 DEF HandlerOnly
  <2>. QED  BY <1>2, <2>1, <2>2 DEF AnBegin, Now
<1>9. anVerdict[k] = "none" /\ anAgent[k].pc = "none" /\ anObj'[k].st = "running" /\ anAgent[k].inbox \in Nat
  BY <1>1, <1>4, <1>6 DEF Untouched, AnShape, AnAgents
<1>10. AnShape'
  BY <1>1, <1>2, <1>3, <1>4, <1>6, <1>7, <1>8 DEF AnShape, Now
<1>11. NobodyAsked'  BY <1>1, <1>3, <1>6 DEF NobodyAsked
<1>12. Registered'
  <2>. SUFFICES ASSUME anPending # 0 PROVE anHandler'[anPending].pc \in {"sending", "waiting"}
    BY <1>3 DEF Registered
  <2>1. anPending \in Attempts /\ anPending # k
    BY <1>1, <1>2, PendingAttempt DEF AnShape, Now
  <2>. QED  BY <1>1, <1>8, <2>1 DEF Registered
<1>13. ASSUME NEW j \in Attempts PROVE AttemptOf(j)'
  <2>1. AttemptOf(j) /\ j \in 0..AnMaxAttempts /\ j \in Nat  BY <1>1 DEF AnInv, Attempts
  <2>2. CASE j # k
    <3>1. j > k => j > anRun.k  BY <1>1, <1>2, <2>1
    <3>2. anObj'[j] = anObj[j] /\ anMemo'[j] = anMemo[j] /\ anHandler'[j] = anHandler[j]
      BY <1>6, <1>8, <2>1, <2>2
    <3>. QED  BY <1>3, <1>7, <2>1, <2>2, <3>1, <3>2 DEF AttemptOf, Untouched, ReportedSuccess, Now
  <2>3. CASE j = k
    <3>1. AttemptOf(k) /\ ~(k > k)  BY <2>1, <2>3
    <3>2. ~anTakeover => anAgent[k].inbox = 0  BY <3>1 DEF AttemptOf
    <3>3. CASE Untouched(k)'
      BY <1>3, <1>7, <1>8, <1>9, <2>3, <3>1, <3>2, <3>3
         DEF AttemptOf, Untouched, ReportedSuccess, Now, NoHandler
    <3>4. CASE anRun'.pc = "approving" /\ anTakeover /\ anHandler'[k].pc = "new"
      BY <1>3, <1>7, <1>8, <1>9, <2>3, <3>1, <3>4 DEF AttemptOf, ReportedSuccess, Now
    <3>. QED  BY <1>8, <3>3, <3>4
  <2>. QED  BY <2>2, <2>3
<1>14. ASSUME ~anOutlived', NEW j \in Attempts PROVE AnsweredOf(j)'
  <2>1. AnsweredOf(j) /\ ~anOutlived /\ j \in Nat  BY <1>3, <1>14 DEF AnInv, Attempts
  <2>2. anHandler[j].pc \in {"new", "sending", "waiting"} => FALSE  BY <1>1, <2>1, AskingAttempt
  <2>3. CASE j # k
    <3>1. anMemo'[j] = anMemo[j] /\ anHandler'[j] = anHandler[j]  BY <1>8, <2>3
    <3>2. j < k => ~MayAsk(j)  BY <1>1, <1>2, <2>1 DEF AnsweredOf, Now
    <3>3. MayAsk(j)' = MayAsk(j)  BY <1>3, <3>1 DEF MayAsk
    <3>. QED  BY <1>3, <1>7, <2>1, <2>2, <2>3, <3>1, <3>2, <3>3 DEF AnsweredOf, Now
  <2>4. CASE j = k
    <3>1. ~(k < k) /\ anHandler'[k].pc \in {"none", "new"}  BY <1>8, <2>1, <2>4 DEF Untouched, NoHandler
    <3>. QED  BY <1>3, <1>7, <1>8, <1>9, <2>4, <3>1 DEF AnsweredOf, Now
  <2>. QED  BY <2>3, <2>4
<1>. QED  BY <1>10, <1>11, <1>12, <1>13, <1>14 DEF AnInv

LEMMA ExitKeeps == AnInv /\ AnExit => AnInv'
<1>. SUFFICES ASSUME AnInv, AnExit PROVE AnInv'  OBVIOUS
<1>1. AnShape /\ NobodyAsked /\ AnMaxAttempts \in Nat /\ anHeld \in 0..AnMaxAttempts
  BY AnAssumption DEF AnInv, AnShape, AnCurrent, Now
<1>2. /\ anTakeover' = anTakeover /\ anRetries' = anRetries /\ anHeld' = anHeld /\ anMemo' = anMemo
      /\ anVerdict' = anVerdict /\ anTold' = anTold /\ anOutlived' = anOutlived
      /\ anPending' = 0 /\ anResult' = "none" /\ anHandler' = [k \in Attempts |-> NoHandler]
      /\ anRun' = [anRun EXCEPT !.pc = "rest"]
      /\ anAgent' = [k \in Attempts |-> IF anAgent[k].pc = "none" THEN NoAgent
                                        ELSE [anAgent[k] EXCEPT !.pc = "gone", !.inbox = 0]]
  BY DEF AnExit, Popped, anCtl, anPast
<1>3. RunAt("rest")  BY <1>1, <1>2, RunGoes DEF AnShape
<1>4. /\ anHandler' \in [Attempts -> AnHandlers]
      /\ \A j \in Attempts : anHandler'[j] = NoHandler /\ anHandler'[j].pc = "none" /\ ~anHandler'[j].rung
  BY <1>2 DEF AnHandlers, NoHandler
<1>5. /\ anAgent' \in [Attempts -> AnAgents]
      /\ \A j \in Attempts : /\ anAgent'[j].pc \in {"none", "gone"} /\ anAgent'[j].inbox = 0
                             /\ anAgent[j].pc = "none" => anAgent'[j].pc = "none"
  <2>1. \A a \in AnAgents : /\ [a EXCEPT !.pc = "gone", !.inbox = 0] \in AnAgents
                            /\ [a EXCEPT !.pc = "gone", !.inbox = 0].pc = "gone"
                            /\ [a EXCEPT !.pc = "gone", !.inbox = 0].inbox = 0
    BY DEF AnAgents
  <2>2. NoAgent \in AnAgents /\ NoAgent.pc = "none" /\ NoAgent.inbox = 0  BY DEF AnAgents, NoAgent
  <2>3. ASSUME NEW j \in Attempts
        PROVE  /\ anAgent'[j] \in AnAgents /\ anAgent'[j].pc \in {"none", "gone"} /\ anAgent'[j].inbox = 0
               /\ anAgent[j].pc = "none" => anAgent'[j].pc = "none"
    <3>. DEFINE gone == [anAgent[j] EXCEPT !.pc = "gone", !.inbox = 0]
    <3>1. anAgent[j] \in AnAgents  BY <1>1 DEF AnShape
    <3>2. gone \in AnAgents /\ gone.pc = "gone" /\ gone.inbox = 0  BY <2>1, <3>1, ZenonT(20)
    <3>3. anAgent'[j] = IF anAgent[j].pc = "none" THEN NoAgent ELSE gone  BY <1>2, Zenon
    <3>. HIDE DEF gone
    <3>. QED  BY <2>2, <3>2, <3>3
  <2>4. DOMAIN anAgent' = Attempts /\ anAgent' = [j \in Attempts |-> anAgent'[j]]  BY <1>2, Zenon
  <2>. QED  BY <2>3, <2>4
<1>6. /\ anObj' \in [0..AnMaxAttempts -> AnObject]
      /\ \A j \in 0..AnMaxAttempts :
           /\ anObj'[j].st \in {anObj[j].st, "reissue", "pending", "failed"}
           /\ anObj'[j].st = "reissue" => anObj[j].st \in {"reissue", "waiting_approval"}
  <2>1. CASE anObj' = anObj  BY <1>1, <2>1 DEF AnShape
  <2>2. ASSUME NEW st \in {"reissue", "pending", "failed"}, anObj' = [anObj EXCEPT ![anHeld].st = st],
               st = "reissue" => anObj[anHeld].st = "waiting_approval"
        PROVE  /\ anObj' \in [0..AnMaxAttempts -> AnObject]
               /\ \A j \in 0..AnMaxAttempts :
                    /\ anObj'[j].st \in {anObj[j].st, "reissue", "pending", "failed"}
                    /\ anObj'[j].st = "reissue" => anObj[j].st \in {"reissue", "waiting_approval"}
    <3>1. PICK h \in 0..AnMaxAttempts : h = anHeld  BY <1>1
    <3>2. ObjOnly(h, st)  BY <1>1, <2>2, <3>1, ObjGoes DEF AnShape, AnStates
    <3>. QED  BY <2>2, <3>1, <3>2 DEF ObjOnly
  <2>. QED  BY <2>1, <2>2 DEF AnExit, Shown
<1>7. AnShape'
  <2>1. anRun' \in AnCurrent /\ anRun'.k = anRun.k /\ anRun'.pc = "rest"  BY <1>3 DEF RunAt
  <2>2. anHeld' \in 0..Now' /\ anPending' \in 0..Now'
    <3>1. anRun.k \in Nat /\ anHeld \in 0..anRun.k  BY <1>1 DEF AnShape, AnCurrent, Now
    <3>2. anHeld' = anHeld /\ anPending' = 0  BY <1>2
    <3>. QED  BY <2>1, <3>1, <3>2 DEF Now
  <2>3. anVerdict' \in [Attempts -> AnVerdicts] /\ anTold' \in [Attempts -> {"none", "approved", "rejected"}]
        /\ anMemo' \in [Attempts -> AnMemos] /\ anTakeover' \in BOOLEAN /\ anRetries' \in 0..1
    BY <1>1, <1>2 DEF AnShape
  <2>. QED  BY <1>2, <1>4, <1>5, <1>6, <2>1, <2>2, <2>3 DEF AnShape
<1>8. NobodyAsked'  BY <1>1, <1>2, <1>6 DEF NobodyAsked
<1>9. Registered'  BY <1>2 DEF Registered
<1>10. ASSUME NEW j \in Attempts PROVE AttemptOf(j)'
  <2>1. AttemptOf(j) /\ j \in 0..AnMaxAttempts  BY <1>1 DEF AnInv, Attempts
  <2>. QED  BY <1>2, <1>3, <1>4, <1>5, <1>6, <2>1 DEF AttemptOf, Untouched, ReportedSuccess, RunAt, Now
<1>11. ASSUME ~anOutlived', NEW j \in Attempts PROVE AnsweredOf(j)'
  <2>1. AnsweredOf(j)  BY <1>2, <1>11 DEF AnInv
  <2>. QED  BY <1>2, <1>4, <1>5, <2>1 DEF AnsweredOf, MayAsk
<1>. QED  BY <1>7, <1>8, <1>9, <1>10, <1>11 DEF AnInv

LEMMA AnInitInv == AnInit => AnInv
<1>. SUFFICES ASSUME AnInit PROVE AnInv  OBVIOUS
<1>1. /\ anObj = [k \in 0..AnMaxAttempts |-> Fresh] /\ anRun = [k |-> 0, pc |-> "rest", left |-> 0]
      /\ anAgent = [k \in Attempts |-> NoAgent] /\ anMemo = [k \in Attempts |-> NoMemo]
      /\ anHandler = [k \in Attempts |-> NoHandler] /\ anVerdict = [k \in Attempts |-> "none"]
      /\ anTold = [k \in Attempts |-> "none"] /\ anPending = 0 /\ anResult = "none" /\ anHeld = 0
      /\ anTakeover \in BOOLEAN /\ anRetries \in 0..1
  BY DEF AnInit
<1>2. /\ Fresh \in AnObject /\ NoAgent \in AnAgents /\ NoMemo \in AnMemos /\ NoHandler \in AnHandlers
      /\ Fresh.st = "pending" /\ NoAgent.pc = "none" /\ NoAgent.inbox = 0 /\ ~NoMemo.event
      /\ NoHandler.pc = "none" /\ ~NoHandler.rung
  BY AnAssumption DEF Fresh, NoAgent, NoMemo, NoHandler, AnObject, AnAgents, AnMemos, AnHandlers, AnStates
<1>3. anRun \in AnCurrent /\ anRun.k = 0 /\ anRun.pc = "rest" /\ 0 \in 0..0
  BY <1>1, AnAssumption DEF AnCurrent
<1>4. AnShape
  BY <1>1, <1>2, <1>3 DEF AnShape, AnVerdicts, Now
<1>5. NobodyAsked /\ Registered  BY <1>1, <1>2 DEF NobodyAsked, Registered
<1>6. ASSUME NEW k \in Attempts PROVE AttemptOf(k) /\ AnsweredOf(k)
  <2>1. /\ anObj[k].st = "pending" /\ anAgent[k] = NoAgent /\ anMemo[k] = NoMemo
        /\ anHandler[k] = NoHandler /\ anVerdict[k] = "none"
    BY <1>1, <1>2, <1>6, AnAssumption DEF Attempts
  <2>2. ~(k < 0) /\ k # 0  BY AnAssumption DEF Attempts
  <2>. QED  BY <1>2, <1>3, <2>1, <2>2 DEF AttemptOf, AnsweredOf, Untouched, ReportedSuccess, MayAsk, Now
<1>. QED  BY <1>4, <1>5, <1>6 DEF AnInv

LEMMA AnStepKeeps == AnInv /\ [AnNext]_anVars => AnInv'
<1>. SUFFICES ASSUME AnInv, [AnNext]_anVars PROVE AnInv'  OBVIOUS
<1>1. CASE AnBegin  BY <1>1, BeginsKeeps
<1>2. CASE AnCreates  BY <1>2, CreatesKeeps
<1>3. CASE AnApproved  BY <1>3, ApprovedKeeps
<1>4. CASE AnTimesOut  BY <1>4, TimesOutWaits
<1>5. CASE AnWakes  BY <1>5, WakesDecided
<1>6. CASE AnChecks \/ AnCorrected  BY <1>6, ChecksKeeps
<1>7. CASE AnExit  BY <1>7, ExitKeeps
<1>8. CASE \E answer \in {"approved", "rejected"} : AnAnswers(answer)  BY <1>8, PersonAnswers
<1>9. ASSUME NEW k \in Attempts, AnReworks(k) \/ AnReworked(k) PROVE AnInv'  BY <1>9, ReworksKeeps
<1>10. ASSUME NEW k \in Attempts, AnAsks(k) PROVE AnInv'  BY <1>10, AsksKeeps
<1>11. ASSUME NEW k \in Attempts, AnSends(k) PROVE AnInv'  BY <1>11, SendsKeeps
<1>12. ASSUME NEW k \in Attempts, AnDecides(k) PROVE AnInv'  BY <1>12, DecidesKeeps
<1>13. ASSUME NEW k \in Attempts, NEW r \in {"success", "failure"}, AnReports(k, r) \/ AnFirstEnds(k, r)
       PROVE  AnInv'
  BY <1>13, ReportsKeeps, FirstEndsKeeps
<1>14. CASE UNCHANGED anVars
  <2>1. /\ anTakeover' = anTakeover /\ anRetries' = anRetries /\ anObj' = anObj /\ anHeld' = anHeld
        /\ anRun' = anRun /\ anAgent' = anAgent /\ anMemo' = anMemo /\ anHandler' = anHandler
        /\ anPending' = anPending /\ anResult' = anResult /\ anVerdict' = anVerdict
        /\ anTold' = anTold /\ anOutlived' = anOutlived
    BY <1>14 DEF anVars, anCtl, anEngine, anPast
  <2>2. AnShape' /\ NobodyAsked' /\ Registered'
    BY <2>1 DEF AnInv, AnShape, NobodyAsked, Registered, Now
  <2>3. ASSUME NEW k \in Attempts PROVE AttemptOf(k)'
    <3>1. AttemptOf(k)  BY DEF AnInv
    <3>. QED  BY <2>1, <3>1 DEF AttemptOf, Untouched, ReportedSuccess, Now
  <2>4. ASSUME NEW k \in Attempts, ~anOutlived' PROVE AnsweredOf(k)'
    <3>1. AnsweredOf(k)  BY <2>1, <2>4 DEF AnInv
    <3>. QED  BY <2>1, <3>1 DEF AnsweredOf, MayAsk, Now
  <2>. QED  BY <2>2, <2>3, <2>4 DEF AnInv
<1>. QED  BY <1>1, <1>2, <1>3, <1>4, <1>5, <1>6, <1>7, <1>8, <1>9, <1>10, <1>11, <1>12, <1>13, <1>14
          DEF AnNext

LEMMA DecidedOfInv == AnInv => AgentDecided
<1>. SUFFICES ASSUME AnInv PROVE AgentDecided  OBVIOUS
<1>1. ASSUME NEW k \in Attempts PROVE CompletedFairly(k)
  <2>1. AttemptOf(k)  BY DEF AnInv
  <2>. QED  BY <2>1 DEF CompletedFairly, AttemptOf, ReportedSuccess
<1>2. ASSUME ~anOutlived, NEW k \in Attempts PROVE AnswerStands(k)
  BY <1>2 DEF AnInv, AnsweredOf, AnswerStands
<1>. QED  BY <1>1, <1>2 DEF AgentDecided

\* Through any number of attempts, send-backs, timeouts and restarts: an agent node completes
\* only with a success its agent reported, once the run that reported it is over or the main
\* session, when it took the task over, was answered or waited for in vain; and as long as no
\* attempt leaves a coroutine behind that may still ask, an answer decides the attempt it was
\* given to, which stays registered for it (nodes/agent.py: execute, _handle_approval;
\* engine.py: resolve_approval).
THEOREM AgentNodeSafe == AnSpec => []AgentDecided
<1>1. AnInit => AnInv  BY AnInitInv
<1>2. AnInv /\ [AnNext]_anVars => AnInv'  BY AnStepKeeps
<1>3. AnInv => AgentDecided  BY DecidedOfInv
<1>. QED  BY <1>1, <1>2, <1>3, PTL DEF AnSpec

-----------------------------------------------------------------------------
(***************************************************************************)
(* Roundtable: the invariant.                                              *)
(***************************************************************************)
RtSpec == RtInit /\ [][RtNext]_rtVars

RtIds    == Nat \ {NoSeat}
RtStates == {"new", "waiting", "discussing", "paused", "ended"}
RtPcs    == {"none", "begin", "enter", "open", "check", "batch", "decide", "speak", "conclude"}
RtTypes ==
  /\ rtMode \in {"round_robin", "moderator_decides"} /\ rtStatus \in RtStates
  /\ rtSeats \in Seq(RtIds) /\ rtIndex \in RtIds /\ rtRound \in Nat
  /\ rtPc \in [RtRunners -> RtPcs] /\ rtTask \in RtRunners \cup {NoRunner}
  /\ rtSpeech \in [RtRunners -> [seat : Nat, then : {"check", "open", "batch"}, seen : BOOLEAN]]
  /\ rtTurn \in [seat : Nat, seen : BOOLEAN]

\* Seats stand in the order they were made in, and in a round of turns those before
\* the index have spoken, who are all of them at most.
Ascending(seats) == \A i, k \in 1..Len(seats) : i < k => seats[i] < seats[k]
Heard(seats, index, spoken) ==
  rtMode = "round_robin" =>
    /\ index <= Len(seats) + 1
    /\ \A i \in 1..Len(seats) : i < index => seats[i] \in spoken
RtSeatsOK == Ascending(rtSeats) /\ Heard(rtSeats, rtIndex, rtSpoken)

\* The runner there is is the one of _tasks.
RtAlone == \A r \in RtRunners : rtPc[r] # "none" => rtTask = r

\* Seats change only between two turns: who speaks in turn is the one at the index, and
\* what was shown of a speech is in the draft.
RtTurnOK ==
  /\ \A r \in RtRunners :
       /\ rtSpeech[r].seen => rtPc[r] = "speak" /\ rtTurn.seen
       /\ rtPc[r] = "speak" => rtTurn # NoTurn
       /\ rtPc[r] \notin {"none", "begin", "conclude"} => rtStatus \in {"discussing", "paused"}
       /\ rtPc[r] = "decide" => rtMode = "moderator_decides"
       /\ (rtPc[r] = "speak" /\ rtSpeech[r].then = "check" /\ rtMode = "round_robin")
            => rtIndex <= Len(rtSeats) /\ rtSpeech[r].seat = rtSeats[rtIndex]
  /\ rtStatus = "new" => ~rtListed /\ rtIndex = 1 /\ \A r \in RtRunners : rtPc[r] = "none"

RtSaved(s) ==
  /\ s = [st |-> s.st, seats |-> s.seats, index |-> s.index, round |-> s.round,
          finished |-> s.finished, spoken |-> s.spoken, busy |-> s.busy, log |-> s.log]
  /\ s.st \in RtStates \ {"new"} /\ s.seats \in Seq(RtIds) /\ s.index \in RtIds /\ s.round \in Nat

\* What a crash brings back is in order too, and no round ahead.
RtSavedOK ==
  rtFile # <<>> =>
    /\ RtSaved(rtFile[1])
    /\ rtFile[1].round <= rtRound
    /\ Ascending(rtFile[1].seats) /\ Heard(rtFile[1].seats, rtFile[1].index, rtFile[1].spoken)

\* The invariant of a meeting that had no two runners at once.
RtSound == RtTypes /\ RtSeatsOK /\ RtAlone /\ RtTurnOK /\ RtSavedOK
RtInv   == rtTwice \/ RtSound

\* A new seat is the last in order.
LEMMA RtGrows ==
  ASSUME RtSound
  PROVE  /\ RtAddSeat \in Seq(RtIds) /\ Ascending(RtAddSeat) /\ Len(RtAddSeat) = Len(rtSeats) + 1
         /\ \A i \in 1..Len(rtSeats) : RtAddSeat[i] = rtSeats[i]
<1> DEFINE top == CHOOSE n \in RtSeated : \A k \in RtSeated : k <= n
           new == 1 + (IF rtSeats = <<>> THEN 0 ELSE top)
<1>1. rtSeats \in Seq(RtIds) /\ Ascending(rtSeats) /\ Len(rtSeats) \in Nat
  BY DEF RtSound, RtTypes, RtSeatsOK
<1>2. \A i \in 1..Len(rtSeats) : rtSeats[i] \in RtIds /\ rtSeats[i] \in Nat
  BY <1>1 DEF RtIds
<1>3. CASE rtSeats = <<>>
  BY <1>1, <1>3 DEF RtAddSeat, Ascending, RtIds, NoSeat
<1>4. CASE rtSeats # <<>>
  <2>1. Len(rtSeats) \in 1..Len(rtSeats)
    BY <1>1, <1>4
  <2>2. rtSeats[Len(rtSeats)] \in RtSeated
    BY <2>1 DEF RtSeated
  <2>3. \A k \in RtSeated : k <= rtSeats[Len(rtSeats)]
    <3> SUFFICES ASSUME NEW i \in 1..Len(rtSeats) PROVE rtSeats[i] <= rtSeats[Len(rtSeats)]
      BY DEF RtSeated
    <3> QED
      BY <1>1, <1>2, <2>1 DEF Ascending
  <2>4. top \in RtSeated /\ \A k \in RtSeated : k <= top
    BY <2>2, <2>3
  <2>5. top \in Nat /\ \A i \in 1..Len(rtSeats) : rtSeats[i] <= top
    BY <2>4, <1>2 DEF RtSeated
  <2>6. new = 1 + top /\ RtAddSeat = Append(rtSeats, new)
    BY <1>4 DEF RtAddSeat
  <2> HIDE DEF top, new
  <2>7. new \in RtIds
    BY <2>5, <2>6 DEF RtIds, NoSeat
  <2>8. \A i \in 1..(Len(rtSeats) + 1) : Append(rtSeats, new)[i] = IF i = Len(rtSeats) + 1 THEN new ELSE rtSeats[i]
    BY <1>1
  <2> QED
    BY <1>1, <1>2, <2>5, <2>6, <2>7, <2>8 DEF Ascending
<1> QED
  BY <1>3, <1>4

\* A seat that leaves: the others keep their order and what they have said.
LEMMA RtShrinks ==
  ASSUME RtSound, NEW s \in RtSeated
  PROVE  /\ RtWithout(s) \in Seq(RtIds) /\ Ascending(RtWithout(s)) /\ RtMovedIndex(s) \in RtIds
         /\ Heard(RtWithout(s), RtMovedIndex(s), rtSpoken \ {s})
<1> DEFINE n == Len(rtSeats)
           p == RtPlace(s)
           w == RtWithout(s)
           x == RtMovedIndex(s)
<1>1. rtSeats \in Seq(RtIds) /\ Ascending(rtSeats) /\ n \in Nat /\ rtIndex \in Nat /\ rtIndex >= 1
  BY DEF RtSound, RtTypes, RtSeatsOK, RtIds, NoSeat
<1>2. \A i \in 1..n : rtSeats[i] \in RtIds /\ rtSeats[i] \in Nat
  BY <1>1 DEF RtIds
<1>3. PICK i \in 1..n : rtSeats[i] = s
  BY DEF RtSeated
<1>4. p \in 1..n /\ rtSeats[p] = s
  BY <1>3 DEF RtPlace
<1>5. \A k \in 1..n : k # p => rtSeats[k] # s
  BY <1>1, <1>2, <1>4 DEF Ascending
<1>6. w = [k \in 1..(n - 1) |-> rtSeats[IF k < p THEN k ELSE k + 1]]
  BY DEF RtWithout
<1>7. /\ rtMode # "round_robin" => x = rtIndex
      /\ x = rtIndex \/ (x = rtIndex - 1 /\ p < rtIndex) \/ (x = n - 1 /\ p = rtIndex /\ x < rtIndex)
      /\ x \in Nat /\ x >= 1
      /\ rtMode = "round_robin" /\ p < rtIndex => x = rtIndex - 1
  BY <1>1, <1>4 DEF RtMovedIndex
<1>11. rtMode = "round_robin" => x <= n
  <2>1. rtMode = "round_robin" => rtIndex <= n + 1
    BY DEF RtSound, RtSeatsOK, Heard
  <2>2. rtMode = "round_robin" /\ x = rtIndex => rtIndex <= n
    BY <1>1, <1>4, <1>7, <2>1
  <2> QED
    BY <1>1, <1>4, <1>7, <2>1, <2>2
<1> HIDE DEF n, p, w, x
<1>8. w \in Seq(RtIds) /\ Len(w) = n - 1
  BY <1>1, <1>2, <1>4, <1>6
<1>9. Ascending(w)
  <2> SUFFICES ASSUME NEW k \in 1..(n - 1), NEW l \in 1..(n - 1), k < l PROVE w[k] < w[l]
    BY <1>8 DEF Ascending
  <2> DEFINE a == IF k < p THEN k ELSE k + 1
             b == IF l < p THEN l ELSE l + 1
  <2>1. w[k] = rtSeats[a] /\ w[l] = rtSeats[b]
    BY <1>6
  <2>2. a \in 1..n /\ b \in 1..n /\ a < b
    BY <1>1, <1>4
  <2> QED
    BY <1>1, <2>1, <2>2 DEF Ascending, n
<1>10. Heard(w, x, rtSpoken \ {s})
  <2> SUFFICES ASSUME rtMode = "round_robin", NEW k \in 1..(n - 1), k < x PROVE w[k] \in rtSpoken \ {s}
    BY <1>1, <1>8, <1>11 DEF Heard
  <2> DEFINE q == IF k < p THEN k ELSE k + 1
  <2>1. w[k] = rtSeats[q] /\ q \in 1..n /\ q # p
    BY <1>1, <1>4, <1>6
  <2>2. q < rtIndex
    BY <1>1, <1>4, <1>7
  <2>3. rtSeats[q] \in rtSpoken
    BY <2>1, <2>2 DEF RtSound, RtSeatsOK, Heard, n
  <2> QED
    BY <1>5, <2>1, <2>3
<1> QED
  BY <1>7, <1>8, <1>9, <1>10 DEF RtIds, NoSeat, w, x

LEMMA RtSaveInv ==
  ASSUME RtTypes', RtSeatsOK', rtStatus' # "new", RtSave
  PROVE  RtSavedOK'
<1>1. rtFile'[1] = [st |-> rtStatus', seats |-> rtSeats', index |-> rtIndex', round |-> rtRound',
                    finished |-> rtFinished', spoken |-> rtSpoken', busy |-> rtBusy', log |-> rtLog']
  BY DEF RtSave
<1> QED
  BY <1>1 DEF RtSavedOK, RtSaved, RtTypes, RtSeatsOK, Heard, Ascending

\* A step that neither seats, counts nor saves.
LEMMA RtQuiet ==
  ASSUME RtSound, UNCHANGED <<rtMode, rtSeats, rtIndex, rtSpoken, rtRound, rtFile>>
  PROVE  RtSeatsOK' /\ RtSavedOK'
BY DEF RtSound, RtSeatsOK, RtSavedOK, Heard, Ascending

\* The only runner goes on, or is over.
LEMMA RtMoves ==
  ASSUME RtSound, NEW r \in RtRunners, rtTask = r, NEW pc \in RtPcs, RtGo(r, pc),
         rtTask' = r \/ pc = "none"
  PROVE  /\ rtPc' \in [RtRunners -> RtPcs] /\ rtPc'[r] = pc /\ RtAlone'
         /\ \A q \in RtRunners \ {r} : rtPc[q] = "none" /\ rtPc'[q] = "none" /\ ~rtSpeech[q].seen
<1>1. rtPc \in [RtRunners -> RtPcs]
  BY DEF RtSound, RtTypes
<1>2. rtPc' \in [RtRunners -> RtPcs] /\ rtPc'[r] = pc /\ \A q \in RtRunners \ {r} : rtPc'[q] = rtPc[q]
  BY <1>1 DEF RtGo
<1>3. \A q \in RtRunners \ {r} : rtPc[q] = "none"
  BY DEF RtSound, RtAlone
<1>4. \A q \in RtRunners \ {r} : ~rtSpeech[q].seen
  BY <1>3 DEF RtSound, RtTurnOK
<1> QED
  BY <1>2, <1>3, <1>4 DEF RtAlone

\* Who acts is the runner of _tasks.
LEMMA RtActs == ASSUME RtSound, NEW r \in RtRunners, rtPc[r] # "none" PROVE rtTask = r
BY DEF RtSound, RtAlone

LEMMA RtInitInv == RtInit => RtSound
<1> SUFFICES ASSUME RtInit PROVE RtSound
  OBVIOUS
<1>1. rtSeats = <<1, 2>> /\ rtSeats \in Seq(RtIds) /\ Len(rtSeats) = 2
  BY DEF RtInit, RtIds, NoSeat
<1>2. Ascending(rtSeats)
  BY <1>1 DEF Ascending
<1>3. RtTypes
  BY <1>1 DEF RtInit, RtTypes, RtStates, RtPcs, RtIds, NoSeat, NoTurn, Silent
<1>4. RtAlone /\ RtTurnOK
  BY DEF RtInit, RtAlone, RtTurnOK, Silent
<1> QED
  BY <1>1, <1>2, <1>3, <1>4 DEF RtInit, RtSound, RtSeatsOK, RtSavedOK, Heard, RtIds, NoSeat

LEMMA RtCreateInv ==
  ASSUME RtSound, NEW m \in {"round_robin", "moderator_decides"}, NEW n \in 2..RtMaxSeats, RtCreate(m, n)
  PROVE  RtSound'
<1>1. /\ rtSeats' = [i \in 1..n |-> i] /\ n \in Nat /\ rtIndex = 1 /\ \A r \in RtRunners : rtPc[r] = "none"
      /\ UNCHANGED <<rtPc, rtSpeech, rtTask, rtTurn>>
  BY DEF RtCreate, RtSound, RtTurnOK, rtRunner, rtDraft
<1>2. rtSeats' \in Seq(RtIds) /\ Ascending(rtSeats') /\ Len(rtSeats') = n
  BY <1>1 DEF Ascending, RtIds, NoSeat
<1>3. RtTypes' /\ rtStatus' # "new"
  BY <1>1, <1>2 DEF RtCreate, RtSound, RtTypes, RtStates
<1>4. RtAlone' /\ RtTurnOK'
  BY <1>1, <1>3 DEF RtSound, RtAlone, RtTurnOK
<1>5. RtSeatsOK'
  BY <1>1, <1>2 DEF RtSeatsOK, RtCreate, Heard, Ascending
<1> QED
  BY <1>3, <1>4, <1>5, RtSaveInv DEF RtCreate, RtSound

LEMMA RtBeginInv == ASSUME RtSound, NEW r \in RtRunners, RtBegin(r) PROVE RtSound'
<1>1. /\ rtPc[r] = "begin" /\ RtGo(r, "enter") /\ rtStatus' = "discussing" /\ RtSave
      /\ UNCHANGED <<rtMode, rtSeats, rtIndex, rtRound, rtSpoken, rtSpeech, rtTask, rtTurn>>
  BY DEF RtBegin, rtSeating, rtDraft
<1>2. rtTask = r /\ rtTask' = r
  BY <1>1, RtActs
<1>3. "enter" \in RtPcs
  BY DEF RtPcs
<1>4. /\ rtPc' \in [RtRunners -> RtPcs] /\ rtPc'[r] = "enter" /\ RtAlone'
      /\ \A q \in RtRunners \ {r} : rtPc'[q] = "none" /\ ~rtSpeech[q].seen
  BY <1>1, <1>2, <1>3, RtMoves
<1>5. RtTypes' /\ rtStatus' # "new"
  BY <1>1, <1>4 DEF RtSound, RtTypes, RtStates
<1>6. RtTurnOK'
  BY <1>1, <1>4 DEF RtSound, RtTurnOK
<1>7. RtSeatsOK'
  BY <1>1 DEF RtSound, RtSeatsOK, Heard, Ascending
<1> QED
  BY <1>1, <1>4, <1>5, <1>6, <1>7, RtSaveInv DEF RtSound

LEMMA RtConcludeInv == ASSUME RtSound, NEW r \in RtRunners, RtConclude(r) PROVE RtSound'
<1>1. /\ rtPc[r] = "conclude" /\ RtGo(r, "none") /\ rtStatus' = "ended" /\ RtSave /\ rtTask' = NoRunner
      /\ rtSpeech' = [rtSpeech EXCEPT ![r] = Silent]
      /\ rtTurn' = NoTurn \/ rtTurn' = rtTurn
      /\ UNCHANGED <<rtMode, rtSeats, rtIndex, rtRound, rtSpoken>>
  BY DEF RtConclude, RtOver, RtInterrupted, rtSeating
<1>2. rtTask = r
  BY <1>1, RtActs
<1>3. "none" \in RtPcs
  BY DEF RtPcs
<1>4. /\ rtPc' \in [RtRunners -> RtPcs] /\ rtPc'[r] = "none" /\ RtAlone'
      /\ \A q \in RtRunners \ {r} : rtPc'[q] = "none" /\ ~rtSpeech[q].seen
  BY <1>1, <1>2, <1>3, RtMoves
<1>5. RtTypes' /\ rtStatus' # "new"
  <2>1. /\ rtSpeech \in [RtRunners -> [seat : Nat, then : {"check", "open", "batch"}, seen : BOOLEAN]]
        /\ Silent \in [seat : Nat, then : {"check", "open", "batch"}, seen : BOOLEAN]
    BY DEF RtSound, RtTypes, Silent, NoSeat
  <2>2. rtSpeech' \in [RtRunners -> [seat : Nat, then : {"check", "open", "batch"}, seen : BOOLEAN]]
    BY <1>1, <2>1
  <2>3. rtTurn \in [seat : Nat, seen : BOOLEAN] /\ NoTurn \in [seat : Nat, seen : BOOLEAN]
    BY DEF RtSound, RtTypes, NoTurn, NoSeat
  <2>4. rtTurn' \in [seat : Nat, seen : BOOLEAN]
    BY <1>1, <2>3
  <2> QED
    BY <1>1, <1>4, <2>2, <2>4 DEF RtSound, RtTypes, RtStates
<1>6. \A q \in RtRunners : rtPc'[q] = "none" /\ ~rtSpeech'[q].seen
  BY <1>1, <1>4 DEF RtSound, RtTypes, Silent
<1>7. RtTurnOK'
  BY <1>5, <1>6 DEF RtTurnOK
<1>8. RtSeatsOK'
  BY <1>1 DEF RtSound, RtSeatsOK, Heard, Ascending
<1> QED
  BY <1>1, <1>4, <1>5, <1>7, <1>8, RtSaveInv DEF RtSound

\* Where a runner waits for something else than a speech of its own.
LEMMA RtCheckInv ==
  ASSUME RtSound, NEW r \in RtRunners, RtCheck(r) \/ RtOpen(r) \/ RtAskModerator(r) PROVE RtSound'
<1> DEFINE next == rtPc'[r]
<1>1. /\ rtPc[r] \in {"enter", "check", "open", "batch"}
      /\ UNCHANGED <<rtMode, rtStatus, rtListed, rtSeats, rtIndex, rtRound, rtSpoken, rtFile, rtSpeech, rtTask, rtTurn>>
  BY DEF RtCheck, RtOpen, RtAskModerator, rtSeating, rtSession, rtDraft
<1>2. \E pc \in {"conclude", "open", "batch", "check", "enter", "decide"} :
        RtGo(r, pc) /\ (pc = "decide" => rtMode = "moderator_decides")
  <2>1. CASE RtCheck(r)
    BY <2>1 DEF RtCheck
  <2>2. CASE RtOpen(r)
    BY <2>2 DEF RtOpen
  <2>3. CASE RtAskModerator(r)
    BY <2>3 DEF RtAskModerator, RtOnward
  <2> QED
    BY <2>1, <2>2, <2>3
<1>3. PICK pc \in {"conclude", "open", "batch", "check", "enter", "decide"} :
        RtGo(r, pc) /\ (pc = "decide" => rtMode = "moderator_decides")
  BY <1>2
<1>4. rtTask = r /\ rtTask' = r /\ pc \in RtPcs
  BY <1>1, RtActs DEF RtPcs
<1>5. /\ rtPc' \in [RtRunners -> RtPcs] /\ rtPc'[r] = pc /\ RtAlone'
      /\ \A q \in RtRunners \ {r} : rtPc'[q] = "none" /\ ~rtSpeech[q].seen
  BY <1>3, <1>4, RtMoves
<1>6. RtTypes'
  BY <1>1, <1>5 DEF RtSound, RtTypes
<1>7. RtTurnOK'
  BY <1>1, <1>3, <1>5 DEF RtSound, RtTurnOK
<1> QED
  BY <1>1, <1>5, <1>6, <1>7, RtQuiet DEF RtSound

LEMMA RtBreaksInv == ASSUME RtSound, NEW r \in RtRunners, RtBreaks(r) PROVE RtSound'
<1>1. /\ rtPc[r] \in {"decide", "speak"} /\ RtGo(r, "conclude") /\ rtStatus' = "ended"
      /\ (rtPc[r] = "speak" => ~rtSpeech[r].seen)
      /\ UNCHANGED <<rtMode, rtSeats, rtIndex, rtRound, rtSpoken, rtFile, rtSpeech, rtTask, rtTurn>>
  BY DEF RtBreaks, rtSeating, rtDraft
<1>2. rtTask = r /\ rtTask' = r /\ "conclude" \in RtPcs
  BY <1>1, RtActs DEF RtPcs
<1>3. /\ rtPc' \in [RtRunners -> RtPcs] /\ rtPc'[r] = "conclude" /\ RtAlone'
      /\ \A q \in RtRunners \ {r} : rtPc'[q] = "none" /\ ~rtSpeech[q].seen
  BY <1>1, <1>2, RtMoves
<1>4. ~rtSpeech[r].seen
  BY <1>1 DEF RtSound, RtTurnOK
<1>5. RtTypes'
  BY <1>1, <1>3 DEF RtSound, RtTypes, RtStates
<1>6. RtTurnOK'
  BY <1>1, <1>3, <1>4 DEF RtTurnOK
<1> QED
  BY <1>1, <1>3, <1>5, <1>6, RtQuiet DEF RtSound

LEMMA RtTokenInv == ASSUME RtSound, NEW r \in RtRunners, RtToken(r) PROVE RtSound'
<1>1. /\ rtPc[r] = "speak" /\ rtSpeech' = [rtSpeech EXCEPT ![r].seen = TRUE]
      /\ rtTurn' = IF rtTurn = NoTurn THEN NoTurn ELSE [rtTurn EXCEPT !.seen = TRUE]
      /\ UNCHANGED <<rtMode, rtStatus, rtListed, rtSeats, rtIndex, rtRound, rtSpoken, rtFile, rtPc, rtTask>>
  BY DEF RtToken, rtSession, rtSeating
<1>2. rtTask = r
  BY <1>1, RtActs
<1>3. rtTurn # NoTurn /\ rtTurn \in [seat : Nat, seen : BOOLEAN] /\ rtSpeech \in [RtRunners -> [seat : Nat, then : {"check", "open", "batch"}, seen : BOOLEAN]]
  BY <1>1 DEF RtSound, RtTypes, RtTurnOK
<1>4. rtTurn' \in [seat : Nat, seen : BOOLEAN] /\ rtTurn'.seen /\ rtTurn' # NoTurn
  BY <1>1, <1>3 DEF NoTurn
<1>5. /\ rtSpeech' \in [RtRunners -> [seat : Nat, then : {"check", "open", "batch"}, seen : BOOLEAN]]
      /\ rtSpeech'[r].seat = rtSpeech[r].seat /\ rtSpeech'[r].then = rtSpeech[r].then
      /\ \A q \in RtRunners \ {r} : rtSpeech'[q] = rtSpeech[q]
  BY <1>1, <1>3
<1>6. RtTypes' /\ RtAlone'
  BY <1>1, <1>4, <1>5 DEF RtSound, RtTypes, RtAlone
<1>7. RtTurnOK'
  BY <1>1, <1>4, <1>5 DEF RtSound, RtTurnOK
<1> QED
  BY <1>1, <1>6, <1>7, RtQuiet DEF RtSound

\* A speech begins: of a seat out of turn, or of the one at the index.
LEMMA RtSpeakInv ==
  ASSUME RtSound, NEW r \in RtRunners, rtPc[r] # "none", NEW s \in RtIds,
         NEW then \in {"check", "open", "batch"}, RtSpeak(r, s, then),
         UNCHANGED <<rtMode, rtStatus, rtListed, rtSeats, rtTask>>,
         rtStatus \in {"discussing", "paused"}, rtIndex' \in RtIds, rtRound' \in Nat,
         then = "check" /\ rtMode = "round_robin" => rtIndex' <= Len(rtSeats) /\ s = rtSeats[rtIndex']
  PROVE  RtTypes' /\ RtAlone' /\ RtTurnOK'
<1>1. rtTask = r /\ rtTask' = r /\ "speak" \in RtPcs /\ RtGo(r, "speak")
  BY RtActs DEF RtPcs, RtSpeak
<1>2. /\ rtPc' \in [RtRunners -> RtPcs] /\ rtPc'[r] = "speak" /\ RtAlone'
      /\ \A q \in RtRunners \ {r} : rtPc'[q] = "none" /\ ~rtSpeech[q].seen
  BY <1>1, RtMoves
<1>3. /\ rtSpeech' = [rtSpeech EXCEPT ![r] = [seat |-> s, then |-> then, seen |-> FALSE]]
      /\ rtTurn' = [seat |-> s, seen |-> FALSE] /\ s \in Nat /\ s # 0
      /\ rtSpeech \in [RtRunners -> [seat : Nat, then : {"check", "open", "batch"}, seen : BOOLEAN]]
  BY DEF RtSpeak, RtIds, NoSeat, RtSound, RtTypes
<1>4. /\ rtSpeech' \in [RtRunners -> [seat : Nat, then : {"check", "open", "batch"}, seen : BOOLEAN]]
      /\ rtSpeech'[r] = [seat |-> s, then |-> then, seen |-> FALSE]
      /\ \A q \in RtRunners \ {r} : rtSpeech'[q] = rtSpeech[q]
  BY <1>3
<1>5. rtTurn' # NoTurn /\ rtTurn' \in [seat : Nat, seen : BOOLEAN]
  BY <1>3 DEF NoTurn, NoSeat
<1>6. RtTypes'
  BY <1>2, <1>4, <1>5 DEF RtSound, RtTypes
<1>7. RtTurnOK'
  BY <1>2, <1>4, <1>5 DEF RtTurnOK
<1> QED
  BY <1>2, <1>6, <1>7

LEMMA RtInterveneInv == ASSUME RtSound, NEW r \in RtRunners, RtIntervene(r) PROVE RtSound'
<1> DEFINE iv == Head(rtBatch[r])
<1>1. /\ rtPc[r] \in {"open", "batch"} /\ UNCHANGED <<rtMode, rtStatus, rtListed, rtRound, rtTask>>
      /\ rtStatus \in {"discussing", "paused"}
  BY DEF RtIntervene, RtSound, RtTurnOK, rtSession
<1>2. CASE UNCHANGED <<rtSeats, rtIndex, rtSpoken, rtFile>>
  <2>1. (UNCHANGED <<rtPc, rtSpeech, rtTurn>>) \/ (iv.seat \in RtSeated /\ RtSpeak(r, iv.seat, rtPc[r]))
    BY DEF RtIntervene, rtDraft
  <2>2. RtTypes' /\ RtAlone' /\ RtTurnOK'
    <3>1. CASE UNCHANGED <<rtPc, rtSpeech, rtTurn>>
      BY <1>1, <1>2, <3>1 DEF RtSound, RtTypes, RtAlone, RtTurnOK
    <3>2. CASE iv.seat \in RtSeated /\ RtSpeak(r, iv.seat, rtPc[r])
      <4>1. iv.seat \in RtIds /\ rtIndex' \in RtIds /\ rtRound' \in Nat
        BY <1>1, <1>2, <3>2 DEF RtSeated, RtSound, RtTypes
      <4> HIDE DEF iv
      <4> QED
        BY <1>1, <1>2, <3>2, <4>1, RtSpeakInv
    <3> QED
      BY <2>1, <3>1, <3>2
  <2> QED
    BY <1>1, <1>2, <2>2, RtQuiet DEF RtSound
<1>3. CASE ~UNCHANGED <<rtSeats, rtIndex, rtSpoken, rtFile>>
  <2>1. RtSave /\ UNCHANGED <<rtPc, rtSpeech, rtTurn>>
    BY <1>3 DEF RtIntervene, rtDraft
  <2>2. \/ rtSeats' = RtAddSeat /\ UNCHANGED <<rtIndex, rtSpoken>>
        \/ /\ iv.seat \in RtSeated
           /\ rtSeats' = RtWithout(iv.seat) /\ rtIndex' = RtMovedIndex(iv.seat)
           /\ rtSpoken' = rtSpoken \ {iv.seat}
    BY <1>3 DEF RtIntervene
  <2> HIDE DEF iv
  <2>3. rtSeats' \in Seq(RtIds) /\ Ascending(rtSeats') /\ rtIndex' \in RtIds /\ Heard(rtSeats', rtIndex', rtSpoken')
    <3>1. CASE rtSeats' = RtAddSeat /\ UNCHANGED <<rtIndex, rtSpoken>>
      <4>1. rtIndex \in RtIds /\ Heard(rtSeats, rtIndex, rtSpoken) /\ rtSeats \in Seq(RtIds)
        BY DEF RtSound, RtTypes, RtSeatsOK
      <4>2. Heard(RtAddSeat, rtIndex, rtSpoken)
        <5>1. /\ Len(RtAddSeat) = Len(rtSeats) + 1 /\ Len(rtSeats) \in Nat /\ rtIndex \in Nat
              /\ \A i \in 1..Len(rtSeats) : RtAddSeat[i] = rtSeats[i]
          BY <4>1, RtGrows DEF RtIds
        <5> QED
          BY <4>1, <5>1 DEF Heard
      <4> QED
        BY <3>1, <4>1, <4>2, RtGrows
    <3>2. CASE ~(rtSeats' = RtAddSeat /\ UNCHANGED <<rtIndex, rtSpoken>>)
      BY <2>2, <3>2, RtShrinks
    <3> QED
      BY <3>1, <3>2
  <2>4. RtTypes' /\ RtAlone' /\ rtStatus' # "new"
    BY <1>1, <2>1, <2>3 DEF RtSound, RtTypes, RtAlone
  <2>5. RtTurnOK'
    <3>1. \A q \in RtRunners : rtPc[q] # "speak"
      BY <1>1 DEF RtSound, RtAlone
    <3> QED
      BY <1>1, <2>1, <3>1 DEF RtSound, RtTurnOK
  <2>6. RtSeatsOK'
    BY <1>1, <2>3 DEF RtSeatsOK, Heard, Ascending
  <2> QED
    BY <2>1, <2>4, <2>5, <2>6, RtSaveInv DEF RtSound
<1> QED
  BY <1>2, <1>3

LEMMA RtNextInOrderInv ==
  ASSUME RtSound, NEW r \in RtRunners, RtNextInOrder(r)
  PROVE  RtSound' /\ RtNoneSkipped
<1>1. /\ rtSeats \in Seq(RtIds) /\ Len(rtSeats) \in Nat /\ rtIndex \in Nat /\ rtIndex >= 1 /\ rtRound \in Nat
      /\ rtSeats = <<>> => Len(rtSeats) = 0
      /\ rtStatus \in {"discussing", "paused"}
      /\ rtMode = "round_robin" /\ rtPc[r] = "batch" /\ UNCHANGED <<rtMode, rtStatus, rtListed, rtSeats, rtFile, rtTask>>
      /\ Ascending(rtSeats) /\ \A i \in 1..Len(rtSeats) : i < rtIndex => rtSeats[i] \in rtSpoken
  <2>1. rtPc[r] = "batch" /\ rtMode = "round_robin" /\ UNCHANGED <<rtMode, rtStatus, rtListed, rtSeats, rtFile, rtTask>>
    BY DEF RtNextInOrder, rtSession
  <2>2. rtStatus \in {"discussing", "paused"}
    BY <2>1 DEF RtSound, RtTurnOK
  <2>3. rtSeats \in Seq(RtIds) /\ rtIndex \in Nat /\ rtIndex >= 1 /\ rtRound \in Nat
    BY DEF RtSound, RtTypes, RtIds, NoSeat
  <2>4. Ascending(rtSeats) /\ \A i \in 1..Len(rtSeats) : i < rtIndex => rtSeats[i] \in rtSpoken
    BY <2>1 DEF RtSound, RtSeatsOK, Heard
  <2> QED
    BY <2>1, <2>2, <2>3, <2>4
<1> DEFINE over == rtFinished \/ rtSeats = <<>> \/ (rtIndex > Len(rtSeats) /\ rtRound >= RtMaxRounds)
<1>2. CASE over
  <2>1. RtGo(r, "conclude") /\ UNCHANGED <<rtIndex, rtRound, rtSpoken, rtSpeech, rtTurn>>
    BY <1>2 DEF RtNextInOrder, rtDraft
  <2>2. rtTask = r /\ rtTask' = r /\ "conclude" \in RtPcs
    BY <1>1, RtActs DEF RtPcs
  <2>3. /\ rtPc' \in [RtRunners -> RtPcs] /\ rtPc'[r] = "conclude" /\ RtAlone'
        /\ \A q \in RtRunners \ {r} : rtPc'[q] = "none" /\ ~rtSpeech[q].seen
    BY <2>1, <2>2, RtMoves
  <2>4. RtTypes' /\ RtNoneSkipped
    BY <1>1, <2>1, <2>3 DEF RtSound, RtTypes, RtNoneSkipped
  <2>5. RtTurnOK'
    BY <1>1, <2>1, <2>3 DEF RtSound, RtTurnOK
  <2> QED
    BY <1>1, <2>1, <2>3, <2>4, <2>5, RtQuiet DEF RtSound
<1>3. CASE ~over
  <2>10. /\ RtSpeak(r, rtSeats[rtIndex'], "check") /\ rtSeats # <<>>
         /\ rtIndex > Len(rtSeats) => rtIndex' = 1 /\ rtRound' = rtRound + 1 /\ rtSpoken' = {}
         /\ ~(rtIndex > Len(rtSeats)) => rtIndex' = rtIndex /\ rtRound' = rtRound /\ rtSpoken' = rtSpoken
    BY <1>3 DEF RtNextInOrder
  <2>1. /\ \/ rtIndex > Len(rtSeats) /\ rtIndex' = 1 /\ rtRound' = rtRound + 1 /\ rtSpoken' = {}
           \/ rtIndex <= Len(rtSeats) /\ rtIndex' = rtIndex /\ rtRound' = rtRound /\ rtSpoken' = rtSpoken
    BY <1>1, <2>10
  <2>2. Len(rtSeats) >= 1
    BY <1>1, <2>10
  <2>3. rtIndex' \in 1..Len(rtSeats) /\ rtSeats[rtIndex'] \in RtIds /\ rtRound' \in Nat /\ rtIndex' \in RtIds
    BY <1>1, <2>1, <2>2 DEF RtIds, NoSeat
  <2>4. RtTypes' /\ RtAlone' /\ RtTurnOK'
    <3> DEFINE s == rtSeats[rtIndex']
    <3>1. s \in RtIds /\ rtIndex' <= Len(rtSeats) /\ s = rtSeats[rtIndex'] /\ RtSpeak(r, s, "check")
      BY <1>1, <2>3, <2>10
    <3> HIDE DEF s
    <3> QED
      BY <1>1, <2>3, <3>1, RtSpeakInv
  <2>5. /\ rtIndex' <= Len(rtSeats) + 1
        /\ \A i \in 1..Len(rtSeats) : i < rtIndex' => rtSeats[i] \in rtSpoken'
    BY <1>1, <2>1, <2>2
  <2>6. RtSeatsOK'
    BY <1>1, <2>5 DEF RtSeatsOK, Heard, Ascending
  <2>7. RtNoneSkipped
    BY <1>1, <2>1 DEF RtNoneSkipped, RtSeated
  <2>8. RtSavedOK'
    <3>1. rtRound' >= rtRound
      BY <1>1, <2>1
    <3> QED
      BY <1>1, <2>3, <3>1 DEF RtSound, RtSavedOK, RtSaved, Heard, Ascending
  <2> QED
    BY <2>4, <2>6, <2>7, <2>8 DEF RtSound
<1> QED
  BY <1>2, <1>3

LEMMA RtDecideInv ==
  ASSUME RtSound, NEW r \in RtRunners, NEW a \in Decided, NEW s \in 0..(RtMaxSeats + 1), RtDecide(r, a, s)
  PROVE  RtSound' /\ RtNoneSkipped
<1>1. /\ rtPc[r] = "decide" /\ rtMode = "moderator_decides" /\ rtStatus \in {"discussing", "paused"}
      /\ UNCHANGED <<rtMode, rtStatus, rtListed, rtSeats, rtIndex, rtFile, rtTask>>
      /\ rtRound \in Nat /\ (rtRound' = rtRound \/ rtRound' = rtRound + 1) /\ rtIndex \in RtIds
      /\ \/ s \in RtSeated /\ RtSpeak(r, s, "check")
         \/ (\E pc \in {"check", "enter"} : RtGo(r, pc)) /\ UNCHANGED <<rtSpeech, rtTurn>>
  BY DEF RtDecide, RtOnward, RtSound, RtTurnOK, RtTypes, rtSession, rtDraft
<1>5. s \in RtSeated => s \in RtIds
  BY DEF RtSeated, RtSound, RtTypes
<1>6. rtRound' \in Nat /\ rtRound' >= rtRound
  BY <1>1
<1>2. RtTypes' /\ RtAlone' /\ RtTurnOK'
  <2>1. CASE (\E pc \in {"check", "enter"} : RtGo(r, pc)) /\ UNCHANGED <<rtSpeech, rtTurn>>
    <3>1. PICK pc \in {"check", "enter"} : RtGo(r, pc)
      BY <2>1
    <3>2. rtTask = r /\ rtTask' = r /\ pc \in RtPcs
      BY <1>1, RtActs DEF RtPcs
    <3>3. /\ rtPc' \in [RtRunners -> RtPcs] /\ rtPc'[r] = pc /\ RtAlone'
          /\ \A q \in RtRunners \ {r} : rtPc'[q] = "none" /\ ~rtSpeech[q].seen
      BY <3>1, <3>2, RtMoves
    <3>4. RtTypes'
      BY <1>1, <1>6, <2>1, <3>3 DEF RtSound, RtTypes
    <3>5. ~rtSpeech[r].seen
      BY <1>1 DEF RtSound, RtTurnOK
    <3>6. RtTurnOK'
      BY <1>1, <2>1, <3>3, <3>5 DEF RtTurnOK
    <3> QED
      BY <3>3, <3>4, <3>6
  <2>2. CASE s \in RtSeated /\ RtSpeak(r, s, "check")
    BY <1>1, <1>5, <1>6, <2>2, RtSpeakInv
  <2> QED
    BY <1>1, <2>1, <2>2
<1>3. RtSeatsOK' /\ RtNoneSkipped
  BY <1>1 DEF RtSound, RtSeatsOK, Heard, Ascending, RtNoneSkipped
<1>4. RtSavedOK'
  BY <1>1, <1>6 DEF RtSound, RtSavedOK, RtSaved, Heard, Ascending
<1> QED
  BY <1>2, <1>3, <1>4 DEF RtSound

LEMMA RtSpokeInv == ASSUME RtSound, NEW r \in RtRunners, NEW told \in {0, 1}, RtSpoke(r, told) PROVE RtSound'
<1>1. /\ rtPc[r] = "speak" /\ rtStatus \in {"discussing", "paused"} /\ rtTurn' = NoTurn
      /\ UNCHANGED <<rtMode, rtStatus, rtListed, rtSeats, rtRound, rtTask>>
      /\ rtSpeech' = [rtSpeech EXCEPT ![r] = Silent]
      /\ rtSeats \in Seq(RtIds) /\ Len(rtSeats) \in Nat /\ rtIndex \in RtIds /\ rtIndex \in Nat
  <2>1. /\ rtPc[r] = "speak" /\ rtTurn' = NoTurn /\ rtSpeech' = [rtSpeech EXCEPT ![r] = Silent]
        /\ UNCHANGED <<rtMode, rtStatus, rtListed, rtSeats, rtRound, rtTask>>
    BY DEF RtSpoke, rtSession
  <2>2. rtStatus \in {"discussing", "paused"}
    BY <2>1 DEF RtSound, RtTurnOK
  <2>3. rtSeats \in Seq(RtIds) /\ rtIndex \in RtIds /\ rtIndex \in Nat
    BY DEF RtSound, RtTypes, RtIds
  <2> QED
    BY <2>1, <2>2, <2>3
<1>2. /\ rtTask = r /\ rtTask' = r
      /\ rtSpeech \in [RtRunners -> [seat : Nat, then : {"check", "open", "batch"}, seen : BOOLEAN]]
  BY <1>1, RtActs DEF RtSound, RtTypes
<1>3. /\ \E pc \in {"check", "enter", "open", "batch"} : RtGo(r, pc)
      /\ rtIndex' \in RtIds /\ rtIndex' \in Nat
  BY <1>1, <1>2 DEF RtSpoke, RtOnward, RtIds, NoSeat
<1>4. PICK pc \in {"check", "enter", "open", "batch"} : RtGo(r, pc)
  BY <1>3
<1>5. pc \in RtPcs
  BY DEF RtPcs
<1>6. /\ rtPc' \in [RtRunners -> RtPcs] /\ rtPc'[r] = pc /\ RtAlone'
      /\ \A q \in RtRunners \ {r} : rtPc'[q] = "none" /\ ~rtSpeech[q].seen
  BY <1>2, <1>4, <1>5, RtMoves
<1>7. RtTypes' /\ rtStatus' # "new"
  BY <1>1, <1>2, <1>3, <1>6 DEF RtSound, RtTypes, NoTurn, NoSeat, Silent
<1>8. \A q \in RtRunners : ~rtSpeech'[q].seen
  BY <1>1, <1>2, <1>6 DEF Silent
<1>9. RtTurnOK'
  BY <1>1, <1>6, <1>8 DEF RtTurnOK
<1>10. CASE rtSpeech[r].then = "check"
  <2>1. /\ RtSave /\ rtSpoken' = rtSpoken \cup {rtSpeech[r].seat}
        /\ rtIndex' = IF rtMode = "round_robin" THEN rtIndex + 1 ELSE rtIndex
    BY <1>10 DEF RtSpoke
  <2>3. rtMode = "round_robin" =>
          /\ rtIndex <= Len(rtSeats) /\ rtSpeech[r].seat = rtSeats[rtIndex]
          /\ \A i \in 1..Len(rtSeats) : i < rtIndex => rtSeats[i] \in rtSpoken
    BY <1>1, <1>10 DEF RtSound, RtTurnOK, RtSeatsOK, Heard
  <2>4. RtSeatsOK'
    <3>1. Ascending(rtSeats')
      BY <1>1 DEF RtSound, RtSeatsOK, Ascending
    <3>2. rtMode = "round_robin" => \A i \in 1..Len(rtSeats) : i < rtIndex + 1 => rtSeats[i] \in rtSpoken'
      BY <1>1, <2>1, <2>3
    <3> QED
      BY <1>1, <2>1, <2>3, <3>1, <3>2 DEF RtSeatsOK, Heard, Ascending
  <2> QED
    BY <1>6, <1>7, <1>9, <2>1, <2>4, RtSaveInv DEF RtSound
<1>11. CASE rtSpeech[r].then # "check"
  <2>1. UNCHANGED <<rtIndex, rtSpoken, rtFile>>
    BY <1>11 DEF RtSpoke
  <2> QED
    BY <1>1, <1>6, <1>7, <1>9, <2>1, RtQuiet DEF RtSound
<1> QED
  BY <1>10, <1>11

LEMMA RtStartInv == ASSUME RtSound, RtStart, ~rtTwice' PROVE RtSound'
<1>1. /\ UNCHANGED <<rtMode, rtStatus, rtListed, rtSeats, rtIndex, rtRound, rtSpoken, rtFile, rtSpeech, rtTurn>>
      /\ rtStatus \in {"waiting", "paused"}
  BY DEF RtStart, rtSeating, rtSession, rtDraft
<1>2. \A q \in RtRunners : rtPc[q] = "none"
  BY DEF RtStart, RtLive
<1>3. PICK r \in RtRunners : RtGo(r, "begin") /\ rtTask' = r
  BY DEF RtStart
<1>4. rtPc' = [rtPc EXCEPT ![r] = "begin"] /\ rtPc \in [RtRunners -> RtPcs] /\ "begin" \in RtPcs
  BY <1>3 DEF RtGo, RtSound, RtTypes, RtPcs
<1>5. rtPc' \in [RtRunners -> RtPcs] /\ rtPc'[r] = "begin" /\ \A q \in RtRunners \ {r} : rtPc'[q] = "none"
  BY <1>2, <1>4
<1>6. RtTypes' /\ RtAlone'
  BY <1>1, <1>3, <1>5 DEF RtSound, RtTypes, RtAlone
<1>7. RtTurnOK'
  BY <1>1, <1>2, <1>5 DEF RtSound, RtTurnOK
<1> QED
  BY <1>1, <1>6, <1>7, RtQuiet DEF RtSound

LEMMA RtPausesInv == ASSUME RtSound, RtPause \/ RtResume PROVE RtSound'
<1>1. /\ UNCHANGED <<rtMode, rtSeats, rtIndex, rtRound, rtSpoken, rtPc, rtSpeech, rtTask, rtTurn>>
      /\ rtStatus' \in {"paused", "discussing"} /\ RtSave
  BY DEF RtPause, RtResume, rtSeating, rtRunner, rtDraft
<1>2. RtTypes' /\ RtAlone' /\ rtStatus' # "new"
  BY <1>1 DEF RtSound, RtTypes, RtStates, RtAlone
<1>3. RtTurnOK'
  BY <1>1 DEF RtSound, RtTurnOK
<1>4. RtSeatsOK'
  BY <1>1 DEF RtSound, RtSeatsOK, Heard, Ascending
<1> QED
  BY <1>1, <1>2, <1>3, <1>4, RtSaveInv DEF RtSound

\* Cancelled is who runs, or nobody does.
LEMMA RtCancelledInv ==
  ASSUME RtSound, RtCancelled
  PROVE  /\ rtPc' \in [RtRunners -> RtPcs] /\ rtTask' \in RtRunners \cup {NoRunner} /\ RtAlone'
         /\ rtSpeech' \in [RtRunners -> [seat : Nat, then : {"check", "open", "batch"}, seen : BOOLEAN]]
         /\ rtTurn' \in [seat : Nat, seen : BOOLEAN]
         /\ \A q \in RtRunners : rtPc'[q] = "none" /\ ~rtSpeech'[q].seen
         /\ \A q \in RtRunners : rtSpeech[q].seen => rtLog' = rtLog + 1
<1>1. /\ rtPc \in [RtRunners -> RtPcs] /\ rtTask \in RtRunners \cup {NoRunner} /\ rtTurn \in [seat : Nat, seen : BOOLEAN]
      /\ rtSpeech \in [RtRunners -> [seat : Nat, then : {"check", "open", "batch"}, seen : BOOLEAN]]
      /\ \A q \in RtRunners : rtPc[q] # "none" => rtTask = q
      /\ \A q \in RtRunners : rtSpeech[q].seen => rtPc[q] = "speak" /\ rtTurn.seen
  BY DEF RtSound, RtTypes, RtAlone, RtTurnOK
<1>2. NoRunner \notin RtRunners
  BY DEF NoRunner, RtRunners
<1>3. CASE rtTask = NoRunner
  <2>1. UNCHANGED <<rtPc, rtSpeech, rtTask, rtTurn>>
    BY <1>3 DEF RtCancelled, rtRunner, rtDraft
  <2>2. \A q \in RtRunners : rtPc[q] = "none" /\ ~rtSpeech[q].seen
    BY <1>1, <1>2, <1>3
  <2> QED
    BY <1>1, <2>1, <2>2 DEF RtAlone
<1>4. CASE rtTask # NoRunner
  <2>1. /\ rtTask \in RtRunners /\ rtPc' = [rtPc EXCEPT ![rtTask] = "none"] /\ rtTask' = NoRunner
        /\ rtSpeech' = [rtSpeech EXCEPT ![rtTask] = Silent]
        /\ rtPc[rtTask] # "begin" => RtInterrupted
        /\ rtTurn' = rtTurn \/ rtTurn' = NoTurn
    BY <1>1, <1>4 DEF RtCancelled, RtOver, RtGo, RtInterrupted, rtDraft
  <2>2. \A q \in RtRunners \ {rtTask} : rtPc[q] = "none" /\ ~rtSpeech[q].seen
    BY <1>1
  <2>3. "none" \in RtPcs /\ Silent \in [seat : Nat, then : {"check", "open", "batch"}, seen : BOOLEAN] /\ ~Silent.seen
    BY DEF RtPcs, Silent, NoSeat
  <2>4. /\ rtPc' \in [RtRunners -> RtPcs] /\ \A q \in RtRunners : rtPc'[q] = "none"
        /\ rtSpeech' \in [RtRunners -> [seat : Nat, then : {"check", "open", "batch"}, seen : BOOLEAN]]
    BY <1>1, <2>1, <2>2, <2>3
  <2>5. \A q \in RtRunners : ~rtSpeech'[q].seen
    BY <1>1, <2>1, <2>2, <2>3
  <2>6. rtTurn' \in [seat : Nat, seen : BOOLEAN]
    <3>1. NoTurn \in [seat : Nat, seen : BOOLEAN]
      BY DEF NoTurn, NoSeat
    <3> QED
      BY <1>1, <2>1, <3>1
  <2>7. \A q \in RtRunners : rtSpeech[q].seen => rtLog' = rtLog + 1
    BY <1>1, <2>1 DEF RtInterrupted
  <2> QED
    BY <2>1, <2>4, <2>5, <2>6, <2>7 DEF RtAlone
<1> QED
  BY <1>3, <1>4

LEMMA RtStopInv == ASSUME RtSound, RtStop PROVE RtSound'
<1>1. /\ RtCancelled /\ rtStatus' = "ended" /\ RtSave
      /\ UNCHANGED <<rtMode, rtSeats, rtIndex, rtRound, rtSpoken>>
  BY DEF RtStop, rtSeating
<1>2. RtTypes' /\ RtAlone' /\ rtStatus' # "new"
  BY <1>1, RtCancelledInv DEF RtSound, RtTypes, RtStates
<1>3. RtTurnOK'
  BY <1>1, RtCancelledInv DEF RtTurnOK
<1>4. RtSeatsOK'
  BY <1>1 DEF RtSound, RtSeatsOK, Heard, Ascending
<1> QED
  BY <1>1, <1>2, <1>3, <1>4, RtSaveInv DEF RtSound

LEMMA RtDeleteInv == ASSUME RtSound, RtDelete PROVE RtSound'
<1>1. /\ RtCancelled /\ rtFile' = <<>> /\ (rtStatus' = "ended" \/ rtStatus' = rtStatus)
      /\ UNCHANGED <<rtMode, rtSeats, rtIndex, rtRound, rtSpoken>> /\ rtListed' = FALSE
  BY DEF RtDelete, rtSeating
<1>2. RtTypes' /\ RtAlone'
  BY <1>1, RtCancelledInv DEF RtSound, RtTypes, RtStates
<1>3. RtTurnOK'
  BY <1>1, RtCancelledInv DEF RtSound, RtTurnOK
<1>4. RtSeatsOK' /\ RtSavedOK'
  BY <1>1 DEF RtSound, RtSeatsOK, RtSavedOK, Heard, Ascending
<1> QED
  BY <1>2, <1>3, <1>4 DEF RtSound

LEMMA RtAskInv == ASSUME RtSound, NEW iv \in Asked, RtAsk(iv) PROVE RtSound'
<1>1. /\ UNCHANGED <<rtMode, rtStatus, rtListed, rtRound, rtPc, rtSpeech, rtTask, rtTurn>> /\ rtStatus # "new"
  BY DEF RtAsk, rtRunner, rtSession, rtDraft
<1>2. CASE UNCHANGED <<rtSeats, rtIndex, rtSpoken, rtFile>>
  <2>1. RtTypes' /\ RtAlone' /\ RtTurnOK'
    BY <1>1, <1>2 DEF RtSound, RtTypes, RtAlone, RtTurnOK
  <2> QED
    BY <1>1, <1>2, <2>1, RtQuiet DEF RtSound
<1>3. CASE ~UNCHANGED <<rtSeats, rtIndex, rtSpoken, rtFile>>
  <2>1. /\ rtStatus \in {"waiting", "ended"} /\ iv.type \in {"add_seat", "remove_seat"} /\ RtSave
        /\ rtSeats' = IF iv.type = "add_seat" THEN RtAddSeat ELSE RtWithout(iv.seat)
        /\ rtIndex' = IF iv.type = "add_seat" THEN rtIndex ELSE RtMovedIndex(iv.seat)
        /\ rtSpoken' = rtSpoken \ {iv.seat}
        /\ iv.type = "add_seat" => iv.seat = NoSeat
        /\ iv.type = "remove_seat" => iv.seat \in RtSeated
    BY <1>3 DEF RtAsk
  <2>2. \A r \in RtRunners : rtPc[r] \in {"none", "begin", "conclude"}
    BY <2>1 DEF RtSound, RtTurnOK, RtTypes
  <2>3. rtSeats' \in Seq(RtIds) /\ Ascending(rtSeats') /\ rtIndex' \in RtIds /\ Heard(rtSeats', rtIndex', rtSpoken')
    <3>1. CASE iv.type = "add_seat"
      <4>1. rtIndex \in RtIds /\ Heard(rtSeats, rtIndex, rtSpoken) /\ rtSeats \in Seq(RtIds)
        BY DEF RtSound, RtTypes, RtSeatsOK
      <4>2. /\ Len(RtAddSeat) = Len(rtSeats) + 1 /\ Len(rtSeats) \in Nat /\ rtIndex \in Nat
            /\ \A i \in 1..Len(rtSeats) : RtAddSeat[i] = rtSeats[i] /\ rtSeats[i] # NoSeat
        BY <4>1, RtGrows DEF RtIds
      <4>3. Heard(RtAddSeat, rtIndex, rtSpoken \ {NoSeat})
        BY <4>1, <4>2 DEF Heard
      <4> QED
        BY <2>1, <3>1, <4>1, <4>3, RtGrows
    <3>2. CASE iv.type = "remove_seat"
      BY <2>1, <3>2, RtShrinks
    <3> QED
      BY <2>1, <3>1, <3>2
  <2>4. RtTypes' /\ RtAlone' /\ rtStatus' # "new"
    BY <1>1, <2>3 DEF RtSound, RtTypes, RtAlone
  <2>5. RtTurnOK'
    BY <1>1, <2>2 DEF RtSound, RtTurnOK
  <2>6. RtSeatsOK'
    BY <1>1, <2>3 DEF RtSeatsOK, Heard, Ascending
  <2> QED
    BY <2>1, <2>4, <2>5, <2>6, RtSaveInv DEF RtSound
<1> QED
  BY <1>2, <1>3

\* What a new process reads is in order.
LEMMA RtLoadedInv ==
  ASSUME RtSound, NEW s, RtLoaded(s), RtSaved(s), s.round <= rtRound,
         Ascending(s.seats), Heard(s.seats, s.index, s.spoken)
  PROVE  RtSound' /\ RtNoneSkipped
<1>1. /\ rtMode' = rtMode /\ rtStatus' = IF s.st = "discussing" THEN "ended" ELSE s.st
      /\ rtFile' = <<[s EXCEPT !.st = rtStatus']>>
      /\ rtSeats' = s.seats /\ rtIndex' = s.index /\ rtRound' = s.round /\ rtSpoken' = s.spoken
      /\ rtPc' = [r \in RtRunners |-> "none"] /\ rtSpeech' = [r \in RtRunners |-> Silent]
      /\ rtTurn' = NoTurn /\ rtTask' = NoRunner
  BY DEF RtLoaded
<1>2. /\ s.st \in RtStates \ {"new"} /\ s.seats \in Seq(RtIds) /\ s.index \in RtIds
      /\ s.round \in Nat /\ rtRound \in Nat
  BY DEF RtSound, RtTypes, RtSaved
<1>3. rtStatus' \in RtStates \ {"new"}
  BY <1>1, <1>2 DEF RtStates
<1>4. RtTypes'
  BY <1>1, <1>2, <1>3 DEF RtSound, RtTypes, NoTurn, NoSeat, RtPcs, Silent
<1>5. RtAlone' /\ RtTurnOK'
  BY <1>1, <1>3 DEF RtAlone, RtTurnOK, Silent
<1>6. RtSeatsOK'
  BY <1>1, <1>2 DEF RtSeatsOK, Heard, Ascending
<1>7. RtNoneSkipped
  BY <1>1, <1>2 DEF RtNoneSkipped
<1>8. /\ rtFile'[1].seats = s.seats /\ rtFile'[1].index = s.index /\ rtFile'[1].round = s.round
      /\ rtFile'[1].spoken = s.spoken /\ RtSaved(rtFile'[1])
  BY <1>1, <1>2, <1>3 DEF RtSaved
<1>9. RtSavedOK'
  <2>1. RtSaved(rtFile'[1]) /\ rtFile'[1].round <= rtRound'
    BY <1>1, <1>2, <1>8
  <2>2. Ascending(rtFile'[1].seats)
    BY <1>8 DEF Ascending
  <2>3. rtMode' = "round_robin" =>
          /\ rtFile'[1].index <= Len(rtFile'[1].seats) + 1
          /\ \A i \in 1..Len(rtFile'[1].seats) :
               i < rtFile'[1].index => rtFile'[1].seats[i] \in rtFile'[1].spoken
    BY <1>1, <1>8 DEF Heard
  <2> DEFINE f == rtFile'[1]
  <2>4. RtSaved(f) /\ f.round <= rtRound' /\ Ascending(f.seats)
    BY <2>1, <2>2
  <2> QED
    BY <2>3, <2>4 DEF RtSavedOK, RtSaved, Ascending, Heard
<1> QED
  BY <1>4, <1>5, <1>6, <1>7, <1>9 DEF RtSound

LEMMA RtCrashInv == ASSUME RtSound, RtCrash PROVE RtSound' /\ RtNoneSkipped
BY RtLoadedInv DEF RtCrash, RtSound, RtSavedOK

LEMMA RtShutdownInv == ASSUME RtSound, RtShutdown PROVE RtSound' /\ RtNoneSkipped /\ RtShownIsKept
<1> DEFINE cut   == rtTask # NoRunner /\ rtPc[rtTask] # "begin"
           st    == IF cut \/ rtStatus = "discussing" THEN "ended" ELSE rtStatus
           busy  == IF cut THEN rtBusy \ {rtTurn.seat} ELSE rtBusy
           log   == IF cut /\ rtTurn.seen THEN rtLog + 1 ELSE rtLog
           s     == [st |-> st, seats |-> rtSeats, index |-> rtIndex, round |-> rtRound,
                     finished |-> rtFinished, spoken |-> rtSpoken, busy |-> busy, log |-> log]
<1>1. RtLoaded(s) /\ rtListed
  BY DEF RtShutdown
<1>2. st \in RtStates \ {"new"}
  BY <1>1 DEF RtSound, RtTypes, RtTurnOK, RtStates
<1>3. rtSeats \in Seq(RtIds) /\ rtIndex \in RtIds /\ rtRound \in Nat
  BY DEF RtSound, RtTypes
<1>4. Ascending(rtSeats) /\ Heard(rtSeats, rtIndex, rtSpoken)
  BY DEF RtSound, RtSeatsOK
<1>5. rtLog' = log
  BY <1>1 DEF RtLoaded
<1>6. \A r \in RtRunners : rtSpeech[r].seen => log = rtLog + 1
  <2> SUFFICES ASSUME NEW r \in RtRunners, rtSpeech[r].seen PROVE log = rtLog + 1
    OBVIOUS
  <2>1. rtPc[r] = "speak" /\ rtTurn.seen /\ rtTask = r
    BY DEF RtSound, RtTurnOK, RtAlone
  <2>2. r # NoRunner
    BY DEF RtRunners, NoRunner
  <2> QED
    BY <2>1, <2>2
<1> HIDE DEF st, busy, log
<1>7. RtSaved(s) /\ s.seats = rtSeats /\ s.index = rtIndex /\ s.spoken = rtSpoken /\ s.round <= rtRound
  BY <1>2, <1>3 DEF RtSaved
<1>8. Ascending(s.seats) /\ Heard(s.seats, s.index, s.spoken)
  BY <1>4, <1>7
<1> HIDE DEF s
<1> QED
  BY <1>1, <1>5, <1>6, <1>7, <1>8, RtLoadedInv DEF RtShownIsKept

\* Of a runner that does not speak nothing was shown.
LEMMA RtUnseen ==
  ASSUME RtSound, NEW r \in RtRunners, rtPc[r] \notin {"none", "speak"}
  PROVE  RtShownIsKept
<1> SUFFICES ASSUME NEW q \in RtRunners, rtSpeech[q].seen PROVE FALSE
  BY DEF RtShownIsKept
<1>1. rtPc[q] = "speak"
  BY DEF RtSound, RtTurnOK
<1>2. rtTask = q /\ rtTask = r
  BY <1>1, RtActs
<1> QED
  BY <1>1, <1>2

\* A step that leaves every speech as it is ends none.
LEMMA RtUnheard == ASSUME rtSpeech' = rtSpeech PROVE RtShownIsKept
BY DEF RtShownIsKept, Silent

\* What a runner that is alone does keeps the invariant, and is in order.
LEMMA RtRunInv ==
  ASSUME RtSound, NEW r \in RtRunners, RtRun(r)
  PROVE  RtSound' /\ RtNoneSkipped /\ RtShownIsKept
<1>1. rtRound \in Nat
  BY DEF RtSound, RtTypes
<1>2. CASE RtBegin(r) \/ RtConclude(r) \/ RtCheck(r) \/ RtOpen(r) \/ RtAskModerator(r)
  <2>1. rtRound' = rtRound /\ rtPc[r] \notin {"none", "speak"}
    BY <1>2 DEF RtBegin, RtConclude, RtCheck, RtOpen, RtAskModerator, rtSeating
  <2> QED
    BY <1>1, <1>2, <2>1, RtBeginInv, RtConcludeInv, RtCheckInv, RtUnseen DEF RtNoneSkipped
<1>3. CASE RtBreaks(r)
  <2>1. rtRound' = rtRound /\ rtSpeech' = rtSpeech
    BY <1>3 DEF RtBreaks, rtSeating
  <2> QED
    BY <1>1, <1>3, <2>1, RtBreaksInv, RtUnheard DEF RtNoneSkipped
<1>4. CASE RtToken(r)
  <2>1. rtRound' = rtRound /\ rtSpeech' = [rtSpeech EXCEPT ![r].seen = TRUE]
    BY <1>4 DEF RtToken, rtSeating
  <2>2. rtSpeech \in [RtRunners -> [seat : Nat, then : {"check", "open", "batch"}, seen : BOOLEAN]]
    BY DEF RtSound, RtTypes
  <2>3. \A q \in RtRunners : rtSpeech[q].seen => rtSpeech'[q].seen
    BY <2>1, <2>2
  <2> QED
    BY <1>1, <1>4, <2>1, <2>3, RtTokenInv DEF RtNoneSkipped, RtShownIsKept, Silent
<1>5. CASE RtIntervene(r)
  <2>1. rtRound' = rtRound /\ rtPc[r] \notin {"none", "speak"}
    BY <1>5 DEF RtIntervene
  <2> QED
    BY <1>1, <1>5, <2>1, RtInterveneInv, RtUnseen DEF RtNoneSkipped
<1>6. CASE RtNextInOrder(r)
  <2>1. rtPc[r] \notin {"none", "speak"}
    BY <1>6 DEF RtNextInOrder
  <2> QED
    BY <1>6, <2>1, RtNextInOrderInv, RtUnseen
<1>7. CASE \E a \in Decided, s \in 0..(RtMaxSeats + 1) : RtDecide(r, a, s)
  <2>1. rtPc[r] \notin {"none", "speak"}
    BY <1>7 DEF RtDecide
  <2> QED
    BY <1>7, <2>1, RtDecideInv, RtUnseen
<1>8. CASE \E told \in {0, 1} : RtSpoke(r, told)
  <2>1. PICK told \in {0, 1} : RtSpoke(r, told)
    BY <1>8
  <2>2. rtRound' = rtRound /\ rtLog' = rtLog + told /\ rtSpeech' = [rtSpeech EXCEPT ![r] = Silent]
    BY <2>1 DEF RtSpoke
  <2>3. RtSound'
    BY <2>1, RtSpokeInv
  <2>4. CASE told = 1
    BY <1>1, <2>2, <2>3, <2>4 DEF RtNoneSkipped, RtShownIsKept
  <2>5. CASE told = 0
    <3>1. \A q \in RtRunners : rtSpeech[q].seen => q = r
      <4> SUFFICES ASSUME NEW q \in RtRunners, rtSpeech[q].seen PROVE q = r
        OBVIOUS
      <4>1. rtPc[q] = "speak" /\ rtPc[r] = "speak"
        BY <2>1 DEF RtSound, RtTurnOK, RtSpoke
      <4> QED
        BY <4>1, RtActs
    <3>2. RtSpoke(r, 0)
      BY <2>1, <2>5
    <3>3. RtShownIsKept
      <4> HIDE <2>1, <2>2
      <4> QED
        BY <3>1, <3>2 DEF RtShownIsKept
    <3> QED
      BY <1>1, <2>2, <2>3, <3>3 DEF RtNoneSkipped
  <2> QED
    BY <2>4, <2>5
<1> QED
  BY <1>2, <1>3, <1>4, <1>5, <1>6, <1>7, <1>8 DEF RtRun

\* What users ask of a meeting that has no second runner, and keeps having none.
LEMMA RtUserInv ==
  ASSUME RtSound, RtUser, ~rtTwice'
  PROVE  RtSound' /\ RtNoneSkipped /\ RtShownIsKept
<1>1. rtRound \in Nat
  BY DEF RtSound, RtTypes
<1>2. CASE \E m \in {"round_robin", "moderator_decides"}, n \in 2..RtMaxSeats : RtCreate(m, n)
  <2>1. rtRound' = rtRound /\ rtSpeech' = rtSpeech
    BY <1>2 DEF RtCreate, rtRunner
  <2> QED
    BY <1>1, <1>2, <2>1, RtCreateInv, RtUnheard DEF RtNoneSkipped
<1>3. CASE RtStart
  <2>1. rtRound' = rtRound /\ rtSpeech' = rtSpeech
    BY <1>3 DEF RtStart, rtSeating
  <2> QED
    BY <1>1, <1>3, <2>1, RtStartInv, RtUnheard DEF RtNoneSkipped
<1>4. CASE RtPause \/ RtResume
  <2>1. rtRound' = rtRound /\ rtSpeech' = rtSpeech
    BY <1>4 DEF RtPause, RtResume, rtSeating, rtRunner
  <2> QED
    BY <1>1, <1>4, <2>1, RtPausesInv, RtUnheard DEF RtNoneSkipped
<1>5. CASE RtStop \/ RtDelete
  <2>1. rtRound' = rtRound /\ RtCancelled
    BY <1>5 DEF RtStop, RtDelete, rtSeating
  <2>2. RtSound'
    BY <1>5, RtStopInv, RtDeleteInv
  <2>3. RtShownIsKept
    BY <2>1, RtCancelledInv DEF RtShownIsKept
  <2> QED
    BY <1>1, <2>1, <2>2, <2>3 DEF RtNoneSkipped
<1>6. CASE RtShutdown
  BY <1>6, RtShutdownInv
<1>7. CASE RtCrash
  BY <1>7, RtCrashInv DEF RtShownIsKept
<1>8. CASE \E iv \in Asked : RtAsk(iv)
  <2>1. rtRound' = rtRound /\ rtSpeech' = rtSpeech
    BY <1>8 DEF RtAsk, rtRunner
  <2> QED
    BY <1>1, <1>8, <2>1, RtAskInv, RtUnheard DEF RtNoneSkipped
<1> QED
  BY <1>2, <1>3, <1>4, <1>5, <1>6, <1>7, <1>8 DEF RtUser

\* That a meeting had two runners is never forgotten.
LEMMA RtTwiceStays == ASSUME RtNext, rtTwice PROVE rtTwice'
<1>1. CASE RtUser
  <2>1. (\E m \in {"round_robin", "moderator_decides"}, n \in 2..RtMaxSeats : RtCreate(m, n)) => rtTwice'
    BY DEF RtCreate, rtCounts
  <2>2. RtStart \/ RtPause \/ RtResume \/ RtStop \/ RtDelete => rtTwice'
    BY DEF RtStart, RtPause, RtResume, RtStop, RtDelete, rtCounts
  <2>3. RtShutdown \/ RtCrash \/ (\E iv \in Asked : RtAsk(iv)) => rtTwice'
    BY DEF RtShutdown, RtCrash, RtAsk
  <2> QED
    BY <1>1, <2>1, <2>2, <2>3 DEF RtUser
<1>2. CASE \E r \in RtRunners : RtRun(r)
  <2>1. PICK r \in RtRunners : RtRun(r)
    BY <1>2
  <2>2. RtBegin(r) \/ RtCheck(r) \/ RtOpen(r) \/ RtAskModerator(r) \/ RtToken(r) => rtTwice'
    BY DEF RtBegin, RtCheck, RtOpen, RtAskModerator, RtToken, rtCounts
  <2>3. RtIntervene(r) \/ RtNextInOrder(r) \/ RtBreaks(r) \/ RtConclude(r) => rtTwice'
    BY DEF RtIntervene, RtNextInOrder, RtBreaks, RtConclude, rtCounts
  <2>4. (\E told \in {0, 1} : RtSpoke(r, told)) => rtTwice'
    BY DEF RtSpoke
  <2>5. (\E a \in Decided, s \in 0..(RtMaxSeats + 1) : RtDecide(r, a, s)) => rtTwice'
    BY DEF RtDecide, rtCounts
  <2> QED
    BY <2>1, <2>2, <2>3, <2>4, <2>5 DEF RtRun
<1> QED
  BY <1>1, <1>2 DEF RtNext

\* The meeting of runner.py and models.py: however seats come and go and whoever is
\* nominated, as long as the meeting is never given a second runner beside the first a
\* round of turns ends only when every seat had its turn, and a speech of which something
\* was shown is in the transcript when it is over, unless its stream failed.
THEOREM MeetingSafe == RtSpec => MeetingInOrder
<1>1. RtInv /\ [RtNext]_rtVars => RtInv'
  <2> SUFFICES ASSUME RtInv, [RtNext]_rtVars PROVE RtInv'
    OBVIOUS
  <2>1. CASE UNCHANGED rtVars
    <3>1. /\ UNCHANGED <<rtMode, rtStatus, rtListed, rtSeats, rtIndex, rtRound, rtSpoken, rtTwice>>
          /\ UNCHANGED <<rtPc, rtSpeech, rtTask, rtTurn, rtFile>>
      BY <2>1 DEF rtVars, rtSession, rtSeating, rtRunner, rtDraft, rtCounts
    <3>2. CASE RtSound
      <4>1. RtTypes' /\ RtAlone' /\ RtTurnOK'
        BY <3>1, <3>2 DEF RtSound, RtTypes, RtAlone, RtTurnOK
      <4> QED
        BY <3>1, <3>2, <4>1, RtQuiet DEF RtInv, RtSound
    <3> QED
      BY <3>1, <3>2 DEF RtInv
  <2>2. CASE RtNext
    BY <2>2, RtTwiceStays, RtRunInv, RtUserInv DEF RtInv, RtNext
  <2> QED
    BY <2>1, <2>2
<1>2. RtInv /\ [RtNext]_rtVars => [~rtTwice' => RtNoneSkipped /\ RtShownIsKept]_rtVars
  <2> SUFFICES ASSUME RtInv, RtNext, ~rtTwice' PROVE RtNoneSkipped /\ RtShownIsKept
    OBVIOUS
  <2>1. RtSound
    BY RtTwiceStays DEF RtInv
  <2> QED
    BY <2>1, RtRunInv, RtUserInv DEF RtNext
<1>3. RtInit => RtInv
  BY RtInitInv DEF RtInv
<1> QED
  BY <1>1, <1>2, <1>3, PTL DEF RtSpec, MeetingInOrder

-----------------------------------------------------------------------------
(***************************************************************************)
(* EventStream: the invariant.                                             *)
(***************************************************************************)
EvSpec == EvInit /\ [][EvNext]_evVars

EvPhases == {"loading", "ready", "streaming", "reconnecting", "error"}
EvView   == [connected : BOOLEAN, phase : EvPhases, gen : Nat, rev : Int, msgs : Int, seg : Nat,
             streaming : BOOLEAN, resync : BOOLEAN, received : Int]
EvFrame  == [k : {"snapshot", "stream_start", "token", "stream_end", "chain_end", "failed", "error", "refused"},
             rev : Int, gen : Nat, msgs : Int, seg : Nat, dead : BOOLEAN]

EvTypes ==
  /\ evPc \in {"idle", "asked", "streaming", "closing"} /\ evDead \in BOOLEAN
  /\ evRecord \in Nat /\ evRev \in Nat /\ evStream \in [gen : Nat, base : Nat, seg : Nat]
  /\ evConn \in [link : {"up", "cut", "down"}, queue : Seq(EvFrame), over : Seq(EvFrame)]
  /\ evUp \in Seq({"message", "resync"}) /\ evShow \in EvView /\ evTorn \in BOOLEAN
  /\ evTurns \in Nat

\* A draft is there while a turn streams, and a dead session has no turn.
EvTurnOK ==
  /\ evPc \in {"streaming", "closing"} <=> evStream # NoStream
  /\ evPc = "asked" => evTurns >= 1
  /\ evStream # NoStream => evStream.gen >= 1 /\ evStream.base <= evRecord
  /\ evDead => evPc = "idle"

\* The frames under way, in the order the client reads them, and what the client shows
\* after each of them; an error it does not ask about was there or came in a snapshot.
EvAmiss(s) == s.phase = "error" /\ ~s.resync
EvReads(g, s, q) ==
  /\ g \in [0..Len(q) -> EvView] /\ g[0] = s
  /\ \A i \in 1..Len(q) : g[i] = EvReduce(g[i - 1], q[i])
  /\ \A i \in 0..Len(q) : EvAmiss(g[i]) =>
       \E j \in 0..i : (j = 0 \/ q[j].k = "snapshot") /\ \A l \in j..i : EvAmiss(g[l])

\* What it shows when it has read them all: the truth, or it asks for a snapshot.
EvAsking == \E i \in 1..Len(evUp) : evUp[i] = "message"
EvSynced(s) ==
  /\ s.rev \in Nat /\ s.rev <= evRev /\ s.msgs <= evRecord
  /\ ~s.resync =>
       /\ s.rev = evRev
       /\ evStream # NoStream =>
            s.streaming /\ s.gen = evStream.gen /\ s.seg = evStream.seg /\ s.msgs <= evStream.base
       /\ evStream = NoStream =>
            ~s.streaming /\ s.gen = 0 /\ (evPc = "idle" /\ ~EvAsking => s.msgs = evRecord)
       /\ s.phase = "error" => evDead /\ s.msgs = evRecord

EvFrames == evConn.queue \o evConn.over
EvReadsTruth ==
  evConn.link = "up" /\ ~evTorn =>
    \E g : EvReads(g, evShow, EvFrames) /\ EvSynced(g[Len(EvFrames)])

EvInv == EvTypes /\ EvTurnOK /\ EvReadsTruth

LEMMA EvInvShows == EvInv => EvShowsTruth
<1> SUFFICES ASSUME EvInv, EvCaughtUp PROVE EvInSync /\ EvNotTwice
  BY DEF EvShowsTruth, EvInSync, EvNotTwice
<1>1. PICK g : EvReads(g, evShow, EvFrames) /\ EvSynced(g[Len(EvFrames)])
  BY DEF EvInv, EvReadsTruth, EvCaughtUp
<1>2. EvFrames = <<>> /\ Len(EvFrames) = 0 /\ ~EvAsking /\ ~evShow.resync
  BY DEF EvCaughtUp, EvFrames, EvAsking
<1>3. EvSynced(evShow)
  BY <1>1, <1>2 DEF EvReads
<1> QED
  BY <1>2, <1>3 DEF EvInSync, EvNotTwice, EvSynced

-----------------------------------------------------------------------------
(***************************************************************************)
(* EventStream: the reducer.                                               *)
(***************************************************************************)
LEMMA EvFields ==
  /\ \A s \in EvView, x \in Nat : [s EXCEPT !.gen = x] \in EvView
  /\ \A s \in EvView, x \in EvPhases : [s EXCEPT !.phase = x] \in EvView
  /\ \A s \in EvView, x \in Nat : [s EXCEPT !.seg = x] \in EvView
  /\ \A s \in EvView, x \in BOOLEAN : [s EXCEPT !.streaming = x] \in EvView
  /\ \A s \in EvView, x \in BOOLEAN : [s EXCEPT !.resync = x] \in EvView
  /\ \A s \in EvView, x \in Int : [s EXCEPT !.rev = x] \in EvView
  /\ \A s \in EvView, x \in Int : [s EXCEPT !.msgs = x] \in EvView
  /\ \A s \in EvView, x \in Int : [s EXCEPT !.received = x] \in EvView
<1>1. \A s \in EvView, x \in Nat : [s EXCEPT !.gen = x] \in EvView
  BY DEF EvView
<1>2. \A s \in EvView, x \in EvPhases : [s EXCEPT !.phase = x] \in EvView
  BY DEF EvView
<1>3. \A s \in EvView, x \in Nat : [s EXCEPT !.seg = x] \in EvView
  BY DEF EvView
<1>4. \A s \in EvView, x \in BOOLEAN : [s EXCEPT !.streaming = x] \in EvView
  BY DEF EvView
<1>5. \A s \in EvView, x \in BOOLEAN : [s EXCEPT !.resync = x] \in EvView
  BY DEF EvView
<1>6. \A s \in EvView, x \in Int : [s EXCEPT !.rev = x] \in EvView
  BY DEF EvView
<1>7. \A s \in EvView, x \in Int : [s EXCEPT !.msgs = x] \in EvView
  BY DEF EvView
<1>8. \A s \in EvView, x \in Int : [s EXCEPT !.received = x] \in EvView
  BY DEF EvView
<1> QED
  BY <1>1, <1>2, <1>3, <1>4, <1>5, <1>6, <1>7, <1>8

LEMMA EvQuietType ==
  ASSUME NEW s \in EvView, NEW p \in EvPhases
  PROVE  Quiet(s, p) \in EvView
<1> DEFINE a == [s EXCEPT !.gen = 0]
           b == [a EXCEPT !.phase = p]
           c == [b EXCEPT !.seg = 0]
           d == [c EXCEPT !.streaming = FALSE]
<1>0. 0 \in Nat /\ FALSE \in BOOLEAN
  OBVIOUS
<1>1. a \in EvView
  BY <1>0, EvFields, Zenon
<1> HIDE DEF a
<1>2. b \in EvView
  BY <1>1, EvFields, Zenon
<1> HIDE DEF b
<1>3. c \in EvView
  BY <1>0, <1>2, EvFields, Zenon
<1> HIDE DEF c
<1>4. d \in EvView
  BY <1>0, <1>3, EvFields, Zenon
<1> HIDE DEF d
<1>5. [d EXCEPT !.resync = FALSE] \in EvView
  BY <1>0, <1>4, EvFields, Zenon
<1>6. Quiet(s, p) = [d EXCEPT !.resync = FALSE]
  BY Zenon DEF Quiet, a, b, c, d
<1> QED
  BY <1>5, <1>6, Zenon

LEMMA EvViews ==
  ASSUME NEW s \in EvView, NEW gen \in Nat, NEW rev \in Int, NEW msgs \in Int
  PROVE  /\ [s EXCEPT !.gen = gen, !.streaming = TRUE, !.received = 0] \in EvView
         /\ [s EXCEPT !.phase = "streaming", !.streaming = TRUE, !.seg = @ + 1] \in EvView
         /\ [s EXCEPT !.resync = TRUE, !.received = 0] \in EvView
         /\ [s EXCEPT !.msgs = msgs, !.received = 0] \in EvView
         /\ [s EXCEPT !.rev = rev, !.msgs = msgs, !.received = 0] \in EvView
<1>0. 0 \in Int /\ TRUE \in BOOLEAN /\ "streaming" \in EvPhases
  BY DEF EvPhases
<1>1. [s EXCEPT !.gen = gen, !.streaming = TRUE, !.received = 0] \in EvView
  <2> DEFINE a == [s EXCEPT !.gen = gen]
             b == [a EXCEPT !.streaming = TRUE]
  <2>1. a \in EvView
    BY <1>0, EvFields, Zenon
  <2> HIDE DEF a
  <2>2. b \in EvView
    BY <1>0, <2>1, EvFields, Zenon
  <2> HIDE DEF b
  <2>3. [b EXCEPT !.received = 0] \in EvView
    BY <1>0, <2>2, EvFields, Zenon
  <2> QED
    BY <2>3, Zenon DEF a, b
<1>2. [s EXCEPT !.phase = "streaming", !.streaming = TRUE, !.seg = @ + 1] \in EvView
  <2> DEFINE a == [s EXCEPT !.phase = "streaming"]
             b == [a EXCEPT !.streaming = TRUE]
  <2>1. a \in EvView
    BY <1>0, EvFields, Zenon
  <2> HIDE DEF a
  <2>2. b \in EvView
    BY <1>0, <2>1, EvFields, Zenon
  <2> HIDE DEF b
  <2>3. b.seg + 1 \in Nat
    BY <2>2 DEF EvView
  <2>4. [b EXCEPT !.seg = b.seg + 1] \in EvView
    BY <1>0, <2>2, <2>3, EvFields, Zenon
  <2> QED
    BY <2>4, Zenon DEF a, b
<1>3. [s EXCEPT !.resync = TRUE, !.received = 0] \in EvView
  <2> DEFINE a == [s EXCEPT !.resync = TRUE]
  <2>1. a \in EvView
    BY <1>0, EvFields, Zenon
  <2> HIDE DEF a
  <2>2. [a EXCEPT !.received = 0] \in EvView
    BY <1>0, <2>1, EvFields, Zenon
  <2> QED
    BY <2>2, Zenon DEF a
<1>4. [s EXCEPT !.msgs = msgs, !.received = 0] \in EvView
  <2> DEFINE a == [s EXCEPT !.msgs = msgs]
  <2>1. a \in EvView
    BY <1>0, EvFields, Zenon
  <2> HIDE DEF a
  <2>2. [a EXCEPT !.received = 0] \in EvView
    BY <1>0, <2>1, EvFields, Zenon
  <2> QED
    BY <2>2, Zenon DEF a
<1>5. [s EXCEPT !.rev = rev, !.msgs = msgs, !.received = 0] \in EvView
  <2> DEFINE a == [s EXCEPT !.rev = rev]
             b == [a EXCEPT !.msgs = msgs]
  <2>1. a \in EvView
    BY <1>0, EvFields, Zenon
  <2> HIDE DEF a
  <2>2. b \in EvView
    BY <1>0, <2>1, EvFields, Zenon
  <2> HIDE DEF b
  <2>3. [b EXCEPT !.received = 0] \in EvView
    BY <1>0, <2>2, EvFields, Zenon
  <2> QED
    BY <2>3, Zenon DEF a, b
<1> QED
  BY <1>1, <1>2, <1>3, <1>4, <1>5, Zenon

LEMMA EvReduceType ==
  ASSUME NEW s \in EvView, NEW e \in EvFrame
  PROVE  EvReduce(s, e) \in EvView
<1>1. EvShowSnapshot(s, e) \in EvView
  <2> DEFINE on == e.gen # 0
             phase == IF e.dead THEN "error" ELSE IF e.gen # 0 THEN "streaming" ELSE "ready"
  <2>1. on \in BOOLEAN /\ phase \in EvPhases
    BY DEF EvPhases
  <2>2. EvShowSnapshot(s, e) =
          [s EXCEPT !.gen = e.gen, !.rev = e.rev, !.msgs = e.msgs, !.seg = e.seg,
                    !.streaming = on, !.resync = FALSE, !.received = 0, !.phase = phase]
    BY DEF EvShowSnapshot
  <2>3. /\ s.connected \in BOOLEAN /\ e.gen \in Nat /\ e.rev \in Int /\ e.msgs \in Int /\ e.seg \in Nat
        /\ s = [connected |-> s.connected, phase |-> s.phase, gen |-> s.gen, rev |-> s.rev, msgs |-> s.msgs,
                 seg |-> s.seg, streaming |-> s.streaming, resync |-> s.resync, received |-> s.received]
    BY DEF EvView, EvFrame
  <2> HIDE DEF on, phase
  <2>4. EvShowSnapshot(s, e) =
          [connected |-> s.connected, phase |-> phase, gen |-> e.gen, rev |-> e.rev, msgs |-> e.msgs,
           seg |-> e.seg, streaming |-> on, resync |-> FALSE, received |-> 0]
    BY <2>2, <2>3
  <2> QED
    BY <2>1, <2>3, <2>4 DEF EvView
<1>2. EvAccept(s, e) \in EvView
  <2> DEFINE t == IF e.rev = Null THEN s ELSE [s EXCEPT !.rev = e.rev]
  <2>1. t \in EvView /\ e.gen \in Nat /\ e.msgs \in Int
    BY DEF EvView, EvFrame
  <2> HIDE DEF t
  <2>2. /\ [t EXCEPT !.phase = "streaming", !.streaming = TRUE, !.seg = @ + 1] \in EvView
        /\ [t EXCEPT !.resync = TRUE, !.received = 0] \in EvView
    BY <2>1, EvViews
  <2>4. {"streaming", "ready", "error"} \subseteq EvPhases
    BY DEF EvPhases
  <2>5. Quiet(t, "streaming") \in EvView /\ Quiet(t, "ready") \in EvView /\ Quiet(t, "error") \in EvView
    BY <2>1, <2>4, EvQuietType
  <2>6. /\ [Quiet(t, "streaming") EXCEPT !.gen = e.gen, !.streaming = TRUE, !.received = 0] \in EvView
        /\ [Quiet(t, "ready") EXCEPT !.msgs = e.msgs, !.received = 0] \in EvView
        /\ [Quiet(t, "error") EXCEPT !.resync = TRUE, !.received = 0] \in EvView
    BY <2>1, <2>5, EvViews
  <2>3. t = IF e.rev = Null THEN s ELSE [s EXCEPT !.rev = e.rev]
    BY DEF t
  <2> QED
    BY <2>1, <2>2, <2>3, <2>6 DEF EvAccept
<1>3. [Quiet(s, "ready") EXCEPT !.rev = e.rev, !.msgs = e.msgs, !.received = 0] \in EvView
  <2>1. "ready" \in EvPhases /\ e.rev \in Int /\ e.msgs \in Int
    BY DEF EvPhases, EvFrame
  <2> QED
    BY <2>1, EvQuietType, EvViews
<1>4. [s EXCEPT !.resync = TRUE, !.phase = "reconnecting", !.received = e.rev] \in EvView
  BY DEF EvView, EvFrame, EvPhases
<1> QED
  BY <1>1, <1>2, <1>3, <1>4 DEF EvReduce

\* What the client added by itself changes nothing but itself, up to the next frame
\* that brings messages.
Mine(s) == [s EXCEPT !.msgs = Optimistic]
LEMMA EvReduceMine ==
  ASSUME NEW s \in EvView, NEW e \in EvFrame
  PROVE  /\ EvReduce(Mine(s), e) = EvReduce(s, e) \/ EvReduce(Mine(s), e) = Mine(EvReduce(s, e))
         /\ e.k = "snapshot" => EvReduce(Mine(s), e) = EvReduce(s, e)
<1> DEFINE z == Mine(s)
<1>1. /\ z.phase = s.phase /\ z.gen = s.gen /\ z.rev = s.rev /\ z.seg = s.seg /\ z.resync = s.resync
      /\ z.streaming = s.streaming /\ z.received = s.received /\ z.connected = s.connected
  BY DEF Mine, EvView
<1>2. EvShowSnapshot(z, e) = EvShowSnapshot(s, e)
  BY DEF Mine, EvView, EvShowSnapshot
<1>3. EvAccept(z, e) = EvAccept(s, e) \/ EvAccept(z, e) = Mine(EvAccept(s, e))
  <2> DEFINE t == IF e.rev = Null THEN s ELSE [s EXCEPT !.rev = e.rev]
             u == IF e.rev = Null THEN z ELSE [z EXCEPT !.rev = e.rev]
  <2>1. t \in EvView /\ u = Mine(t)
    BY DEF Mine, EvView, EvFrame
  <2>2. /\ t = IF e.rev = Null THEN s ELSE [s EXCEPT !.rev = e.rev]
        /\ u = IF e.rev = Null THEN z ELSE [z EXCEPT !.rev = e.rev]
    OBVIOUS
  <2> HIDE DEF t, u, z
  <2>3. /\ [Quiet(u, "streaming") EXCEPT !.gen = e.gen, !.streaming = TRUE, !.received = 0]
             = Mine([Quiet(t, "streaming") EXCEPT !.gen = e.gen, !.streaming = TRUE, !.received = 0])
        /\ [u EXCEPT !.phase = "streaming", !.streaming = TRUE, !.seg = @ + 1]
             = Mine([t EXCEPT !.phase = "streaming", !.streaming = TRUE, !.seg = @ + 1])
        /\ [u EXCEPT !.resync = TRUE, !.received = 0] = Mine([t EXCEPT !.resync = TRUE, !.received = 0])
        /\ [Quiet(u, "ready") EXCEPT !.msgs = e.msgs, !.received = 0]
             = [Quiet(t, "ready") EXCEPT !.msgs = e.msgs, !.received = 0]
        /\ [Quiet(u, "error") EXCEPT !.resync = TRUE, !.received = 0]
             = Mine([Quiet(t, "error") EXCEPT !.resync = TRUE, !.received = 0])
    BY <2>1 DEF Mine, EvView, Quiet
  <2> QED
    BY <2>1, <2>2, <2>3 DEF EvAccept
<1>4. [Quiet(z, "ready") EXCEPT !.rev = e.rev, !.msgs = e.msgs, !.received = 0]
        = [Quiet(s, "ready") EXCEPT !.rev = e.rev, !.msgs = e.msgs, !.received = 0]
  BY DEF Mine, EvView, Quiet
<1>5. [z EXCEPT !.resync = TRUE, !.phase = "reconnecting", !.received = e.rev]
        = Mine([s EXCEPT !.resync = TRUE, !.phase = "reconnecting", !.received = e.rev])
  BY DEF Mine, EvView
<1>6. EvOld(z, e) = EvOld(s, e) /\ EvGap(z, e) = EvGap(s, e)
  BY <1>1 DEF EvOld, EvGap
<1> HIDE DEF z
<1>7. z = Mine(s)
  BY DEF z
<1> QED
  BY <1>1, <1>2, <1>3, <1>4, <1>5, <1>6, <1>7 DEF EvReduce

\* Only a snapshot brings an error the client does not ask about.
LEMMA EvReduceAmiss ==
  ASSUME NEW s \in EvView, NEW e \in EvFrame, EvAmiss(EvReduce(s, e)), e.k # "snapshot"
  PROVE  EvAmiss(s)
<1>1. EvAmiss(EvAccept(s, e)) => EvAmiss(s)
  BY DEF EvAmiss, EvAccept, Quiet, EvView, EvFrame
<1>2. ~EvAmiss([Quiet(s, "ready") EXCEPT !.rev = e.rev, !.msgs = e.msgs, !.received = 0])
  BY DEF EvAmiss, Quiet, EvView
<1>3. ~EvAmiss([s EXCEPT !.resync = TRUE, !.phase = "reconnecting", !.received = e.rev])
  BY DEF EvAmiss, EvView
<1> QED
  BY <1>1, <1>2, <1>3 DEF EvReduce

-----------------------------------------------------------------------------
(***************************************************************************)
(* EventStream: the frames under way.                                      *)
(***************************************************************************)
LEMMA EvReadsOne ==
  ASSUME NEW g, NEW s, NEW q \in Seq(EvFrame), NEW e \in EvFrame, EvReads(g, s, q)
  PROVE  \E h : EvReads(h, s, Append(q, e)) /\ h[Len(Append(q, e))] = EvReduce(g[Len(q)], e)
<1> DEFINE n == Len(q)
           r == Append(q, e)
           h == [i \in 0..(n + 1) |-> IF i = n + 1 THEN EvReduce(g[n], e) ELSE g[i]]
<1>1. n \in Nat /\ Len(r) = n + 1 /\ r[n + 1] = e /\ \A i \in 1..n : r[i] = q[i]
  OBVIOUS
<1>2. g \in [0..n -> EvView] /\ g[0] = s /\ \A i \in 1..n : g[i] = EvReduce(g[i - 1], q[i])
  BY DEF EvReads
<1>3. \A i \in 0..n : h[i] = g[i]
  BY <1>1
<1>4. h[n + 1] = EvReduce(g[n], e) /\ EvReduce(g[n], e) \in EvView
  BY <1>1, <1>2, EvReduceType
<1>5. h \in [0..Len(r) -> EvView] /\ h[0] = s
  BY <1>1, <1>2, <1>3, <1>4
<1>6. \A i \in 1..Len(r) : h[i] = EvReduce(h[i - 1], r[i])
  <2> SUFFICES ASSUME NEW i \in 1..(n + 1) PROVE h[i] = EvReduce(h[i - 1], r[i])
    BY <1>1
  <2>1. h[i - 1] = g[i - 1]
    BY <1>1, <1>3
  <2> QED
    BY <1>1, <1>2, <1>3, <1>4, <2>1
<1>7. ASSUME NEW i \in 0..Len(r), EvAmiss(h[i])
      PROVE  \E j \in 0..i : (j = 0 \/ r[j].k = "snapshot") /\ \A l \in j..i : EvAmiss(h[l])
  <2> HIDE DEF h, r
  <2>1. ASSUME NEW m \in 0..n, EvAmiss(g[m])
        PROVE  \E j \in 0..m : (j = 0 \/ r[j].k = "snapshot") /\ \A l \in j..m : EvAmiss(h[l])
    <3>1. PICK j \in 0..m : (j = 0 \/ q[j].k = "snapshot") /\ \A l \in j..m : EvAmiss(g[l])
      BY <2>1 DEF EvReads
    <3>2. (j = 0 \/ r[j].k = "snapshot") /\ \A l \in j..m : EvAmiss(h[l])
      BY <1>1, <1>3, <3>1
    <3> QED
      BY <3>2
  <2>2. CASE i \in 0..n
    BY <1>3, <1>7, <2>1, <2>2
  <2>3. CASE i = n + 1 /\ e.k = "snapshot"
    BY <1>1, <1>7, <2>3
  <2>4. CASE i = n + 1 /\ e.k # "snapshot"
    <3>1. EvAmiss(g[n])
      BY <1>1, <1>2, <1>4, <1>7, <2>4, EvReduceAmiss
    <3>2. PICK j \in 0..n : (j = 0 \/ r[j].k = "snapshot") /\ \A l \in j..n : EvAmiss(h[l])
      BY <1>1, <2>1, <3>1
    <3> QED
      BY <1>1, <1>7, <2>4, <3>2
  <2> QED
    BY <1>1, <2>2, <2>3, <2>4
<1>8. EvReads(h, s, r)
  BY <1>5, <1>6, <1>7 DEF EvReads
<1> QED
  BY <1>1, <1>4, <1>8

LEMMA EvReadsFirst ==
  ASSUME NEW g, NEW s, NEW q \in Seq(EvFrame), q # <<>>, EvReads(g, s, q)
  PROVE  \E h : EvReads(h, EvReduce(s, Head(q)), Tail(q)) /\ h[Len(Tail(q))] = g[Len(q)]
<1> DEFINE n == Len(q)
           r == Tail(q)
           h == [i \in 0..(n - 1) |-> g[i + 1]]
<1>1. n \in Nat /\ n >= 1 /\ r \in Seq(EvFrame) /\ Len(r) = n - 1 /\ Head(q) = q[1] /\ \A i \in 1..(n - 1) : r[i] = q[i + 1]
  OBVIOUS
<1>2. g \in [0..n -> EvView] /\ g[0] = s /\ \A i \in 1..n : g[i] = EvReduce(g[i - 1], q[i])
  BY DEF EvReads
<1>3. \A i \in 0..(n - 1) : h[i] = g[i + 1]
  OBVIOUS
<1>4. h \in [0..Len(r) -> EvView] /\ h[0] = EvReduce(s, Head(q)) /\ h[Len(r)] = g[n]
  BY <1>1, <1>2
<1>5. \A i \in 1..Len(r) : h[i] = EvReduce(h[i - 1], r[i])
  <2> SUFFICES ASSUME NEW i \in 1..(n - 1) PROVE h[i] = EvReduce(h[i - 1], r[i])
    BY <1>1
  <2>1. i + 1 \in 1..n /\ h[i - 1] = g[i] /\ h[i] = g[i + 1] /\ r[i] = q[i + 1] /\ (i + 1) - 1 = i
    BY <1>1, <1>3
  <2> QED
    BY <1>2, <2>1
<1>6. ASSUME NEW i \in 0..Len(r), EvAmiss(h[i])
      PROVE  \E j \in 0..i : (j = 0 \/ r[j].k = "snapshot") /\ \A l \in j..i : EvAmiss(h[l])
  <2> HIDE DEF h, r
  <2>1. EvAmiss(g[i + 1]) /\ i + 1 \in 0..n
    BY <1>1, <1>3, <1>6
  <2>2. PICK j \in 0..(i + 1) : (j = 0 \/ q[j].k = "snapshot") /\ \A l \in j..(i + 1) : EvAmiss(g[l])
    BY <2>1 DEF EvReads
  <2>3. \A l \in 0..i : l + 1 \in j..(i + 1) => EvAmiss(h[l])
    BY <1>1, <1>3, <2>2
  <2>4. CASE j <= 1
    BY <1>1, <2>2, <2>3, <2>4
  <2>5. CASE j > 1
    <3>1. j - 1 \in 0..i /\ r[j - 1].k = "snapshot"
      BY <1>1, <2>2, <2>5
    <3> QED
      BY <2>2, <2>3, <2>5, <3>1
  <2> QED
    BY <2>2, <2>4, <2>5
<1>7. EvReads(h, EvReduce(s, Head(q)), r)
  BY <1>4, <1>5, <1>6 DEF EvReads
<1> QED
  BY <1>4, <1>7

LEMMA EvReadsMine ==
  ASSUME NEW g, NEW s, NEW q \in Seq(EvFrame), EvReads(g, s, q), ~EvAmiss(s)
  PROVE  \E h : /\ EvReads(h, Mine(s), q)
                /\ \/ h[Len(q)] = g[Len(q)]
                   \/ h[Len(q)] = Mine(g[Len(q)]) /\ ~EvAmiss(g[Len(q)])
<1> DEFINE n == Len(q)
           Brought(j) == EvReduce(Mine(g[j - 1]), q[j]) = g[j]
           h == [i \in 0..n |-> IF \E j \in 1..i : Brought(j) THEN g[i] ELSE Mine(g[i])]
<1>1. n \in Nat /\ \A i \in 1..n : q[i] \in EvFrame
  OBVIOUS
<1>2. g \in [0..n -> EvView] /\ g[0] = s /\ \A i \in 1..n : g[i] = EvReduce(g[i - 1], q[i])
  BY DEF EvReads
<1>3. \A i \in 0..n : g[i] \in EvView /\ h[i] \in {g[i], Mine(g[i])} /\ Mine(g[i]) \in EvView
  <2> SUFFICES ASSUME NEW i \in 0..n
               PROVE  g[i] \in EvView /\ h[i] \in {g[i], Mine(g[i])} /\ Mine(g[i]) \in EvView
    OBVIOUS
  <2>1. h[i] = IF \E j \in 1..i : Brought(j) THEN g[i] ELSE Mine(g[i])
    <3> HIDE DEF Brought
    <3> QED
      OBVIOUS
  <2> HIDE DEF h, Brought
  <2>2. g[i] \in EvView
    BY <1>2
  <2>3. Mine(g[i]) \in EvView
    BY <2>2, SMTT(40) DEF Mine, EvView, Optimistic
  <2> QED
    BY <2>1, <2>2, <2>3
<1>4. h \in [0..n -> EvView] /\ h[0] = Mine(s)
  BY <1>1, <1>2, <1>3
<1>5. \A i \in 0..n : EvAmiss(h[i]) = EvAmiss(g[i])
  <2> SUFFICES ASSUME NEW i \in 0..n PROVE EvAmiss(Mine(g[i])) = EvAmiss(g[i])
    BY <1>3
  <2> QED
    BY <1>3 DEF EvAmiss, Mine, EvView
<1>6. ASSUME NEW i \in 1..n PROVE h[i] = EvReduce(h[i - 1], q[i])
  <2>1. i - 1 \in 0..n /\ g[i - 1] \in EvView /\ q[i] \in EvFrame /\ g[i] = EvReduce(g[i - 1], q[i])
    BY <1>1, <1>2, <1>3
  <2>2. CASE \E j \in 1..(i - 1) : Brought(j)
    BY <2>1, <2>2
  <2>3. CASE ~(\E j \in 1..(i - 1) : Brought(j)) /\ Brought(i)
    BY <2>1, <2>3
  <2>4. CASE ~(\E j \in 1..(i - 1) : Brought(j)) /\ ~Brought(i)
    <3>1. h[i] = Mine(g[i]) /\ h[i - 1] = Mine(g[i - 1])
      BY <2>1, <2>4
    <3> QED
      BY <2>1, <2>4, <3>1, EvReduceMine
  <2> QED
    BY <2>2, <2>3, <2>4
<1>7. \A i \in 0..n : EvAmiss(h[i]) =>
        \E j \in 0..i : (j = 0 \/ q[j].k = "snapshot") /\ \A l \in j..i : EvAmiss(h[l])
  <2> HIDE DEF h
  <2> SUFFICES ASSUME NEW i \in 0..n, EvAmiss(h[i])
               PROVE  \E j \in 0..i : (j = 0 \/ q[j].k = "snapshot") /\ \A l \in j..i : EvAmiss(h[l])
    OBVIOUS
  <2>1. PICK j \in 0..i : (j = 0 \/ q[j].k = "snapshot") /\ \A l \in j..i : EvAmiss(g[l])
    BY <1>5 DEF EvReads
  <2> QED
    BY <1>1, <1>5, <2>1
<1>8. EvReads(h, Mine(s), q)
  BY <1>4, <1>6, <1>7 DEF EvReads
<1>9. h[n] = g[n] \/ (h[n] = Mine(g[n]) /\ ~EvAmiss(g[n]))
  <2>1. CASE EvAmiss(g[n])
    <3>1. PICK j \in 0..n : (j = 0 \/ q[j].k = "snapshot") /\ \A l \in j..n : EvAmiss(g[l])
      <4> HIDE DEF h, Brought
      <4>1. \A i \in 0..n : EvAmiss(g[i]) =>
              \E j \in 0..i : (j = 0 \/ q[j].k = "snapshot") /\ \A l \in j..i : EvAmiss(g[l])
        BY DEF EvReads
      <4>2. n \in 0..n
        BY <1>1
      <4> HIDE DEF n
      <4> QED
        BY <2>1, <4>1, <4>2
    <3>2. j \in 1..n /\ q[j].k = "snapshot"
      BY <1>1, <1>2, <3>1
    <3>3. Brought(j)
      BY <1>1, <1>2, <1>3, <3>2, EvReduceMine
    <3> QED
      BY <1>1, <3>2, <3>3
  <2>2. CASE ~EvAmiss(g[n])
    BY <1>1, <1>3, <2>2
  <2> QED
    BY <2>1, <2>2
<1> QED
  BY <1>8, <1>9
\* What a frame with the next revision does to a client that is in step, and to one that
\* waits for a snapshot.
LEMMA EvNextIsRead ==
  ASSUME NEW s \in EvView, NEW e \in EvFrame, e.k # "snapshot", s.rev \in Nat, e.rev = s.rev + 1,
         s.phase = "error" => e.k \in {"stream_start", "chain_end"},
         s.gen # 0 /\ e.gen # 0 => s.gen = e.gen \/ e.k = "stream_start", ~s.resync
  PROVE  EvReduce(s, e) = IF e.k = "chain_end" THEN [Quiet(s, "ready") EXCEPT !.rev = e.rev, !.msgs = e.msgs, !.received = 0]
                          ELSE EvAccept(s, e)
<1>1. ~EvOld(s, e) /\ ~EvGap(s, e)
  BY DEF EvOld, EvGap
<1> QED
  BY <1>1 DEF EvReduce

LEMMA EvWaitsFor ==
  ASSUME NEW s \in EvView, NEW e \in EvFrame, s.resync, s.rev \in Nat, e.rev \in Nat, e.rev > s.rev, e.k # "snapshot"
  PROVE  \/ EvReduce(s, e) = s
         \/ /\ e.k = "chain_end"
            /\ EvReduce(s, e) = [Quiet(s, "ready") EXCEPT !.rev = e.rev, !.msgs = e.msgs, !.received = 0]
         \/ /\ e.k \in {"stream_start", "failed", "error", "refused"}
            /\ EvReduce(s, e) = EvAccept(s, e)
<1>1. ~EvOld(s, e) /\ (EvGap(s, e) => e.k \notin {"stream_start", "failed", "error", "refused"})
  BY DEF EvOld, EvGap
<1> QED
  BY <1>1 DEF EvReduce

LEMMA EvIsRead ==
  ASSUME NEW s \in EvView, NEW e \in EvFrame, e.k # "snapshot", s.rev \in Nat, e.rev \in Nat, e.rev > s.rev,
         ~s.resync => /\ e.rev = s.rev + 1
                      /\ s.phase = "error" => e.k \in {"stream_start", "chain_end"}
                      /\ s.gen # 0 /\ e.gen # 0 => s.gen = e.gen \/ e.k = "stream_start"
  PROVE  \/ EvReduce(s, e) = s /\ s.resync
         \/ /\ e.k = "chain_end"
            /\ EvReduce(s, e) = [Quiet(s, "ready") EXCEPT !.rev = e.rev, !.msgs = e.msgs, !.received = 0]
         \/ /\ e.k # "chain_end" /\ (s.resync => e.k \in {"stream_start", "failed", "error", "refused"})
            /\ EvReduce(s, e) = EvAccept(s, e)
<1>1. CASE s.resync
  BY <1>1, EvWaitsFor
<1>2. CASE ~s.resync
  BY <1>2, EvNextIsRead
<1> QED
  BY <1>1, <1>2

LEMMA EvAccepted ==
  ASSUME NEW s \in EvView, NEW e \in EvFrame, e.rev # Null, NEW r, r = EvAccept(s, e)
  PROVE  /\ r.rev = e.rev
         /\ e.k = "stream_start" => r.phase = "streaming" /\ r.gen = e.gen /\ r.streaming /\ r.seg = 0
                                      /\ r.msgs = s.msgs /\ ~r.resync
         /\ e.k = "token" => r.phase = "streaming" /\ r.gen = s.gen /\ r.streaming /\ r.seg = s.seg + 1
                              /\ r.msgs = s.msgs /\ r.resync = s.resync
         /\ e.k = "stream_end" => r = [s EXCEPT !.rev = e.rev]
         /\ e.k = "failed" => r.phase = "ready" /\ r.gen = 0 /\ ~r.streaming /\ r.msgs = e.msgs /\ ~r.resync
         /\ e.k = "error" => r.resync /\ r.msgs = s.msgs
<1> DEFINE t == [s EXCEPT !.rev = e.rev]
<1>1. t \in EvView /\ t.rev = e.rev /\ t.msgs = s.msgs /\ t.gen = s.gen /\ t.seg = s.seg /\ t.resync = s.resync
  BY DEF EvView, EvFrame
<1>2. t = IF e.rev = Null THEN s ELSE [s EXCEPT !.rev = e.rev]
  OBVIOUS
<1> HIDE DEF t
<1>3. r = CASE e.k = "stream_start" ->
                 [Quiet(t, "streaming") EXCEPT !.gen = e.gen, !.streaming = TRUE, !.received = 0]
            [] e.k = "token" -> [t EXCEPT !.phase = "streaming", !.streaming = TRUE, !.seg = @ + 1]
            [] e.k = "refused" -> [t EXCEPT !.resync = TRUE, !.received = 0]
            [] e.k = "failed"  -> [Quiet(t, "ready") EXCEPT !.msgs = e.msgs, !.received = 0]
            [] e.k = "error"   -> [Quiet(t, "error") EXCEPT !.resync = TRUE, !.received = 0]
            [] OTHER -> t
  BY <1>2, Zenon DEF EvAccept
<1>4. CASE e.k = "stream_start"
  BY <1>1, <1>3, <1>4 DEF Quiet, EvView
<1>5. CASE e.k = "token"
  BY <1>1, <1>3, <1>5 DEF EvView
<1>6. CASE e.k = "stream_end"
  BY <1>1, <1>2, <1>3, <1>6
<1>7. CASE e.k = "failed"
  BY <1>1, <1>3, <1>7 DEF Quiet, EvView
<1>8. CASE e.k = "error"
  BY <1>1, <1>3, <1>8 DEF Quiet, EvView
<1>9. CASE e.k \in {"refused", "snapshot", "chain_end"}
  BY <1>1, <1>3, <1>9 DEF EvView
<1> QED
  BY <1>4, <1>5, <1>6, <1>7, <1>8, <1>9 DEF EvFrame

LEMMA EvClosedTurn ==
  ASSUME NEW s \in EvView, NEW e \in EvFrame, NEW r,
         r = [Quiet(s, "ready") EXCEPT !.rev = e.rev, !.msgs = e.msgs, !.received = 0]
  PROVE  r.rev = e.rev /\ r.msgs = e.msgs /\ r.phase = "ready" /\ r.gen = 0 /\ ~r.streaming /\ ~r.resync
BY DEF Quiet, EvView

-----------------------------------------------------------------------------
(***************************************************************************)
(* EventStream: each frame keeps who reads it in step.                     *)
(***************************************************************************)
LEMMA EvSyncStart ==
  ASSUME EvTypes, EvTurnOK, EvStart, NEW s \in EvView, EvSynced(s), NEW e \in EvFrame,
         e.k = "stream_start", e.rev = evRev + 1, e.gen = evTurns
  PROVE  EvSynced(EvReduce(s, e))'
<1>1. /\ evRev \in Nat /\ s.rev \in Nat /\ evTurns >= 1 /\ evTurns \in Nat /\ evRecord \in Nat /\ evStream = NoStream
      /\ s.rev <= evRev /\ s.msgs \in Int /\ s.msgs <= evRecord /\ (~s.resync => s.rev = evRev /\ s.gen = 0) /\ e.rev # Null
  <2>1. evRev \in Nat /\ evTurns \in Nat /\ evRecord \in Nat
    BY DEF EvTypes
  <2>2. evPc = "asked"
    BY DEF EvStart
  <2>3. evTurns >= 1 /\ evStream = NoStream
    BY <2>2 DEF EvTurnOK
  <2>4. s.msgs \in Int
    BY DEF EvView
  <2>5. s.rev \in Nat /\ s.rev <= evRev /\ s.msgs <= evRecord /\ (~s.resync => s.rev = evRev /\ s.gen = 0)
    BY <2>3 DEF EvSynced
  <2> QED
    BY <2>1, <2>3, <2>4, <2>5 DEF Null
<1>2. /\ evRev' = evRev + 1 /\ evRecord' = evRecord
      /\ evStream' = [gen |-> evTurns, base |-> evRecord, seg |-> 0] /\ evStream' # NoStream
  BY <1>1 DEF EvStart, EvEmit, NoStream
<1>3. EvReduce(s, e) = EvAccept(s, e) \/ (EvReduce(s, e) = s /\ s.resync)
  <2>1. /\ e.k # "snapshot" /\ e.rev \in Nat /\ e.rev > s.rev
        /\ ~s.resync => /\ e.rev = s.rev + 1
                        /\ s.phase = "error" => e.k \in {"stream_start", "chain_end"}
                        /\ s.gen # 0 /\ e.gen # 0 => s.gen = e.gen \/ e.k = "stream_start"
    BY <1>1
  <2>2. s.rev \in Nat
    BY <1>1
  <2> QED
    BY <2>1, <2>2, EvIsRead, ZenonT(60)
<1>4. CASE EvReduce(s, e) = s /\ s.resync
  BY <1>1, <1>2, <1>4 DEF EvSynced
<1>5. CASE EvReduce(s, e) = EvAccept(s, e)
  <2>1. PICK r : r = EvReduce(s, e)
    OBVIOUS
  <2>2. r.phase = "streaming" /\ r.gen = evTurns /\ r.streaming /\ r.seg = 0 /\ r.msgs = s.msgs /\ ~r.resync /\ r.rev = evRev + 1
    BY <1>1, <1>5, <2>1, EvAccepted
  <2>3. EvSynced(r)'
    BY <1>1, <1>2, <2>2 DEF EvSynced
  <2> QED
    BY <2>1, <2>3
<1> QED
  BY <1>3, <1>4, <1>5

LEMMA EvSyncToken ==
  ASSUME EvTypes, EvTurnOK, EvToken, NEW s \in EvView, EvSynced(s), NEW e \in EvFrame,
         e.k = "token", e.rev = evRev + 1, e.gen = evStream.gen
  PROVE  EvSynced(EvReduce(s, e))'
<1>1. /\ evRev \in Nat /\ s.rev \in Nat /\ evRecord \in Nat /\ evStream # NoStream /\ evStream \in [gen : Nat, base : Nat, seg : Nat]
      /\ s.rev <= evRev /\ s.msgs \in Int /\ s.msgs <= evRecord /\ e.rev # Null /\ ~evDead
      /\ ~s.resync => /\ s.rev = evRev /\ s.streaming /\ s.gen = evStream.gen /\ s.seg = evStream.seg
                      /\ s.msgs <= evStream.base /\ s.phase # "error"
  BY DEF EvTypes, EvTurnOK, EvToken, EvSynced, Null, EvView
<1>2. /\ evRev' = evRev + 1 /\ evRecord' \in {evRecord, evRecord + 1} /\ evStream' # NoStream
      /\ evStream'.gen = evStream.gen /\ evStream'.base = evStream.base /\ evStream'.seg = evStream.seg + 1
  <2>1. evRev' = evRev + 1 /\ evRecord' \in {evRecord, evRecord + 1} /\ evStream' = Grown(evStream)
    BY <1>1 DEF EvToken, EvEmit
  <2> QED
    BY <1>1, <2>1 DEF Grown, NoStream
<1>3. \/ EvReduce(s, e) = s /\ s.resync
      \/ EvReduce(s, e) = EvAccept(s, e) /\ ~s.resync
  <2>1. /\ e.k # "snapshot" /\ e.rev \in Nat /\ e.rev > s.rev
        /\ ~s.resync => /\ e.rev = s.rev + 1
                        /\ s.phase = "error" => e.k \in {"stream_start", "chain_end"}
                        /\ s.gen # 0 /\ e.gen # 0 => s.gen = e.gen \/ e.k = "stream_start"
    BY <1>1
  <2>2. s.rev \in Nat
    BY <1>1
  <2> QED
    BY <2>1, <2>2, EvIsRead, ZenonT(60)
<1>4. CASE EvReduce(s, e) = s /\ s.resync
  BY <1>1, <1>2, <1>4 DEF EvSynced
<1>5. CASE EvReduce(s, e) = EvAccept(s, e) /\ ~s.resync
  <2>1. PICK r : r = EvReduce(s, e)
    OBVIOUS
  <2>2. r.phase = "streaming" /\ r.gen = s.gen /\ r.streaming /\ r.seg = s.seg + 1 /\ r.msgs = s.msgs /\ r.rev = evRev + 1
    BY <1>1, <1>5, <2>1, EvAccepted
  <2>3. EvSynced(r)'
    BY <1>1, <1>2, <1>5, <2>2 DEF EvSynced
  <2> QED
    BY <2>1, <2>3
<1> QED
  BY <1>3, <1>4, <1>5

LEMMA EvSyncStreamEnd ==
  ASSUME EvTypes, EvTurnOK, EvStreamEnd, NEW s \in EvView, EvSynced(s), NEW e \in EvFrame,
         e.k = "stream_end", e.rev = evRev + 1, e.gen = evStream.gen
  PROVE  EvSynced(EvReduce(s, e))'
<1>1. /\ evRev \in Nat /\ s.rev \in Nat /\ evRecord \in Nat /\ evStream # NoStream
      /\ s.rev <= evRev /\ s.msgs \in Int /\ s.msgs <= evRecord /\ e.rev # Null /\ ~evDead
      /\ ~s.resync => /\ s.rev = evRev /\ s.streaming /\ s.gen = evStream.gen /\ s.seg = evStream.seg
                      /\ s.msgs <= evStream.base /\ s.phase # "error"
  BY DEF EvTypes, EvTurnOK, EvStreamEnd, EvSynced, Null, EvView
<1>2. evRev' = evRev + 1 /\ evRecord' = evRecord + 1 /\ evStream' = evStream
  BY <1>1 DEF EvStreamEnd, EvEmit
<1>3. \/ EvReduce(s, e) = s /\ s.resync
      \/ EvReduce(s, e) = EvAccept(s, e) /\ ~s.resync
  <2>1. /\ e.k # "snapshot" /\ e.rev \in Nat /\ e.rev > s.rev
        /\ ~s.resync => /\ e.rev = s.rev + 1
                        /\ s.phase = "error" => e.k \in {"stream_start", "chain_end"}
                        /\ s.gen # 0 /\ e.gen # 0 => s.gen = e.gen \/ e.k = "stream_start"
    BY <1>1
  <2>2. s.rev \in Nat
    BY <1>1
  <2> QED
    BY <2>1, <2>2, EvIsRead, ZenonT(60)
<1>4. CASE EvReduce(s, e) = s /\ s.resync
  BY <1>1, <1>2, <1>4 DEF EvSynced
<1>5. CASE EvReduce(s, e) = EvAccept(s, e) /\ ~s.resync
  <2>1. PICK r : r = EvReduce(s, e)
    OBVIOUS
  <2>2. r = [s EXCEPT !.rev = evRev + 1]
    BY <1>1, <1>5, <2>1, EvAccepted
  <2>3. /\ r.phase = s.phase /\ r.gen = s.gen /\ r.streaming = s.streaming /\ r.seg = s.seg /\ r.msgs = s.msgs
        /\ r.rev = evRev + 1 /\ r.resync = s.resync
    BY <2>2 DEF EvView
  <2>4. EvSynced(r)'
    BY <1>1, <1>2, <1>5, <2>3 DEF EvSynced
  <2> QED
    BY <2>1, <2>4
<1> QED
  BY <1>3, <1>4, <1>5

\* The end of a turn, a failure that comes with the record, and a summary.
LEMMA EvSyncRecord ==
  ASSUME EvTypes, EvTurnOK, NEW s \in EvView, EvSynced(s), NEW e \in EvFrame,
         e.k \in {"chain_end", "failed"}, e.k = "failed" => ~evDead,
         e.rev = evRev + 1, e.gen = evStream.gen, e.msgs = evRecord',
         evRev' = evRev + 1, evRecord' \in {evRecord, evRecord + 1}, evStream' = NoStream
  PROVE  EvSynced(EvReduce(s, e))'
<1>1. /\ evRev \in Nat /\ s.rev \in Nat /\ evRecord \in Nat /\ s.msgs \in Int
      /\ s.rev <= evRev /\ s.msgs \in Int /\ s.msgs <= evRecord /\ e.rev # Null
      /\ ~s.resync => s.rev = evRev /\ (s.gen = evStream.gen \/ s.gen = 0) /\ (s.phase = "error" => evDead)
  BY SMTT(40) DEF EvTypes, EvTurnOK, EvSynced, Null, EvView
<1>2. \/ EvReduce(s, e) = s /\ s.resync
      \/ EvReduce(s, e) = EvAccept(s, e) /\ e.k = "failed"
      \/ EvReduce(s, e) = [Quiet(s, "ready") EXCEPT !.rev = e.rev, !.msgs = e.msgs, !.received = 0]
  <2>1. /\ e.k # "snapshot" /\ e.rev \in Nat /\ e.rev > s.rev
        /\ ~s.resync => /\ e.rev = s.rev + 1
                        /\ s.phase = "error" => e.k \in {"stream_start", "chain_end"}
                        /\ s.gen # 0 /\ e.gen # 0 => s.gen = e.gen \/ e.k = "stream_start"
    BY <1>1
  <2>2. s.rev \in Nat
    BY <1>1
  <2> QED
    BY <2>1, <2>2, EvIsRead, ZenonT(60)
<1>3. CASE EvReduce(s, e) = s /\ s.resync
  BY <1>1, <1>3 DEF EvSynced
<1>4. CASE ~(EvReduce(s, e) = s /\ s.resync)
  <2>1. PICK r : r = EvReduce(s, e)
    OBVIOUS
  <2>2. r.phase = "ready" /\ r.gen = 0 /\ ~r.streaming /\ r.msgs = evRecord' /\ r.rev = evRev + 1 /\ ~r.resync
    <3>1. CASE EvReduce(s, e) = EvAccept(s, e) /\ e.k = "failed"
      BY <1>1, <2>1, <3>1, EvAccepted
    <3>2. CASE EvReduce(s, e) = [Quiet(s, "ready") EXCEPT !.rev = e.rev, !.msgs = e.msgs, !.received = 0]
      <4>1. r = [Quiet(s, "ready") EXCEPT !.rev = e.rev, !.msgs = e.msgs, !.received = 0]
        BY <2>1, <3>2, Zenon
      <4>2. r.rev = e.rev /\ r.msgs = e.msgs /\ r.phase = "ready" /\ r.gen = 0 /\ ~r.streaming /\ ~r.resync
        BY <4>1, EvClosedTurn, Zenon
      <4> QED
        BY <4>2
    <3> QED
      BY <1>2, <1>4, <3>1, <3>2, Zenon
  <2>3. EvSynced(r)'
    BY <1>1, <2>2 DEF EvSynced
  <2> QED
    BY <2>1, <2>3
<1> QED
  BY <1>3, <1>4

LEMMA EvSyncError ==
  ASSUME EvTypes, EvTurnOK, NEW s \in EvView, EvSynced(s), NEW e \in EvFrame,
         e.k = "error", ~evDead, e.rev = evRev + 1, e.gen = evStream.gen,
         evRev' = evRev + 1, evRecord' = evRecord + 1
  PROVE  EvSynced(EvReduce(s, e))'
<1>1. /\ evRev \in Nat /\ s.rev \in Nat /\ evRecord \in Nat /\ s.msgs \in Int
      /\ s.rev <= evRev /\ s.msgs \in Int /\ s.msgs <= evRecord /\ e.rev # Null
      /\ ~s.resync => s.rev = evRev /\ (s.gen = evStream.gen \/ s.gen = 0) /\ s.phase # "error"
  BY SMTT(40) DEF EvTypes, EvTurnOK, EvSynced, Null, EvView
<1>2. \/ EvReduce(s, e) = s /\ s.resync
      \/ EvReduce(s, e) = EvAccept(s, e)
  <2>1. /\ e.k # "snapshot" /\ e.rev \in Nat /\ e.rev > s.rev
        /\ ~s.resync => /\ e.rev = s.rev + 1
                        /\ s.phase = "error" => e.k \in {"stream_start", "chain_end"}
                        /\ s.gen # 0 /\ e.gen # 0 => s.gen = e.gen \/ e.k = "stream_start"
    BY <1>1
  <2>2. s.rev \in Nat
    BY <1>1
  <2> QED
    BY <2>1, <2>2, EvIsRead, ZenonT(60)
<1>3. PICK r : r = EvReduce(s, e)
  OBVIOUS
<1>4. r.resync /\ r.msgs = s.msgs /\ r.rev \in {s.rev, evRev + 1}
  BY <1>1, <1>2, <1>3, EvAccepted
<1>5. EvSynced(r)'
  BY <1>1, <1>4 DEF EvSynced
<1> QED
  BY <1>3, <1>5

LEMMA EvSyncSnapshot ==
  ASSUME EvTypes, EvTurnOK, NEW s \in EvView, NEW e \in EvFrame, e = EvSnapshot,
         UNCHANGED <<evTurn, evBus>>
  PROVE  EvSynced(EvReduce(s, e))'
<1>1. EvReduce(s, e) = EvShowSnapshot(s, e)
  BY DEF EvReduce, EvSnapshot, EvEvent
<1>2. /\ e.k = "snapshot" /\ e.rev = evRev /\ e.gen = evStream.gen /\ e.seg = evStream.seg /\ e.dead = evDead
      /\ e.msgs = IF evStream # NoStream THEN evStream.base ELSE evRecord
  BY DEF EvSnapshot, EvEvent
<1>3. PICK r : r = EvReduce(s, e)
  OBVIOUS
<1>4. /\ r.rev = e.rev /\ r.gen = e.gen /\ r.msgs = e.msgs /\ r.seg = e.seg /\ (r.streaming <=> e.gen # 0) /\ ~r.resync
      /\ r.phase = "error" => e.dead
  BY <1>1, <1>3 DEF EvShowSnapshot, EvView
<1>5. /\ evStream = NoStream => evStream.gen = 0
      /\ evStream # NoStream => evStream.gen # 0 /\ evStream.base <= evRecord /\ ~evDead
      /\ evRev \in Nat /\ evRecord \in Nat /\ evStream.base \in Nat
  BY DEF EvTypes, EvTurnOK, NoStream
<1>7. evPc' = evPc /\ evDead' = evDead /\ evRecord' = evRecord /\ evRev' = evRev /\ evStream' = evStream
  BY DEF evTurn, evBus
<1>8. EvSynced(r)'
  BY <1>2, <1>4, <1>5, <1>7 DEF EvSynced
<1> QED
  BY <1>3, <1>8

LEMMA EvSyncRefused ==
  ASSUME EvTypes, EvTurnOK, NEW s \in EvView, EvSynced(s), NEW e \in EvFrame, e = EvEvent("refused"),
         UNCHANGED <<evTurn, evBus>>
  PROVE  EvSynced(EvReduce(s, e))'
<1>1. e.k = "refused" /\ e.rev = Null /\ e.gen = 0
  BY DEF EvEvent
<1>2. ~EvOld(s, e) /\ ~EvGap(s, e)
  BY <1>1 DEF EvOld, EvGap
<1>3. EvReduce(s, e) = IF s.phase = "error" THEN s ELSE [s EXCEPT !.resync = TRUE, !.received = 0]
  BY <1>1, <1>2 DEF EvReduce, EvAccept
<1>4. evPc' = evPc /\ evDead' = evDead /\ evRecord' = evRecord /\ evRev' = evRev /\ evStream' = evStream
  BY DEF evTurn, evBus
<1>5. CASE s.phase = "error"
  <2>1. EvReduce(s, e) = s /\ (evStream = NoStream \/ s.resync)
    BY <1>3, <1>5 DEF EvSynced, EvTurnOK
  <2>2. EvSynced(s)'
    BY <1>4, <1>5, <2>1 DEF EvSynced
  <2> QED
    BY <2>1, <2>2
<1>6. CASE s.phase # "error"
  <2>1. PICK r : r = EvReduce(s, e)
    OBVIOUS
  <2>2. r.resync /\ r.rev = s.rev /\ r.msgs = s.msgs
    BY <1>3, <1>6, <2>1 DEF EvView
  <2>3. EvSynced(r)'
    BY <1>4, <2>2 DEF EvSynced
  <2> QED
    BY <2>1, <2>3
<1> QED
  BY <1>5, <1>6
-----------------------------------------------------------------------------
(***************************************************************************)
(* EventStream: the actions.                                               *)
(***************************************************************************)
EvLinks == [link : {"up", "cut", "down"}, queue : Seq(EvFrame), over : Seq(EvFrame)]

LEMMA EvAppended ==
  ASSUME NEW q \in Seq(EvFrame), NEW o \in Seq(EvFrame), NEW e \in EvFrame
  PROVE  q \o Append(o, e) = Append(q \o o, e)
<1> DEFINE a == q \o Append(o, e)
           b == Append(q \o o, e)
<1>1. a \in Seq(EvFrame) /\ b \in Seq(EvFrame) /\ Len(a) = Len(b)
  OBVIOUS
<1>2. \A i \in 1..Len(a) : a[i] = b[i]
  OBVIOUS
<1> HIDE DEF a, b
<1>3. a = b
  BY <1>1, <1>2, SeqEqual
<1> QED
  BY <1>3 DEF a, b

LEMMA EvWithRev ==
  \A f \in EvFrame, x \in Int :
    /\ [f EXCEPT !.rev = x] \in EvFrame /\ [f EXCEPT !.rev = x].k = f.k
    /\ [f EXCEPT !.rev = x].rev = x /\ [f EXCEPT !.rev = x].gen = f.gen /\ [f EXCEPT !.rev = x].msgs = f.msgs
BY DEF EvFrame
LEMMA EvWithGen ==
  \A f \in EvFrame, x \in Nat :
    /\ [f EXCEPT !.gen = x] \in EvFrame /\ [f EXCEPT !.gen = x].k = f.k
    /\ [f EXCEPT !.gen = x].rev = f.rev /\ [f EXCEPT !.gen = x].gen = x /\ [f EXCEPT !.gen = x].msgs = f.msgs
BY DEF EvFrame
LEMMA EvWithMsgs ==
  \A f \in EvFrame, x \in Int :
    /\ [f EXCEPT !.msgs = x] \in EvFrame /\ [f EXCEPT !.msgs = x].k = f.k
    /\ [f EXCEPT !.msgs = x].rev = f.rev /\ [f EXCEPT !.msgs = x].gen = f.gen /\ [f EXCEPT !.msgs = x].msgs = x
BY DEF EvFrame

LEMMA EvWithOver ==
  ASSUME NEW c \in EvLinks, NEW x
  PROVE  [c EXCEPT !.over = x] = [link |-> c.link, queue |-> c.queue, over |-> x]
BY DEF EvLinks

LEMMA EvWithQueue ==
  ASSUME NEW c \in EvLinks, NEW x
  PROVE  [c EXCEPT !.queue = x] = [link |-> c.link, queue |-> x, over |-> c.over]
BY DEF EvLinks

LEMMA EvPlain ==
  ASSUME NEW k \in {"stream_start", "token", "stream_end", "chain_end", "failed", "error", "refused"}
  PROVE  EvEvent(k) \in EvFrame /\ EvEvent(k).k = k
BY DEF EvEvent, EvFrame, Null

\* The frame emit_chat numbers.
LEMMA EvEmits ==
  ASSUME EvTypes, NEW f \in EvFrame, NEW stream \in [gen : Nat, base : Nat, seg : Nat], EvEmit(f, stream)
  PROVE  \E e \in EvFrame :
           /\ e.k = f.k /\ e.rev = evRev + 1 /\ e.msgs = f.msgs
           /\ e.gen = IF stream.gen # 0 THEN stream.gen ELSE evStream.gen
           /\ evConn' = EvOffer(e) /\ evRev' = evRev + 1 /\ evStream' = stream
<1> DEFINE g == IF stream.gen # 0 THEN stream.gen ELSE evStream.gen
           r == evRev + 1
<1>1. g \in Nat /\ r \in Nat
  BY DEF EvTypes
<1>2. evConn' = EvOffer([f EXCEPT !.rev = r, !.gen = g]) /\ evRev' = r /\ evStream' = stream
  BY Zenon DEF EvEmit
<1> HIDE DEF g, r
<1> DEFINE h == [f EXCEPT !.rev = r]
<1>3. h \in EvFrame /\ h.k = f.k /\ h.rev = r /\ h.msgs = f.msgs
  <2>1. r \in Int
    BY <1>1
  <2> QED
    BY <2>1, EvWithRev, Zenon
<1> HIDE DEF h
<1> DEFINE e == [h EXCEPT !.gen = g]
<1>4. e \in EvFrame /\ e.k = h.k /\ e.rev = h.rev /\ e.gen = g /\ e.msgs = h.msgs
  BY <1>1, <1>3, EvWithGen, Zenon
<1>5. evConn' = EvOffer(e)
  BY <1>2, Zenon DEF h
<1> HIDE DEF e
<1>6. e \in EvFrame /\ e.k = f.k /\ e.rev = r /\ e.gen = g /\ e.msgs = f.msgs
  BY <1>3, <1>4, Zenon
<1> QED
  BY <1>2, <1>5, <1>6, Zenon DEF g, r

\* A frame that is not lost with the connection comes after all the others.
LEMMA EvOffered ==
  ASSUME EvTypes, NEW e \in EvFrame
  PROVE  /\ EvOffer(e) \in EvLinks
         /\ EvOffer(e).link = "up" =>
              evConn.link = "up" /\ EvOffer(e).queue \o EvOffer(e).over = Append(EvFrames, e)
<1>1. evConn \in EvLinks
  BY DEF EvTypes, EvLinks
<1>2. CutConn \in EvLinks /\ CutConn.link = "cut"
  <2>1. CutConn = [link |-> "cut", queue |-> <<>>, over |-> <<>>]
    BY DEF CutConn, NoConn
  <2>2. <<>> \in Seq(EvFrame)
    OBVIOUS
  <2> QED
    BY <2>1, <2>2 DEF EvLinks
<1> DEFINE q == evConn.queue
           o == evConn.over
<1>3. q \in Seq(EvFrame) /\ o \in Seq(EvFrame) /\ Append(q, e) \in Seq(EvFrame) /\ Append(o, e) \in Seq(EvFrame)
  BY <1>1 DEF EvLinks
<1>4. q \o Append(o, e) = Append(q \o o, e)
  BY <1>3, EvAppended
<1>5. o = <<>> => Append(q, e) \o o = Append(q \o o, e)
  BY <1>3
<1>0. evConn = [link |-> evConn.link, queue |-> q, over |-> o]
  BY <1>1 DEF EvLinks
<1>6. [evConn EXCEPT !.over = Append(o, e)] = [link |-> evConn.link, queue |-> q, over |-> Append(o, e)]
  BY <1>1, EvWithOver, Zenon
<1>7. [evConn EXCEPT !.queue = Append(q, e)] = [link |-> evConn.link, queue |-> Append(q, e), over |-> o]
  BY <1>1, EvWithQueue, Zenon
<1>8. evConn.link \in {"up", "cut", "down"}
  BY <1>1 DEF EvLinks
<1>9. CASE evConn.link # "up"
  BY <1>1, <1>9 DEF EvOffer
<1>10. CASE evConn.link = "up" /\ EvOffer(e) = CutConn
  BY <1>2, <1>10
<1>11. CASE evConn.link = "up" /\ EvOffer(e) = [evConn EXCEPT !.over = Append(o, e)]
  <2>1. EvOffer(e) = [link |-> evConn.link, queue |-> q, over |-> Append(o, e)]
    BY <1>6, <1>11, Zenon
  <2> QED
    BY <1>3, <1>4, <1>8, <1>11, <2>1 DEF EvLinks, EvFrames
<1>12. CASE evConn.link = "up" /\ o = <<>> /\ EvOffer(e) = [evConn EXCEPT !.queue = Append(q, e)]
  <2>1. EvOffer(e) = [link |-> evConn.link, queue |-> Append(q, e), over |-> o]
    BY <1>7, <1>12, Zenon
  <2> QED
    BY <1>3, <1>5, <1>8, <1>12, <2>1 DEF EvLinks, EvFrames
<1>13. ASSUME evConn.link = "up"
       PROVE  \/ EvOffer(e) = CutConn
              \/ EvOffer(e) = [evConn EXCEPT !.over = Append(o, e)]
              \/ o = <<>> /\ EvOffer(e) = [evConn EXCEPT !.queue = Append(q, e)]
  <2>1. CASE o # <<>>
    BY <1>13, <2>1, Zenon DEF EvOffer
  <2>2. CASE o = <<>> /\ Len(q) < EvQueue
    BY <1>13, <2>2, Zenon DEF EvOffer
  <2>3. CASE o = <<>> /\ ~(Len(q) < EvQueue)
    BY <1>13, <2>3, Zenon DEF EvOffer
  <2> QED
    BY <2>1, <2>2, <2>3, Zenon
<1> QED
  BY <1>9, <1>10, <1>11, <1>12, <1>13, Zenon

\* A step after which what is under way is read to the truth as before.
LEMMA EvHolds ==
  ASSUME EvInv, UNCHANGED <<evConn, evShow, evTorn>>, \A s \in EvView : EvSynced(s) => EvSynced(s)'
  PROVE  EvReadsTruth'
<1> SUFFICES ASSUME (evConn.link = "up" /\ ~evTorn)'
             PROVE  \E g : (EvReads(g, evShow, EvFrames) /\ EvSynced(g[Len(EvFrames)]))'
  BY DEF EvReadsTruth
<1>1. PICK g : EvReads(g, evShow, EvFrames) /\ EvSynced(g[Len(EvFrames)])
  BY DEF EvInv, EvReadsTruth
<1>2. EvFrames \in Seq(EvFrame) /\ EvFrames' = EvFrames /\ evShow' = evShow
  BY DEF EvInv, EvTypes, EvFrames
<1>3. PICK s : s = g[Len(EvFrames)]
  OBVIOUS
<1>4. s \in EvView
  BY <1>1, <1>2, <1>3 DEF EvReads
<1>5. EvSynced(s)'
  BY <1>1, <1>3, <1>4
<1>6. EvReads(g, evShow, EvFrames)'
  BY <1>1, <1>2 DEF EvReads
<1> QED
  BY <1>2, <1>3, <1>5, <1>6

\* A frame is sent.
LEMMA EvSends ==
  ASSUME EvInv, NEW e \in EvFrame, evConn' = EvOffer(e), UNCHANGED <<evShow, evTorn>>,
         \A s \in EvView : EvSynced(s) => EvSynced(EvReduce(s, e))'
  PROVE  evConn' \in EvLinks /\ EvReadsTruth'
<1>1. evConn' \in EvLinks
  BY EvOffered DEF EvInv
<1>2. ASSUME (evConn.link = "up" /\ ~evTorn)'
      PROVE  \E g : (EvReads(g, evShow, EvFrames) /\ EvSynced(g[Len(EvFrames)]))'
  <2>1. evConn.link = "up" /\ ~evTorn /\ EvFrames' = Append(EvFrames, e) /\ evShow' = evShow
    BY <1>2, EvOffered DEF EvInv, EvFrames
  <2>2. PICK g : EvReads(g, evShow, EvFrames) /\ EvSynced(g[Len(EvFrames)])
    BY <2>1 DEF EvInv, EvReadsTruth
  <2>3. EvFrames \in Seq(EvFrame)
    BY DEF EvInv, EvTypes, EvFrames
  <2>4. PICK q, s : q = EvFrames /\ s = g[Len(EvFrames)]
    OBVIOUS
  <2>5. q \in Seq(EvFrame) /\ s \in EvView /\ EvSynced(s)
    BY <2>2, <2>3, <2>4 DEF EvReads
  <2>6. PICK h : EvReads(h, evShow, Append(q, e)) /\ h[Len(Append(q, e))] = EvReduce(s, e)
    BY <2>2, <2>3, <2>4, EvReadsOne
  <2>7. EvSynced(EvReduce(s, e))'
    BY <2>5
  <2>8. PICK v : v = EvReduce(s, e)
    OBVIOUS
  <2>9. EvSynced(v)'
    BY <2>7, <2>8
  <2>10. EvReads(h, evShow, EvFrames)' /\ (h[Len(EvFrames)])' = v
    BY <2>1, <2>4, <2>6, <2>8
  <2> QED
    BY <2>9, <2>10
<1> QED
  BY <1>1, <1>2 DEF EvReadsTruth
LEMMA EvInitInv == EvInit => EvInv
<1> SUFFICES ASSUME EvInit PROVE EvInv
  OBVIOUS
<1>1. evConn = [link |-> "down", queue |-> <<>>, over |-> <<>>] /\ <<>> \in Seq(EvFrame) /\ <<>> \in Seq({"message", "resync"})
  BY DEF EvInit, NoConn
<1>2. evShow \in EvView
  BY DEF EvInit, EvView, EvPhases, Null
<1>4. EvTypes
  <2>1. evConn \in [link : {"up", "cut", "down"}, queue : Seq(EvFrame), over : Seq(EvFrame)]
    BY <1>1
  <2>2. evStream \in [gen : Nat, base : Nat, seg : Nat]
    BY DEF EvInit, NoStream
  <2>3. evUp \in Seq({"message", "resync"})
    BY <1>1 DEF EvInit
  <2> QED
    BY <1>2, <2>1, <2>2, <2>3 DEF EvInit, EvTypes
<1>3. EvTurnOK /\ EvReadsTruth
  BY <1>1 DEF EvInit, EvTurnOK, EvReadsTruth
<1> QED
  BY <1>3, <1>4 DEF EvInv

LEMMA EvStartInv == EvInv /\ EvStart => EvInv'
<1> SUFFICES ASSUME EvInv, EvStart PROVE EvInv'
  OBVIOUS
<1>1. EvTypes /\ EvTurnOK
  BY DEF EvInv
<1> DEFINE stream == [gen |-> evTurns, base |-> evRecord, seg |-> 0]
<1>2. /\ evPc = "asked" /\ evPc' = "streaming" /\ evTurns \in Nat /\ evTurns >= 1 /\ evRecord \in Nat /\ evRev \in Nat /\ ~evDead
      /\ stream \in [gen : Nat, base : Nat, seg : Nat] /\ stream # NoStream /\ stream.gen = evTurns
  BY <1>1 DEF EvStart, EvTypes, EvTurnOK, NoStream
<1>3. PICK f, t : f = EvEvent("stream_start") /\ t = stream
  OBVIOUS
<1>4. EvEmit(f, t) /\ UNCHANGED <<evDead, evRecord, evClient, evTorn, evCount>>
  BY <1>3, Zenon DEF EvStart
<1>5. PICK e \in EvFrame : /\ e.k = "stream_start" /\ e.rev = evRev + 1 /\ e.gen = evTurns
                           /\ evConn' = EvOffer(e) /\ evRev' = evRev + 1 /\ evStream' = t
  <2>1. f \in EvFrame /\ f.k = "stream_start"
    BY <1>3, EvPlain
  <2>2. t \in [gen : Nat, base : Nat, seg : Nat] /\ (IF t.gen # 0 THEN t.gen ELSE evStream.gen) = evTurns
    BY <1>2, <1>3
  <2> QED
    BY <1>1, <1>4, <2>1, <2>2, EvEmits, ZenonT(60)
<1>7. \A s \in EvView : EvSynced(s) => EvSynced(EvReduce(s, e))'
  BY <1>1, <1>5, EvSyncStart
<1>8. evConn' \in EvLinks /\ EvReadsTruth'
  BY <1>4, <1>5, <1>7, EvSends DEF evClient
<1>9. EvTypes' /\ EvTurnOK'
  BY <1>1, <1>2, <1>3, <1>4, <1>5, <1>8 DEF EvTypes, EvTurnOK, EvLinks, evClient, evCount
<1> QED
  BY <1>8, <1>9 DEF EvInv
LEMMA EvTokenInv == EvInv /\ EvToken => EvInv'
<1> SUFFICES ASSUME EvInv, EvToken PROVE EvInv'
  OBVIOUS
<1>1. EvTypes /\ EvTurnOK
  BY DEF EvInv
<1> DEFINE stream == Grown(evStream)
<1>2. /\ evPc = "streaming" /\ evRecord \in Nat /\ evRev \in Nat /\ ~evDead /\ evStream # NoStream
      /\ evStream \in [gen : Nat, base : Nat, seg : Nat] /\ evStream.gen >= 1 /\ evStream.base <= evRecord
      /\ evRecord' \in {evRecord, evRecord + 1}
  BY <1>1 DEF EvToken, EvTypes, EvTurnOK
<1>3. /\ stream \in [gen : Nat, base : Nat, seg : Nat] /\ stream.gen = evStream.gen /\ stream.base = evStream.base
      /\ stream # NoStream
  BY <1>2 DEF Grown, NoStream
<1> HIDE DEF stream
<1>4. PICK f, t : f = EvEvent("token") /\ t = stream
  OBVIOUS
<1>5. EvEmit(f, t) /\ UNCHANGED <<evPc, evDead, evClient, evTorn, evCount>>
  BY <1>4, Zenon DEF EvToken, stream
<1>6. PICK e \in EvFrame : /\ e.k = "token" /\ e.rev = evRev + 1 /\ e.gen = evStream.gen
                           /\ evConn' = EvOffer(e) /\ evRev' = evRev + 1 /\ evStream' = t
  <2>1. f \in EvFrame /\ f.k = "token"
    BY <1>4, EvPlain
  <2>2. t \in [gen : Nat, base : Nat, seg : Nat] /\ (IF t.gen # 0 THEN t.gen ELSE evStream.gen) = evStream.gen
    BY <1>2, <1>3, <1>4
  <2> QED
    BY <1>1, <1>5, <2>1, <2>2, EvEmits, ZenonT(60)
<1>7. \A s \in EvView : EvSynced(s) => EvSynced(EvReduce(s, e))'
  BY <1>1, <1>6, EvSyncToken
<1>8. evConn' \in EvLinks /\ EvReadsTruth'
  BY <1>5, <1>6, <1>7, EvSends DEF evClient
<1>9. EvTypes' /\ EvTurnOK'
  BY <1>1, <1>2, <1>3, <1>4, <1>5, <1>6, <1>8 DEF EvTypes, EvTurnOK, EvLinks, evClient, evCount
<1> QED
  BY <1>8, <1>9 DEF EvInv

LEMMA EvStreamEndInv == EvInv /\ EvStreamEnd => EvInv'
<1> SUFFICES ASSUME EvInv, EvStreamEnd PROVE EvInv'
  OBVIOUS
<1>1. EvTypes /\ EvTurnOK
  BY DEF EvInv
<1>2. /\ evPc = "streaming" /\ evPc' = "closing" /\ evRecord \in Nat /\ evRev \in Nat /\ ~evDead /\ evStream # NoStream
      /\ evStream \in [gen : Nat, base : Nat, seg : Nat] /\ evStream.gen >= 1 /\ evStream.base <= evRecord
      /\ evRecord' = evRecord + 1
  BY <1>1 DEF EvStreamEnd, EvTypes, EvTurnOK
<1>3. PICK f, t : f = EvEvent("stream_end") /\ t = evStream
  OBVIOUS
<1>4. EvEmit(f, t) /\ UNCHANGED <<evDead, evClient, evTorn, evCount>>
  BY <1>3, Zenon DEF EvStreamEnd
<1>5. PICK e \in EvFrame : /\ e.k = "stream_end" /\ e.rev = evRev + 1 /\ e.gen = evStream.gen
                           /\ evConn' = EvOffer(e) /\ evRev' = evRev + 1 /\ evStream' = t
  <2>1. f \in EvFrame /\ f.k = "stream_end"
    BY <1>3, EvPlain
  <2>2. t \in [gen : Nat, base : Nat, seg : Nat] /\ (IF t.gen # 0 THEN t.gen ELSE evStream.gen) = evStream.gen
    BY <1>2, <1>3
  <2> QED
    BY <1>1, <1>4, <2>1, <2>2, EvEmits, ZenonT(60)
<1>6. \A s \in EvView : EvSynced(s) => EvSynced(EvReduce(s, e))'
  BY <1>1, <1>5, EvSyncStreamEnd
<1>7. evConn' \in EvLinks /\ EvReadsTruth'
  BY <1>4, <1>5, <1>6, EvSends DEF evClient
<1>8. EvTypes' /\ EvTurnOK'
  BY <1>1, <1>2, <1>3, <1>4, <1>5, <1>7 DEF EvTypes, EvTurnOK, EvLinks, evClient, evCount
<1> QED
  BY <1>7, <1>8 DEF EvInv

\* What ends a turn: nothing is left of the draft, and the session is idle.
LEMMA EvTurnOver ==
  ASSUME EvInv, NEW f \in EvFrame, f.k \in {"chain_end", "failed", "error"}, EvEmit(f, NoStream),
         f.k \in {"chain_end", "failed"} => f.msgs = evRecord',
         f.k \in {"failed", "error"} => ~evDead, f.k = "error" => evRecord' = evRecord + 1,
         evRecord' \in {evRecord, evRecord + 1}, evPc' = "idle", evDead' \in BOOLEAN,
         evTurns' \in Nat, UNCHANGED <<evClient, evTorn>>
  PROVE  EvInv'
<1>1. EvTypes /\ EvTurnOK /\ evStream \in [gen : Nat, base : Nat, seg : Nat] /\ evRecord \in Nat /\ evRev \in Nat
  BY DEF EvInv, EvTypes
<1>2. NoStream \in [gen : Nat, base : Nat, seg : Nat] /\ NoStream.gen = 0
  BY DEF NoStream
<1>3. PICK e \in EvFrame : /\ e.k = f.k /\ e.rev = evRev + 1 /\ e.msgs = f.msgs /\ e.gen = evStream.gen
                           /\ evConn' = EvOffer(e) /\ evRev' = evRev + 1 /\ evStream' = NoStream
  <2>1. (IF NoStream.gen # 0 THEN NoStream.gen ELSE evStream.gen) = evStream.gen
    BY <1>2
  <2> QED
    BY <1>1, <1>2, <2>1, EvEmits, Zenon
<1>4. ASSUME NEW s \in EvView, EvSynced(s) PROVE EvSynced(EvReduce(s, e))'
  <2>1. CASE f.k = "error"
    BY <1>1, <1>3, <1>4, <2>1, EvSyncError
  <2>2. CASE f.k \in {"chain_end", "failed"}
    BY <1>1, <1>3, <1>4, <2>2, EvSyncRecord
  <2> QED
    BY <2>1, <2>2
<1>5. evConn' \in EvLinks /\ EvReadsTruth'
  BY <1>3, <1>4, EvSends DEF evClient
<1>6. EvTypes' /\ EvTurnOK'
  BY <1>1, <1>2, <1>3, <1>5 DEF EvTypes, EvTurnOK, EvLinks, evClient
<1> QED
  BY <1>5, <1>6 DEF EvInv

LEMMA EvWithRecord ==
  ASSUME NEW k \in {"chain_end", "failed"}, NEW m \in Nat, NEW f, f = [EvEvent(k) EXCEPT !.msgs = m]
  PROVE  f \in EvFrame /\ f.k = k /\ f.msgs = m
<1>1. EvEvent(k) \in EvFrame /\ EvEvent(k).k = k /\ m \in Int
  BY EvPlain
<1>2. [EvEvent(k) EXCEPT !.msgs = m] \in EvFrame /\ [EvEvent(k) EXCEPT !.msgs = m].k = EvEvent(k).k
      /\ [EvEvent(k) EXCEPT !.msgs = m].msgs = m
  BY <1>1, EvWithMsgs, Zenon
<1> QED
  BY <1>1, <1>2, Zenon

LEMMA EvChainEndInv == EvInv /\ EvChainEnd => EvInv'
<1> SUFFICES ASSUME EvInv, EvChainEnd PROVE EvInv'
  OBVIOUS
<1>1. evRecord' \in {evRecord, evRecord + 1} /\ evPc' = "idle" /\ evDead' = evDead /\ evDead \in BOOLEAN
      /\ evTurns' \in Nat /\ evRecord \in Nat /\ UNCHANGED <<evClient, evTorn>>
  BY DEF EvInv, EvTypes, EvChainEnd, evCount
<1>2. PICK m, f : m = evRecord' /\ f = [EvEvent("chain_end") EXCEPT !.msgs = m]
  OBVIOUS
<1>3. EvEmit(f, NoStream)
  BY <1>2, Zenon DEF EvChainEnd
<1>4. m \in Nat
  BY <1>1, <1>2
<1>5. f \in EvFrame /\ f.k = "chain_end" /\ f.msgs = m
  <2>1. "chain_end" \in {"chain_end", "failed"}
    OBVIOUS
  <2> QED
    BY <1>2, <1>4, <2>1, EvWithRecord, ZenonT(90)
<1> QED
  BY <1>1, <1>2, <1>3, <1>5, EvTurnOver

LEMMA EvCompressInv == EvInv /\ EvCompress => EvInv'
<1> SUFFICES ASSUME EvInv, EvCompress PROVE EvInv'
  OBVIOUS
<1>1. evRecord' \in {evRecord, evRecord + 1} /\ evPc' = "idle" /\ evDead' = evDead /\ evDead \in BOOLEAN
      /\ evTurns' \in Nat /\ evRecord \in Nat /\ UNCHANGED <<evClient, evTorn>>
  BY DEF EvInv, EvTypes, EvCompress
<1>2. PICK m, f : m = evRecord' /\ f = [EvEvent("chain_end") EXCEPT !.msgs = m]
  OBVIOUS
<1>3. EvEmit(f, NoStream)
  BY <1>2, Zenon DEF EvCompress
<1>4. m \in Nat
  BY <1>1, <1>2
<1>5. f \in EvFrame /\ f.k = "chain_end" /\ f.msgs = m
  <2>1. "chain_end" \in {"chain_end", "failed"}
    OBVIOUS
  <2> QED
    BY <1>2, <1>4, <2>1, EvWithRecord, ZenonT(90)
<1> QED
  BY <1>1, <1>2, <1>3, <1>5, EvTurnOver

LEMMA EvFailInv == EvInv /\ EvFail => EvInv'
<1> SUFFICES ASSUME EvInv, EvFail PROVE EvInv'
  OBVIOUS
<1>1. evRecord' = evRecord + 1 /\ evPc' = "idle" /\ evDead' \in BOOLEAN /\ ~evDead
      /\ evTurns' \in Nat /\ evRecord \in Nat /\ UNCHANGED <<evClient, evTorn>>
  BY DEF EvInv, EvTypes, EvTurnOK, EvFail, evCount
<1>2. PICK m, f : m = evRecord' /\ f = [EvEvent("failed") EXCEPT !.msgs = m]
  OBVIOUS
<1>3. m \in Nat
  BY <1>1, <1>2
<1>4. f \in EvFrame /\ f.k = "failed" /\ f.msgs = m
  <2>1. "failed" \in {"chain_end", "failed"}
    OBVIOUS
  <2> QED
    BY <1>2, <1>3, <2>1, EvWithRecord, ZenonT(90)
<1>5. PICK w : w = EvEvent("error")
  OBVIOUS
<1>6. w \in EvFrame /\ w.k = "error"
  BY <1>5, EvPlain
<1>7. EvEmit(f, NoStream) \/ EvEmit(w, NoStream)
  BY <1>2, <1>5, Zenon DEF EvFail
<1>8. CASE EvEmit(f, NoStream)
  BY <1>1, <1>2, <1>4, <1>8, EvTurnOver
<1>9. CASE EvEmit(w, NoStream)
  BY <1>1, <1>6, <1>9, EvTurnOver
<1> QED
  BY <1>7, <1>8, <1>9
LEMMA EvTailOf ==
  ASSUME NEW q \in Seq(EvFrame), NEW o \in Seq(EvFrame), q # <<>>
  PROVE  Tail(q) \in Seq(EvFrame) /\ Head(q \o o) = Head(q) /\ Tail(q \o o) = Tail(q) \o o
<1> DEFINE a == Tail(q \o o)
           b == Tail(q) \o o
<1>1. a \in Seq(EvFrame) /\ b \in Seq(EvFrame) /\ Len(a) = Len(b)
  OBVIOUS
<1>2. \A i \in 1..Len(a) : a[i] = b[i]
  OBVIOUS
<1> HIDE DEF a, b
<1>3. a = b
  BY <1>1, <1>2, SeqEqual
<1>4. Head(q \o o) = Head(q) /\ Tail(q) \in Seq(EvFrame)
  OBVIOUS
<1> QED
  BY <1>3, <1>4 DEF a, b

LEMMA EvSnapshotType == EvTypes => EvSnapshot \in EvFrame
<1> SUFFICES ASSUME EvTypes PROVE EvSnapshot \in EvFrame
  OBVIOUS
<1> DEFINE m == IF evStream # NoStream THEN evStream.base ELSE evRecord
<1>1. m \in Int /\ evRev \in Int /\ evStream.gen \in Nat /\ evStream.seg \in Nat /\ evDead \in BOOLEAN
  BY DEF EvTypes
<1>2. EvSnapshot = [EvEvent("snapshot") EXCEPT !.rev = evRev, !.gen = evStream.gen, !.seg = evStream.seg,
                                               !.dead = evDead, !.msgs = m]
  BY Zenon DEF EvSnapshot
<1> HIDE DEF m
<1>3. EvSnapshot = [k |-> "snapshot", rev |-> evRev, gen |-> evStream.gen, msgs |-> m, seg |-> evStream.seg,
                    dead |-> evDead]
  BY <1>2 DEF EvEvent
<1> QED
  BY <1>1, <1>3 DEF EvFrame

\* The next frame is the first of all.
LEMMA EvNextIsHead ==
  ASSUME evConn \in EvLinks, EvFrames # <<>>,
         evConn' = IF evConn.queue # <<>> THEN [evConn EXCEPT !.queue = Tail(@)]
                                          ELSE [evConn EXCEPT !.over = Tail(@)]
  PROVE  evConn' \in EvLinks /\ EvNextFrame = Head(EvFrames) /\ EvFrames' = Tail(EvFrames)
<1> DEFINE q == evConn.queue
           o == evConn.over
<1>1. q \in Seq(EvFrame) /\ o \in Seq(EvFrame) /\ evConn.link \in {"up", "cut", "down"}
      /\ evConn = [link |-> evConn.link, queue |-> q, over |-> o]
  BY DEF EvLinks
<1>2. CASE q # <<>>
  <2>1. evConn' = [link |-> evConn.link, queue |-> Tail(q), over |-> o]
    BY <1>1, <1>2
  <2>2. Tail(q) \in Seq(EvFrame) /\ Head(q \o o) = Head(q) /\ Tail(q \o o) = Tail(q) \o o
    BY <1>1, <1>2, EvTailOf
  <2> QED
    BY <1>1, <1>2, <2>1, <2>2 DEF EvLinks, EvNextFrame, EvFrames
<1>3. CASE q = <<>>
  <2>1. evConn' = [link |-> evConn.link, queue |-> q, over |-> Tail(o)]
    BY <1>1, <1>3
  <2>2. q \o o = o /\ o # <<>> /\ Tail(o) \in Seq(EvFrame) /\ q \o Tail(o) = Tail(o)
    BY <1>1, <1>3 DEF EvFrames
  <2> QED
    BY <1>1, <1>3, <2>1, <2>2 DEF EvLinks, EvNextFrame, EvFrames
<1> QED
  BY <1>2, <1>3

\* A session that was idle and lives asks: nothing is owed until the turn is over.
LEMMA EvAsks ==
  ASSUME EvInv, EvAsk, UNCHANGED <<evDead, evBus>>
  PROVE  /\ evPc' = "asked" /\ evRecord' \in Nat /\ evTurns' \in Nat /\ EvTurnOK'
         /\ \A s \in EvView : EvSynced(s) => EvSynced(s)'
<1>1. /\ evPc = "idle" /\ evPc' = "asked" /\ ~evDead /\ evDead' = evDead /\ evRecord' = evRecord + 1 /\ evTurns' = evTurns + 1
      /\ evRev' = evRev /\ evStream' = evStream /\ evStream = NoStream
      /\ evRecord \in Nat /\ evTurns \in Nat
  BY DEF EvInv, EvTypes, EvTurnOK, EvAsk, evBus
<1>2. EvTurnOK'
  BY <1>1 DEF EvTurnOK
<1>3. ASSUME NEW s \in EvView, EvSynced(s) PROVE EvSynced(s)'
  <2>1. s.msgs \in Int
    BY DEF EvView
  <2> QED
    BY <1>1, <1>3, <2>1 DEF EvSynced
<1> QED
  BY <1>1, <1>2, <1>3

LEMMA EvAskedElsewhereInv == EvInv /\ EvAskedElsewhere => EvInv'
<1> SUFFICES ASSUME EvInv, EvAskedElsewhere PROVE EvInv'
  OBVIOUS
<1>1. EvAsk /\ UNCHANGED <<evDead, evBus, evConn, evClient, evTorn>>
  BY DEF EvAskedElsewhere
<1>2. /\ evPc' = "asked" /\ evRecord' \in Nat /\ evTurns' \in Nat /\ EvTurnOK'
      /\ \A s \in EvView : EvSynced(s) => EvSynced(s)'
  BY <1>1, EvAsks
<1>3. EvReadsTruth'
  BY <1>1, <1>2, EvHolds DEF evClient
<1>4. EvTypes'
  BY <1>1, <1>2 DEF EvInv, EvTypes, evBus, evClient
<1> QED
  BY <1>2, <1>3, <1>4 DEF EvInv

LEMMA EvDetachInv == EvInv /\ EvDetach => EvInv'
<1> SUFFICES ASSUME EvInv, EvDetach PROVE EvInv'
  OBVIOUS
<1>1. /\ evPc = "idle" /\ evPc' = evPc /\ evDead' = evDead /\ evRecord' = evRecord /\ evRev' = 0 /\ evStream' = NoStream
      /\ evTorn' = TRUE /\ evConn' = evConn /\ evUp' = evUp /\ evShow' = evShow /\ evTurns' = evTurns
  BY DEF EvDetach, evTurn, evClient
<1>2. NoStream \in [gen : Nat, base : Nat, seg : Nat]
  BY DEF NoStream
<1>3. EvTypes' /\ EvTurnOK'
  BY <1>1, <1>2 DEF EvInv, EvTypes, EvTurnOK
<1> QED
  BY <1>1, <1>3 DEF EvInv, EvReadsTruth

\* What the client has sent.
LEMMA EvTaken ==
  ASSUME EvInv, EvTake
  PROVE  evUp' \in Seq({"message", "resync"}) /\ (Head(evUp) = "resync" => (EvAsking' <=> EvAsking))
<1>1. /\ evUp \in Seq({"message", "resync"}) /\ evUp # <<>> /\ evUp' = Tail(evUp) /\ Len(evUp) \in Nat /\ Len(evUp) >= 1
      /\ Len(Tail(evUp)) = Len(evUp) - 1 /\ \A i \in 1..(Len(evUp) - 1) : Tail(evUp)[i] = evUp[i + 1]
      /\ Head(evUp) = evUp[1] /\ Tail(evUp) \in Seq({"message", "resync"})
  BY DEF EvInv, EvTypes, EvTake
<1>2. ASSUME Head(evUp) = "resync" PROVE EvAsking' <=> EvAsking
  <2>1. EvAsking' => EvAsking
    BY <1>1 DEF EvAsking
  <2>2. ASSUME EvAsking PROVE EvAsking'
    <3>1. PICK i \in 1..Len(evUp) : evUp[i] = "message"
      BY <2>2 DEF EvAsking
    <3>2. i # 1 /\ i - 1 \in 1..(Len(evUp) - 1) /\ Tail(evUp)[i - 1] = "message"
      BY <1>1, <1>2, <3>1
    <3> QED
      BY <1>1, <3>2 DEF EvAsking
  <2> QED
    BY <2>1, <2>2
<1> QED
  BY <1>1, <1>2

LEMMA EvResyncInv == EvInv /\ EvResync => EvInv'
<1> SUFFICES ASSUME EvInv, EvResync PROVE EvInv'
  OBVIOUS
<1>1. EvTake /\ EvControl(EvSnapshot) /\ UNCHANGED <<evTurn, evShow, evSeen, evTorn, evCount>>
  BY DEF EvResync
<1>2. PICK e : e = EvSnapshot
  OBVIOUS
<1>3. evConn' = EvOffer(e) /\ UNCHANGED evBus
  BY <1>1, <1>2, Zenon DEF EvControl
<1>4. e \in EvFrame
  BY <1>2, EvSnapshotType DEF EvInv
<1>5. \A s \in EvView : EvSynced(s) => EvSynced(EvReduce(s, e))'
  BY <1>1, <1>2, <1>3, <1>4, EvSyncSnapshot DEF EvInv
<1>6. evConn' \in EvLinks /\ EvReadsTruth'
  BY <1>1, <1>3, <1>4, <1>5, EvSends
<1>7. evUp' \in Seq({"message", "resync"})
  BY <1>1, EvTaken
<1>8. EvTypes' /\ EvTurnOK'
  BY <1>1, <1>3, <1>6, <1>7 DEF EvInv, EvTypes, EvTurnOK, EvLinks, evTurn, evBus, evCount
<1> QED
  BY <1>6, <1>8 DEF EvInv

LEMMA EvMessageInv == EvInv /\ EvMessage => EvInv'
<1> SUFFICES ASSUME EvInv, EvMessage PROVE EvInv'
  OBVIOUS
<1>1. EvTake /\ UNCHANGED <<evShow, evSeen, evTorn, evSent, evLinks, evDetached>>
  BY DEF EvMessage
<1>2. evUp' \in Seq({"message", "resync"})
  BY <1>1, EvTaken
<1>3. CASE EvAsk /\ UNCHANGED <<evDead, evBus, evConn>>
  <2>1. /\ evPc' = "asked" /\ evRecord' \in Nat /\ evTurns' \in Nat /\ EvTurnOK'
        /\ \A s \in EvView : EvSynced(s) => EvSynced(s)'
    BY <1>3, EvAsks
  <2>2. EvReadsTruth'
    BY <1>1, <1>3, <2>1, EvHolds
  <2>3. EvTypes'
    BY <1>1, <1>2, <1>3, <2>1 DEF EvInv, EvTypes, evBus
  <2> QED
    BY <2>1, <2>2, <2>3 DEF EvInv
<1>4. CASE EvControl(EvEvent("refused")) /\ UNCHANGED <<evTurn, evTurns>>
  <2>1. PICK e : e = EvEvent("refused")
    OBVIOUS
  <2>2. evConn' = EvOffer(e) /\ UNCHANGED evBus
    BY <1>4, <2>1, Zenon DEF EvControl
  <2>3. e \in EvFrame
    BY <2>1, EvPlain
  <2>4. \A s \in EvView : EvSynced(s) => EvSynced(EvReduce(s, e))'
    BY <1>4, <2>1, <2>2, <2>3, EvSyncRefused DEF EvInv
  <2>5. evConn' \in EvLinks /\ EvReadsTruth'
    BY <1>1, <2>2, <2>3, <2>4, EvSends
  <2>6. EvTypes' /\ EvTurnOK'
    BY <1>1, <1>2, <1>4, <2>2, <2>5 DEF EvInv, EvTypes, EvTurnOK, EvLinks, evTurn, evBus
  <2> QED
    BY <2>5, <2>6 DEF EvInv
<1> QED
  BY <1>3, <1>4 DEF EvMessage

LEMMA EvCutInv == EvInv /\ EvCut => EvInv'
<1> SUFFICES ASSUME EvInv, EvCut PROVE EvInv'
  OBVIOUS
<1>1. evConn' = CutConn /\ UNCHANGED <<evTurn, evBus, evClient, evTorn, evCount>>
  BY DEF EvCut
<1>2. CutConn = [link |-> "cut", queue |-> <<>>, over |-> <<>>] /\ <<>> \in Seq(EvFrame)
  BY DEF CutConn, NoConn
<1>3. EvTypes' /\ EvTurnOK'
  BY <1>1, <1>2 DEF EvInv, EvTypes, EvTurnOK, evTurn, evBus, evClient, evCount
<1> QED
  BY <1>1, <1>2, <1>3 DEF EvInv, EvReadsTruth

LEMMA EvClosedInv == EvInv /\ EvClosed => EvInv'
<1> SUFFICES ASSUME EvInv, EvClosed PROVE EvInv'
  OBVIOUS
<1>1. /\ evConn' = NoConn /\ evUp' = <<>> /\ UNCHANGED <<evTurn, evBus, evSeen, evTorn, evCount>>
      /\ evShow' = [evShow EXCEPT !.connected = FALSE,
                                  !.phase = IF evShow.streaming THEN "reconnecting" ELSE @]
  BY DEF EvClosed
<1>2. NoConn = [link |-> "down", queue |-> <<>>, over |-> <<>>] /\ <<>> \in Seq(EvFrame) /\ <<>> \in Seq({"message", "resync"})
  BY DEF NoConn
<1>3. evShow' \in EvView
  BY <1>1 DEF EvInv, EvTypes, EvView, EvPhases
<1>4. EvTypes' /\ EvTurnOK'
  BY <1>1, <1>2, <1>3 DEF EvInv, EvTypes, EvTurnOK, evTurn, evBus, evCount
<1> QED
  BY <1>1, <1>2, <1>4 DEF EvInv, EvReadsTruth

LEMMA EvEffectInv == EvInv /\ EvEffect => EvInv'
<1> SUFFICES ASSUME EvInv, EvEffect PROVE EvInv'
  OBVIOUS
<1>1. evUp' \in {evUp, Append(evUp, "resync")} /\ UNCHANGED <<evTurn, evBus, evConn, evShow, evTorn, evCount>>
  BY DEF EvEffect
<1>2. evUp \in Seq({"message", "resync"}) /\ evUp' \in Seq({"message", "resync"})
  <2>1. evUp \in Seq({"message", "resync"})
    BY DEF EvInv, EvTypes
  <2>2. Append(evUp, "resync") \in Seq({"message", "resync"})
    BY <2>1
  <2> QED
    BY <1>1, <2>1, <2>2
<1>3. EvAsking => EvAsking'
  BY <1>1, <1>2 DEF EvAsking
<1>4. EvAsking' => EvAsking
  BY <1>1, <1>2 DEF EvAsking
<1>5. ASSUME NEW s \in EvView, EvSynced(s) PROVE EvSynced(s)'
  BY <1>1, <1>3, <1>4, <1>5 DEF EvSynced, evTurn, evBus
<1>6. EvReadsTruth'
  BY <1>1, <1>5, EvHolds
<1>7. EvTypes' /\ EvTurnOK'
  BY <1>1, <1>2 DEF EvInv, EvTypes, EvTurnOK, evTurn, evBus, evCount
<1> QED
  BY <1>6, <1>7 DEF EvInv

LEMMA EvSendInv == EvInv /\ EvSend => EvInv'
<1> SUFFICES ASSUME EvInv, EvSend PROVE EvInv'
  OBVIOUS
<1>1. /\ evShow.phase = "ready" /\ evUp' = Append(evUp, "message") /\ evShow' = Mine(evShow)
      /\ UNCHANGED <<evTurn, evBus, evConn, evSeen, evTorn, evTurns, evLinks, evDetached>>
  BY DEF EvSend, Mine
<1>2. evUp' \in Seq({"message", "resync"}) /\ EvAsking'
  <2>1. evUp \in Seq({"message", "resync"}) /\ "message" \in {"message", "resync"}
    BY DEF EvInv, EvTypes
  <2>2. Len(evUp') \in 1..Len(evUp') /\ evUp'[Len(evUp')] = "message"
    BY <1>1, <2>1
  <2> QED
    BY <1>1, <2>1, <2>2 DEF EvAsking
<1>3. evShow \in EvView /\ evShow' \in EvView /\ ~EvAmiss(evShow)
  <2>1. evShow \in EvView /\ ~EvAmiss(evShow)
    BY <1>1 DEF EvInv, EvTypes, EvAmiss
  <2>2. Mine(evShow) \in EvView
    BY <2>1 DEF Mine, EvView, Optimistic
  <2> QED
    BY <1>1, <2>1, <2>2
<1>4. ASSUME (evConn.link = "up" /\ ~evTorn)'
      PROVE  \E g : (EvReads(g, evShow, EvFrames) /\ EvSynced(g[Len(EvFrames)]))'
  <2>1. PICK g : EvReads(g, evShow, EvFrames) /\ EvSynced(g[Len(EvFrames)])
    BY <1>1, <1>4 DEF EvInv, EvReadsTruth
  <2>2. EvFrames \in Seq(EvFrame) /\ EvFrames' = EvFrames
    BY <1>1 DEF EvInv, EvTypes, EvFrames
  <2>3. PICK q, s : q = EvFrames /\ s = g[Len(EvFrames)]
    OBVIOUS
  <2>4. q \in Seq(EvFrame) /\ s \in EvView /\ EvSynced(s)
    BY <2>1, <2>2, <2>3 DEF EvReads
  <2>5. PICK h : EvReads(h, Mine(evShow), q) /\ (h[Len(q)] = s \/ (h[Len(q)] = Mine(s) /\ ~EvAmiss(s)))
    BY <1>3, <2>1, <2>2, <2>3, EvReadsMine
  <2>6. PICK v : v = h[Len(q)]
    OBVIOUS
  <2>7. v = s \/ (v = Mine(s) /\ ~EvAmiss(s))
    BY <2>5, <2>6
  <2>8. evPc' = evPc /\ evDead' = evDead /\ evRecord' = evRecord /\ evRev' = evRev /\ evStream' = evStream
    BY <1>1 DEF evTurn, evBus
  <2>9. EvSynced(v)'
    <3>1. CASE v = s
      BY <1>2, <2>4, <2>8, <3>1 DEF EvSynced
    <3>2. CASE v = Mine(s) /\ ~EvAmiss(s)
      <4>1. /\ v.rev = s.rev /\ v.msgs = 0 /\ v.resync = s.resync /\ v.streaming = s.streaming /\ v.gen = s.gen
            /\ v.seg = s.seg /\ v.phase = s.phase
        BY <2>4, <3>2 DEF Mine, EvView, Optimistic
      <4>2. evRecord \in Nat /\ evStream.base \in Nat
        BY DEF EvInv, EvTypes
      <4>3. s.resync \/ s.phase # "error"
        BY <3>2 DEF EvAmiss
      <4> QED
        BY <1>2, <2>4, <2>8, <4>1, <4>2, <4>3 DEF EvSynced
    <3> QED
      BY <2>7, <3>1, <3>2
  <2>10. EvReads(h, evShow, EvFrames)' /\ (h[Len(EvFrames)])' = v
    BY <1>1, <2>2, <2>3, <2>5, <2>6
  <2> QED
    BY <2>9, <2>10
<1>5. EvTypes' /\ EvTurnOK'
  BY <1>1, <1>2, <1>3 DEF EvInv, EvTypes, EvTurnOK, evTurn, evBus
<1> QED
  BY <1>4, <1>5 DEF EvInv, EvReadsTruth

LEMMA EvDeliverInv == EvInv /\ EvDeliver => EvInv'
<1> SUFFICES ASSUME EvInv, EvDeliver PROVE EvInv'
  OBVIOUS
<1>1. /\ evConn.link = "up" /\ EvFrames # <<>> /\ evShow' = EvReduce(evShow, EvNextFrame)
      /\ evConn' = IF evConn.queue # <<>> THEN [evConn EXCEPT !.queue = Tail(@)]
                                          ELSE [evConn EXCEPT !.over = Tail(@)]
      /\ UNCHANGED <<evTurn, evBus, evUp, evSeen, evTorn, evCount>>
  BY DEF EvDeliver, EvFrames
<1>2. evConn \in EvLinks
  BY DEF EvInv, EvTypes, EvLinks
<1>3. evConn' \in EvLinks /\ EvNextFrame = Head(EvFrames) /\ EvFrames' = Tail(EvFrames)
  BY <1>1, <1>2, EvNextIsHead
<1>4. evShow \in EvView /\ EvFrames \in Seq(EvFrame) /\ Head(EvFrames) \in EvFrame
  BY <1>1 DEF EvInv, EvTypes, EvFrames
<1>5. evShow' \in EvView
  BY <1>1, <1>3, <1>4, EvReduceType
<1>6. ASSUME (evConn.link = "up" /\ ~evTorn)'
      PROVE  \E g : (EvReads(g, evShow, EvFrames) /\ EvSynced(g[Len(EvFrames)]))'
  <2>1. PICK g : EvReads(g, evShow, EvFrames) /\ EvSynced(g[Len(EvFrames)])
    BY <1>1, <1>6 DEF EvInv, EvReadsTruth
  <2>2. PICK q, v : q = EvFrames /\ v = g[Len(EvFrames)]
    OBVIOUS
  <2>3. PICK h : EvReads(h, EvReduce(evShow, Head(q)), Tail(q)) /\ h[Len(Tail(q))] = g[Len(q)]
    BY <1>1, <1>4, <2>1, <2>2, EvReadsFirst
  <2>4. EvSynced(v)'
    BY <1>1, <2>1, <2>2 DEF EvSynced, EvAsking, evTurn, evBus
  <2>5. EvReads(h, evShow, EvFrames)' /\ (h[Len(EvFrames)])' = v
    BY <1>1, <1>3, <2>2, <2>3
  <2> QED
    BY <2>4, <2>5
<1>7. EvTypes' /\ EvTurnOK'
  BY <1>1, <1>3, <1>5 DEF EvInv, EvTypes, EvTurnOK, EvLinks, evTurn, evBus, evCount
<1> QED
  BY <1>6, <1>7 DEF EvInv, EvReadsTruth

LEMMA EvConnectInv == EvInv /\ EvConnect => EvInv'
<1> SUFFICES ASSUME EvInv, EvConnect PROVE EvInv'
  OBVIOUS
<1>1. /\ evConn' = [link |-> "up", queue |-> <<EvSnapshot>>, over |-> <<>>]
      /\ evShow' = [evShow EXCEPT !.connected = TRUE] /\ evTorn' = FALSE
      /\ UNCHANGED <<evTurn, evBus, evUp, evTurns>>
  BY DEF EvConnect
<1>2. PICK e, s, q : e = EvSnapshot /\ s = evShow' /\ q = <<>>
  OBVIOUS
<1>3. e \in EvFrame /\ s \in EvView /\ q \in Seq(EvFrame) /\ Len(q) = 0
  <2>1. e \in EvFrame
    BY <1>2, EvSnapshotType DEF EvInv
  <2>2. s \in EvView
    BY <1>1, <1>2 DEF EvInv, EvTypes, EvView
  <2> QED
    BY <1>2, <2>1, <2>2
<1>4. <<e>> \in Seq(EvFrame) /\ Append(q, e) = <<e>> /\ <<e>> \o <<>> = <<e>> /\ <<>> \in Seq(EvFrame)
  BY <1>2, <1>3
<1>5. EvFrames' = <<e>> /\ evConn' = [link |-> "up", queue |-> <<e>>, over |-> <<>>]
  BY <1>1, <1>2, <1>4 DEF EvFrames
<1>6. PICK g : g = [i \in 0..0 |-> s]
  OBVIOUS
<1>7. EvReads(g, s, q)
  BY <1>3, <1>6 DEF EvReads
<1>8. PICK h : EvReads(h, s, Append(q, e)) /\ h[Len(Append(q, e))] = EvReduce(g[Len(q)], e)
  BY <1>3, <1>7, EvReadsOne
<1>9. g[Len(q)] = s
  BY <1>3, <1>6
<1>10. PICK v : v = EvReduce(s, e)
  OBVIOUS
<1>11. EvSynced(v)'
  BY <1>1, <1>2, <1>3, <1>10, EvSyncSnapshot DEF EvInv
<1>12. EvReads(h, evShow, EvFrames)' /\ (h[Len(EvFrames)])' = v
  BY <1>2, <1>4, <1>5, <1>8, <1>9, <1>10
<1>13. EvReadsTruth'
  BY <1>11, <1>12 DEF EvReadsTruth
<1>14. EvTypes' /\ EvTurnOK'
  <2>1. evConn' \in [link : {"up", "cut", "down"}, queue : Seq(EvFrame), over : Seq(EvFrame)]
    BY <1>4, <1>5
  <2>2. evShow' \in EvView /\ evTorn' = FALSE /\ UNCHANGED <<evTurn, evBus, evUp, evTurns>>
    BY <1>1, <1>2, <1>3
  <2> QED
    BY <2>1, <2>2 DEF EvInv, EvTypes, EvTurnOK, evTurn, evBus
<1> QED
  BY <1>13, <1>14 DEF EvInv

\* event_bus.py, ws_handlers.py and the reducer of the client: a client that has read all,
\* sent nothing and does not ask for a snapshot shows the draft of the running turn or the
\* record, whatever the sizes of the queue and the overflow, and however turns, failures,
\* lost connections, requests for snapshots and messages of this client interleave.
THEOREM StreamSafe == EvSpec => []EvShowsTruth
<1>1. EvInit => EvInv
  BY EvInitInv
<1>2. EvInv /\ [EvNext]_evVars => EvInv'
  <2> SUFFICES ASSUME EvInv, [EvNext]_evVars PROVE EvInv'
    OBVIOUS
  <2>1. CASE UNCHANGED evVars
    <3>1. UNCHANGED <<evPc, evDead, evRecord, evRev, evStream, evConn, evUp, evShow, evTorn, evTurns>>
      BY <2>1 DEF evVars, evTurn, evBus, evClient, evCount
    <3>2. EvTypes' /\ EvTurnOK'
      BY <3>1 DEF EvInv, EvTypes, EvTurnOK
    <3>3. \A s \in EvView : EvSynced(s) => EvSynced(s)'
      BY <3>1 DEF EvSynced, EvAsking
    <3>4. EvReadsTruth'
      BY <3>1, <3>3, EvHolds
    <3> QED
      BY <3>2, <3>4 DEF EvInv
  <2> QED
    BY <2>1, EvAskedElsewhereInv, EvStartInv, EvTokenInv, EvStreamEndInv, EvChainEndInv, EvFailInv, EvCompressInv,
       EvDetachInv, EvResyncInv, EvMessageInv, EvCutInv, EvDeliverInv, EvEffectInv, EvSendInv, EvClosedInv,
       EvConnectInv DEF EvNext
<1>3. EvInv => EvShowsTruth
  BY EvInvShows
<1> QED
  BY <1>1, <1>2, <1>3, PTL DEF EvSpec

===============================================================================
