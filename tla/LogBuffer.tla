----------------------------- MODULE LogBuffer -----------------------------
(***************************************************************************)
(* The log kept in memory (gps/utils/LogBuffer.cpp, SkipList.h).           *)
(*                                                                         *)
(* Lines of all levels are in one list; those of one level are threaded    *)
(* through it, so that each level can be bounded in number and in age.     *)
(*                                                                         *)
(* append() holds a lock, but its caller has read the clock before, so the *)
(* times of two threads may be in any order; their difference is unsigned. *)
(* The nodes of the list are used again when they have been erased.        *)
(* flush() and pop() without a level have no caller.                       *)
(*                                                                         *)
(* gps.conf may set the capacity of a level to 0. Then append() pops its   *)
(* own line and reads the front of an empty level, which is the end of the *)
(* list: what it finds there ends the loop, or the program crashes or      *)
(* never leaves the loop; then it takes no further step.                   *)
(***************************************************************************)
EXTENDS Integers, Sequences, SequencesExt, FiniteSets

CONSTANTS
  LogLevel,              \* levels
  LogTime,               \* what the clock shows
  TimeModulus,           \* unsigned times are less than this
  TimeDepthThres,        \* mTimeDepthThres of every level
  MaxNumThres            \* mMaxNumThres of every level

ASSUME LogAssumption ==
  TimeModulus \in Nat /\ LogTime \subseteq 0..(TimeModulus - 1)
    /\ TimeDepthThres \in Nat /\ MaxNumThres \in Nat
    /\ IsFiniteSet(LogLevel) /\ LogLevel # {}

EndNode == 0
\* There is room for one more line than all levels may keep.
LogNode == 1..(MaxNumThres * Cardinality(LogLevel) + 1)

VARIABLES
  mMainList,       \* the nodes in the order of their insertion
  logNode,         \* the level, time and mNextInLevel of each node
  mHeadVec,        \* the first node of a level
  mTailVec,        \* the last one
  mCurrentSize,    \* the number of lines of a level
  trimming         \* the line whose append() is in progress, if any

logList == <<mMainList, logNode, mHeadVec, mTailVec>>
logVars == <<logList, mCurrentSize, trimming>>
-----------------------------------------------------------------------------
\* What a node that is not in the list holds, which nobody reads
Erased == [level |-> CHOOSE l \in LogLevel : TRUE, time |-> 0, next |-> EndNode]

LogInit ==
  /\ mMainList = <<>> /\ mCurrentSize = [l \in LogLevel |-> 0] /\ trimming = {}
  /\ logNode = [n \in LogNode |-> Erased]
  /\ mHeadVec = [l \in LogLevel |-> EndNode] /\ mTailVec = [l \in LogLevel |-> EndNode]

\* (mutant) the last line of the level does not lead to the new one
Unlinked(node, old, n) == node
\* What append() does to the nodes when old is the last of the level
Linked(node, old, n) == IF old = EndNode THEN node ELSE [node EXCEPT ![old].next = n]

\* LogBuffer::append as far as SkipList::append
LogAppend(l, t) ==
  /\ trimming = {} /\ trimming' = {[level |-> l, time |-> t]}
  /\ LET n == CHOOSE x \in LogNode : x \notin ToSet(mMainList)
         line == [level |-> l, time |-> t, next |-> EndNode]
         old == IF mHeadVec[l] = EndNode THEN EndNode ELSE mTailVec[l]
     IN /\ mMainList' = Append(mMainList, n)
        /\ logNode' = Linked([logNode EXCEPT ![n] = line], old, n)
        /\ mHeadVec' = IF old = EndNode THEN [mHeadVec EXCEPT ![l] = n] ELSE mHeadVec
        /\ mTailVec' = [mTailVec EXCEPT ![l] = n]
  /\ mCurrentSize' = [mCurrentSize EXCEPT ![l] = @ + 1]

\* The condition of the loop in append(), which reads the front of the level
TooMuch(line) ==
  \/ (line.time - logNode[mHeadVec[line.level]].time) % TimeModulus > TimeDepthThres
  \/ mCurrentSize[line.level] > MaxNumThres

\* SkipList::pop on a level, and the rest of an iteration of the loop
LogPop(line) ==
  /\ line \in trimming /\ mHeadVec[line.level] # EndNode /\ TooMuch(line)
  /\ LET l == line.level
         first == mHeadVec[l]
         next == logNode[first].next
     IN /\ \E i \in DOMAIN mMainList :
             mMainList[i] = first /\ mMainList' = RemoveAt(mMainList, i)
        /\ mHeadVec' = [mHeadVec EXCEPT ![l] = next]
        /\ mTailVec' = IF next = EndNode THEN [mTailVec EXCEPT ![l] = EndNode] ELSE mTailVec
        /\ logNode' = [logNode EXCEPT ![first] = Erased]
        /\ mCurrentSize' = [mCurrentSize EXCEPT ![l] = @ - 1]
  /\ UNCHANGED trimming

\* The loop ends, if it does; the front of an empty level may end it.
LogAppended(line) ==
  /\ line \in trimming /\ (mHeadVec[line.level] # EndNode => ~TooMuch(line))
  /\ trimming' = {}
  /\ UNCHANGED <<logList, mCurrentSize>>

LogNext ==
  \/ \E l \in LogLevel, t \in LogTime : LogAppend(l, t)
  \/ \E line \in trimming : LogPop(line) \/ LogAppended(line)
-----------------------------------------------------------------------------
LogTypeOK ==
  /\ mMainList \in Seq(LogNode) /\ trimming \subseteq [level : LogLevel, time : LogTime]
  /\ logNode \in [LogNode -> [level : LogLevel, time : {0} \cup LogTime,
                              next : {EndNode} \cup LogNode]]
  /\ mHeadVec \in [LogLevel -> {EndNode} \cup LogNode]
  /\ mTailVec \in [LogLevel -> {EndNode} \cup LogNode]
  /\ mCurrentSize \in [LogLevel -> Nat]

\* The lines of level l, and their order
Mine(l) == {n \in ToSet(mMainList) : logNode[n].level = l}
Precedes(m, n) ==
  \E i, j \in DOMAIN mMainList : i < j /\ mMainList[i] = m /\ mMainList[j] = n
\* n is the first of the nodes S, or the end if there are none.
FirstOf(n, S) ==
  IF S = {} THEN n = EndNode ELSE n \in S /\ \A m \in S \ {n} : Precedes(n, m)

\* Whatever order of times threads append in, and however the difference of
\* two wraps, the lines of each level stay threaded through the list in their
\* order and counted; a level is kept within its bound and, unless its capacity
\* is 0, never emptied by an append (whose loop reads its front) but always keeps
\* the line appended (LogBuffer::append, gps/utils/LogBuffer.cpp; SkipList.h).
LogLevelsThreaded ==
  \A l \in LogLevel :
    /\ FirstOf(mHeadVec[l], Mine(l))
    /\ \A n \in Mine(l) : FirstOf(logNode[n].next, {m \in Mine(l) : Precedes(n, m)})
    /\ IF Mine(l) = {} THEN mTailVec[l] = EndNode
       ELSE mTailVec[l] \in Mine(l) /\ logNode[mTailVec[l]].next = EndNode
    /\ mCurrentSize[l] = Cardinality(Mine(l))
    /\ trimming = {} => mCurrentSize[l] <= MaxNumThres
    /\ MaxNumThres # 0 => \A line \in trimming :
         line.level = l => Mine(l) # {} /\ logNode[mTailVec[l]].time = line.time
=============================================================================
