----------------------------- MODULE LogSession -----------------------------
\* The log files a lidar pushes: its bags come as datagrams, LoggerManager acknowledges
\* them and queues them for a LoggerHandler, whose writer thread keeps one file open, a
\* hidden one until it is complete; CycleDelete removes the oldest complete files when
\* the directory is too large. One lidar and one kind of log; the process may die.
\*
\* A bag is its position in what the lidar sends. The lidar numbers its bags from 0 in
\* each file or through all of them: the code does not say which.
EXTENDS Integers, Sequences, SequencesExt, FiniteSets, FiniteSetsExt

CONSTANTS
  LogFiles, BagsPerFile,  \* what the lidar sends
  MaxCacheSize,           \* of the directory, in bags
  MaxFlight, MaxLogFaults,\* bounds on bags under way, and on lost, repeated and overtaken ones
  MaxStarts, MaxSecond    \* bounds on starts of the SDK and on the time in the file names

ASSUME LogAssumption ==
  /\ {LogFiles, BagsPerFile, MaxFlight, MaxStarts} \subseteq Nat \ {0}
  /\ {MaxCacheSize, MaxLogFaults, MaxSecond} \subseteq Nat

VARIABLES
  numbering,     \* of the bags: "file" or "through"
  pushed,        \* bags the lidar has sent; those under way
  flight,
  logger,        \* LoggerManager: "down", "up", "closing" (its handlers gone, log_enable_
                 \* still set), "renaming" (in ChangeHiddenFiles), "destroyed"
  handler,       \* the LoggerHandler exists
  queue_, batch, \* its queue, and what the writer took of it
  current_file_, \* [file_index, trans_index], and the open file or NoFile
  fp,
  disk,          \* files: [second, file_index, hidden, bags]
  second, starts, log_faults,
  listed,        \* the hidden names that were there when ChangeHiddenFiles began, and still are
  renames,       \* the rename that is under way in the writer and in ChangeHiddenFiles: the
                 \* hidden name, and the call that is next
  popped, gone   \* bags the writer is done with; bags that were lost on the way to a file
                 \* or with their file

logVars == <<numbering, pushed, flight, logger, handler, queue_, batch, current_file_, fp,
             disk, second, starts, log_faults, listed, renames, popped, gone>>
network == <<numbering, pushed, flight, log_faults>>

NoFile == [second |-> -1, file_index |-> 0, hidden |-> TRUE]
Bags == 1 .. LogFiles * BagsPerFile
FileIndex(p) == (p - 1) \div BagsPerFile + 1
TransIndex(p) == IF numbering = "file" THEN (p - 1) % BagsPerFile ELSE p - 1
Flag(p) == CASE p % BagsPerFile = 1 -> "kCreateFile" [] p % BagsPerFile = 0 -> "kEndFile"
             [] OTHER -> "kTransferData"
Named(f) == [second |-> f.second, file_index |-> f.file_index, hidden |-> f.hidden]
Size(files) == MapThenSumSet(LAMBDA f : Len(f.bags), files)

\* Files lose their dots; one of such a name that is already there is removed.
Renamed(files, hidden) ==
  LET shown == {[f EXCEPT !.hidden = FALSE] : f \in hidden}
  IN  {f \in files \ hidden : \A g \in shown : Named(f) # Named(g)} \cup shown
Replaced(files, hidden) ==
  UNION {ToSet(f.bags) : f \in {f \in files \ hidden : f \notin Renamed(files, hidden)}}
Hidden(files) == {f \in files : f.hidden}
At(n) == {f \in disk : Named(f) = n}
OpenFile == At(fp)
Shown(n) == [second |-> n.second, file_index |-> n.file_index, hidden |-> FALSE]
Dotted(n) == [second |-> n.second, file_index |-> n.file_index, hidden |-> TRUE]
NoRename == [name |-> NoFile, next |-> "none"]
Idle(who) == renames[who] = NoRename

-----------------------------------------------------------------------------
\* The lidar and the network. Bags arrive in order unless one is overtaken.
Push ==
  /\ pushed < LogFiles * BagsPerFile /\ Cardinality(flight) < MaxFlight
  /\ pushed' = pushed + 1 /\ flight' = flight \cup {pushed + 1}
  /\ UNCHANGED <<numbering, logger, handler, queue_, batch, current_file_, fp, disk, second,
                 starts, log_faults, listed, renames, popped, gone>>

Lose(p) ==
  /\ log_faults < MaxLogFaults
  /\ flight' = flight \ {p} /\ gone' = gone \cup {p} /\ log_faults' = log_faults + 1
  /\ UNCHANGED <<numbering, pushed, logger, handler, queue_, batch, current_file_, fp, disk,
                 second, starts, listed, renames, popped>>

\* LoggerManager::Handler, on an IO thread: a Create makes the handler, other bags need it.
\* A closing manager still takes bags.
Handler(p, again) ==
  LET fault == again \/ \E q \in flight : q < p
      stored == handler \/ Flag(p) = "kCreateFile"
  IN  /\ logger \in {"up", "closing", "renaming"} /\ (fault => log_faults < MaxLogFaults)
      /\ flight' = IF again THEN flight ELSE flight \ {p}
      /\ log_faults' = IF fault THEN log_faults + 1 ELSE log_faults
      /\ handler' = stored
      /\ queue_' = IF stored THEN Append(queue_, p) ELSE queue_
      /\ gone' = IF stored \/ again THEN gone ELSE gone \cup {p}
      /\ UNCHANGED <<numbering, pushed, logger, batch, current_file_, fp, disk, second, starts,
                     listed, renames, popped>>

-----------------------------------------------------------------------------
\* ChangeCurrentFileName in the writer and the loop of ChangeHiddenFiles in Destory make the
\* same calls for a hidden file that is there: is the name without the dot taken, if so
\* remove that file, and rename the hidden one, if it is still there.
BeginRename(who, n) ==
  renames' = [renames EXCEPT ![who] = IF At(n) = {} THEN NoRename ELSE [name |-> n, next |-> "access"]]

AccessShown(who) ==
  LET n == renames[who].name
  IN  /\ renames[who].next = "access"
      /\ renames' = [renames EXCEPT ![who] =
                       [name |-> n, next |-> IF At(Shown(n)) = {} THEN "rename" ELSE "remove"]]
      /\ UNCHANGED <<network, logger, handler, queue_, batch, current_file_, fp, disk, second,
                     starts, listed, popped, gone>>

RemoveShown(who) ==
  LET n == renames[who].name
  IN  /\ renames[who].next = "remove"
      /\ renames' = [renames EXCEPT ![who] = [name |-> n, next |-> "rename"]]
      /\ disk' = disk \ At(Shown(n))
      /\ gone' = gone \cup UNION {ToSet(f.bags) : f \in At(Shown(n))}
      /\ UNCHANGED <<network, logger, handler, queue_, batch, current_file_, fp, second, starts,
                     listed, popped>>

\* An open file is renamed with the rest: the writer goes on writing it.
RenameFile(who) ==
  LET n == renames[who].name
  IN  /\ renames[who].next = "rename"
      /\ renames' = [renames EXCEPT ![who] = NoRename]
      /\ disk' = Renamed(disk, At(n)) /\ gone' = gone \cup Replaced(disk, At(n))
      /\ listed' = listed \ {n}
      /\ fp' = IF fp = n THEN Shown(fp) ELSE fp
      /\ UNCHANGED <<network, logger, handler, queue_, batch, current_file_, second, starts, popped>>

-----------------------------------------------------------------------------
\* The writer thread.
TakeQueue ==
  /\ handler /\ batch = <<>> /\ queue_ # <<>>
  /\ batch' = queue_ /\ queue_' = <<>>
  /\ UNCHANGED <<network, logger, handler, current_file_, fp, disk, second, starts, listed,
                 renames, popped, gone>>

\* A bag older than the last one, except a Create, stays at the head of the batch: the
\* writer looks at it forever.
Stale(p) == TransIndex(p) < current_file_.trans_index /\ Flag(p) # "kCreateFile"

\* The first part of CreateFile and StopFile: the open file is closed and renamed, unless
\* ChangeHiddenFiles did that.
CloseFile ==
  /\ handler /\ batch # <<>> /\ fp # NoFile
  /\ Flag(Head(batch)) \in {"kCreateFile", "kEndFile"} /\ ~Stale(Head(batch))
  /\ fp' = NoFile /\ BeginRename("writer", Dotted(fp))
  /\ UNCHANGED <<network, logger, handler, queue_, batch, current_file_, disk, second, starts,
                 listed, popped, gone>>

\* The rest. A hidden file of that name is written on.
CreateFile(p) ==
  LET name == [second |-> second, file_index |-> FileIndex(p), hidden |-> TRUE]
      bags == IF At(name) = {} THEN <<p>> ELSE Append((CHOOSE f \in At(name) : TRUE).bags, p)
  IN  /\ fp = NoFile /\ Idle("writer")
      /\ disk' = (disk \ At(name)) \cup {[second |-> second, file_index |-> FileIndex(p), hidden |-> TRUE, bags |-> bags]}
      /\ fp' = name
      /\ UNCHANGED gone

StopFile ==
  /\ fp = NoFile /\ Idle("writer")
  /\ UNCHANGED <<disk, fp, gone>>

\* Only bags of the open file's index are written; a gap in them is only logged.
WriteFile(p) ==
  /\ disk' = (disk \ OpenFile) \cup {[f EXCEPT !.bags = Append(@, p)] : f \in OpenFile}
  /\ gone' = IF fp = NoFile THEN gone \cup {p} ELSE gone
  /\ UNCHANGED fp

Write ==
  /\ handler /\ batch # <<>>
  /\ LET p == Head(batch)
         other == Flag(p) = "kTransferData" /\ FileIndex(p) # current_file_.file_index
     IN  /\ ~Stale(p)
         /\ batch' = Tail(batch)
         /\ popped' = popped \cup {p}
         /\ CASE Flag(p) = "kCreateFile" -> CreateFile(p)
              [] Flag(p) = "kEndFile" -> StopFile
              [] other -> gone' = gone \cup {p} /\ UNCHANGED <<disk, fp>>
              [] OTHER -> WriteFile(p)
         /\ current_file_' =
              IF other THEN current_file_
              ELSE [file_index |-> IF Flag(p) = "kCreateFile" THEN FileIndex(p) ELSE current_file_.file_index,
                    trans_index |-> TransIndex(p)]
  /\ UNCHANGED <<network, logger, handler, queue_, second, starts, listed, renames>>

-----------------------------------------------------------------------------
\* CycleDelete. Mutant of Deletable: hidden files are not told from complete ones.
DeletableAll == disk
\* GetFileNames: the complete files only.
Deletable == disk \ Hidden(disk)

CycleDelete ==
  /\ logger = "up" /\ Size(disk) > MaxCacheSize
  /\ \E f \in Deletable : (\A g \in Deletable : f.second <= g.second)
                         /\ disk' = disk \ {f} /\ gone' = gone \cup ToSet(f.bags)
  /\ UNCHANGED <<network, logger, handler, queue_, batch, current_file_, fp, second, starts,
                 listed, renames, popped>>

\* Init after a start of the SDK: what an earlier one left hidden is shown.
Start ==
  /\ logger = "down" /\ starts < MaxStarts
  /\ logger' = "up" /\ starts' = starts + 1
  /\ disk' = Renamed(disk, Hidden(disk)) /\ gone' = gone \cup Replaced(disk, Hidden(disk))
  /\ UNCHANGED <<network, handler, queue_, batch, current_file_, fp, second, listed, renames, popped>>

\* Mutant of Fresh: the file of the handler stays open.
FreshLeak ==
  /\ handler' = FALSE /\ queue_' = <<>> /\ batch' = <<>> /\ UNCHANGED fp
  /\ current_file_' = [file_index |-> 0, trans_index |-> 0]

\* The state without a LoggerHandler.
Fresh ==
  /\ handler' = FALSE /\ queue_' = <<>> /\ batch' = <<>> /\ fp' = NoFile
  /\ current_file_' = [file_index |-> 0, trans_index |-> 0]

\* Destory joins the writer, which finishes its batch and leaves the queue; an open file is
\* closed and stays hidden until the second part. A writer that spins is joined forever.
Destory ==
  /\ logger = "up" /\ batch = <<>>
  /\ logger' = "closing" /\ Fresh /\ gone' = gone \cup ToSet(queue_)
  /\ UNCHANGED <<network, disk, second, starts, listed, renames, popped>>

\* The second part, ChangeHiddenFiles: the directory is opened; its loop comes to every
\* hidden file that was there then, and perhaps to one made meanwhile by the writer of a
\* handler that came after handlers_.clear(), which stays.
OpenDir ==
  /\ logger = "closing"
  /\ logger' = "renaming" /\ listed' = {Named(f) : f \in Hidden(disk)}
  /\ UNCHANGED <<network, handler, queue_, batch, current_file_, fp, disk, second, starts,
                 renames, popped, gone>>

ShowNext ==
  /\ logger = "renaming" /\ Idle("closer")
  /\ \E f \in Hidden(disk) : BeginRename("closer", Named(f))
  /\ UNCHANGED <<network, logger, handler, queue_, batch, current_file_, fp, disk, second,
                 starts, listed, popped, gone>>

Closed ==
  /\ logger = "renaming" /\ Idle("closer") /\ listed = {}
  /\ logger' = "destroyed"
  /\ UNCHANGED <<network, handler, queue_, batch, current_file_, fp, disk, second, starts,
                 listed, renames, popped, gone>>

\* The process dies, or ends after LivoxLidarSdkUninit.
Die ==
  /\ logger # "down"
  /\ logger' = "down" /\ Fresh /\ gone' = gone \cup ToSet(queue_) \cup ToSet(batch)
  /\ listed' = {} /\ renames' = [who \in {"writer", "closer"} |-> NoRename]
  /\ UNCHANGED <<network, disk, second, starts, popped>>

Tick ==
  /\ second < MaxSecond /\ second' = second + 1
  /\ UNCHANGED <<network, logger, handler, queue_, batch, current_file_, fp, disk, starts,
                 listed, renames, popped, gone>>

LogInit ==
  /\ numbering \in {"file", "through"} /\ pushed = 0 /\ flight = {} /\ logger = "down"
  /\ handler = FALSE /\ queue_ = <<>> /\ batch = <<>> /\ fp = NoFile
  /\ current_file_ = [file_index |-> 0, trans_index |-> 0]
  /\ disk = {} /\ second = 0 /\ starts = 0 /\ log_faults = 0 /\ popped = {} /\ gone = {}
  /\ listed = {} /\ renames = [who \in {"writer", "closer"} |-> NoRename]

LogNext ==
  \/ Push \/ TakeQueue \/ CloseFile \/ Write \/ CycleDelete \/ Start \/ Destory \/ OpenDir
  \/ ShowNext \/ Closed \/ Die \/ Tick
  \/ \E who \in {"writer", "closer"} : AccessShown(who) \/ RemoveShown(who) \/ RenameFile(who)
  \/ \E p \in flight : Lose(p) \/ \E again \in BOOLEAN : Handler(p, again)

LogSpec == LogInit /\ [][LogNext]_logVars

LogTypeOK ==
  /\ flight \cup popped \cup gone \subseteq 1 .. pushed
  /\ logger \in {"down", "up", "closing", "renaming", "destroyed"}
  /\ (queue_ # <<>> \/ batch # <<>> \/ fp # NoFile => handler)
  /\ (~Idle("writer") => fp = NoFile /\ batch # <<>>)
  /\ (~Idle("closer") \/ listed # {} => logger = "renaming")
  /\ \A f, g \in disk : Named(f) = Named(g) => f = g

\* The file being written is never deleted or replaced under the writer, and until Destory
\* comes to ChangeHiddenFiles a file that is being renamed is never one of those removed; a
\* file holds bags of its own index only, in the order of their numbers from each Create on;
\* and a bag the writer took is in a file, unless none of its index was open or its complete
\* file was removed: by CycleDelete, for one of its name, or by the second of two renames of
\* one file, which take the same name without a lock while the SDK is closed.
LogIntact ==
  /\ fp # NoFile => OpenFile # {}
  /\ ~Idle("writer") /\ logger \in {"up", "closing"} => At(renames["writer"].name) # {}
  /\ \A f \in disk :
       /\ \A i \in DOMAIN f.bags : FileIndex(f.bags[i]) = f.file_index
       /\ \A i \in 1 .. Len(f.bags) - 1 :
            f.bags[i] <= f.bags[i + 1] \/ Flag(f.bags[i + 1]) = "kCreateFile"
  /\ \A p \in popped \ gone :
       Flag(p) = "kEndFile" \/ \E f \in disk : p \in ToSet(f.bags)
=============================================================================
