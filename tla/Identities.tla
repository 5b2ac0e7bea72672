---------------------------- MODULE Identities ----------------------------
(***************************************************************************)
(* jigd's memo of what store files contain (identity.go).  A goroutine per *)
(* connection answers IDS while store paths are collected, built again and *)
(* written.  An identity is a hash, modelled by what it is the hash of.    *)
(***************************************************************************)
EXTENDS Naturals, Sequences, FiniteSets

CONSTANTS
  Askers,          \* goroutines in ids
  Paths, Inodes,   \* clean paths under the store, and inode numbers
  Contents, Times, \* what files contain, and modification times
  Nothing,
  MaxVersions      \* versions a path has over time

ASSUME IdentAssumption == Nothing \notin Inodes /\ Contents \subseteq Seq(Nat) /\ MaxVersions \in Nat

VARIABLES
  name,     \* the directory: the inode at each path, or Nothing
  file,     \* file[i]: stamp (the fileStamp) and data of an inode
  past,     \* past[p]: every version there has been at a path
  known,    \* the memo, Identities.known
  ipc, asked, fd, stamp, id   \* the call of Of that each goroutine is in

callVars == <<ipc, asked, fd, stamp, id>>
identVars == <<name, file, past, known, callVars>>

Open(i) == \E g \in Askers : fd[g] = i

\* What an inode can be: the size is that of the content, the time is any.
Versions(i) ==
  {[stamp |-> [ino |-> i, size |-> Len(d), mtime |-> t], data |-> d] : d \in Contents, t \in Times}

IdentInit ==
  /\ name = [p \in Paths |-> Nothing] /\ file = [i \in Inodes |-> Nothing]
  /\ past = [p \in Paths |-> {}]
  /\ known = [p \in Paths |-> Nothing]
  /\ ipc = [g \in Askers |-> "idle"] /\ asked = [g \in Askers |-> Nothing]
  /\ fd = [g \in Askers |-> Nothing] /\ stamp = [g \in Askers |-> Nothing]
  /\ id = [g \in Askers |-> Nothing]

----------------------------------------------------------------------------
(* Identities.Of *)

\* os.Open; without a regular file below the store the answer is "".
OpenFile(g) ==
  /\ ipc[g] = "idle"
  /\ \E p \in Paths :
       /\ asked' = [asked EXCEPT ![g] = p]
       /\ fd' = [fd EXCEPT ![g] = name[p]]
       /\ ipc' = [ipc EXCEPT ![g] = IF name[p] = Nothing THEN "answered" ELSE "stat"]
  /\ UNCHANGED <<name, file, past, known, stamp, id>>

\* f.Stat, of what was opened and not of the path; what is no regular file or has left
\* the store has no identity.
Stat(g) ==
  /\ ipc[g] = "stat"
  /\ \/ /\ stamp' = [stamp EXCEPT ![g] = file[fd[g]].stamp]
        /\ ipc' = [ipc EXCEPT ![g] = "recall"]
     \/ /\ ipc' = [ipc EXCEPT ![g] = "answered"]
        /\ UNCHANGED stamp
  /\ UNCHANGED <<name, file, past, known, asked, fd, id>>

\* Mutant of Matches: the inode does not count.
MatchesAnyInode(entry, s) ==
  entry # Nothing /\ entry.stamp.size = s.size /\ entry.stamp.mtime = s.mtime

Matches(entry, s) == entry # Nothing /\ entry.stamp = s

\* The look at the memo, under the read lock.
Recall(g) ==
  /\ ipc[g] = "recall"
  /\ LET entry == known[asked[g]]
         hit == Matches(entry, stamp[g])
     IN  /\ id' = [id EXCEPT ![g] = IF hit THEN entry.id ELSE Nothing]
         /\ ipc' = [ipc EXCEPT ![g] = IF hit THEN "answered" ELSE "read"]
  /\ UNCHANGED <<name, file, past, known, asked, fd, stamp>>

\* io.ReadFull of as many bytes as the file had.
ReadFull(g) ==
  /\ ipc[g] = "read"
  /\ LET data == file[fd[g]].data
         whole == stamp[g].size <= Len(data)
     IN  /\ id' = [id EXCEPT ![g] = IF whole THEN SubSeq(data, 1, stamp[g].size) ELSE Nothing]
         /\ ipc' = [ipc EXCEPT ![g] = IF whole THEN "remember" ELSE "answered"]
  /\ UNCHANGED <<name, file, past, known, asked, fd, stamp>>

\* The entry is written under the lock, whatever another goroutine wrote meanwhile.
Remember(g) ==
  /\ ipc[g] = "remember"
  /\ known' = [known EXCEPT ![asked[g]] = [stamp |-> stamp[g], id |-> id[g]]]
  /\ ipc' = [ipc EXCEPT ![g] = "answered"]
  /\ UNCHANGED <<name, file, past, asked, fd, stamp, id>>

\* The deferred Close, and the line of the answer.
Reply(g) ==
  /\ ipc[g] = "answered"
  /\ ipc' = [ipc EXCEPT ![g] = "idle"] /\ fd' = [fd EXCEPT ![g] = Nothing]
  /\ asked' = [asked EXCEPT ![g] = Nothing] /\ stamp' = [stamp EXCEPT ![g] = Nothing]
  /\ id' = [id EXCEPT ![g] = Nothing]
  /\ UNCHANGED <<name, file, past, known>>

----------------------------------------------------------------------------
(* The store around it *)

\* The inode i is at path p and becomes v.
Becomes(p, i, v) ==
  /\ file' = [file EXCEPT ![i] = v]
  /\ past' = [past EXCEPT ![p] = @ \cup {v}]
  /\ Cardinality(past'[p]) <= MaxVersions

\* A build makes a file; the kernel takes an inode number nobody uses.  Nothing keeps a
\* second build of a path from the inode, the size and the time of the first.
Create(p) ==
  /\ name[p] = Nothing
  /\ \E i \in Inodes :
       /\ ~Open(i) /\ \A q \in Paths : name[q] # i
       /\ name' = [name EXCEPT ![p] = i]
       /\ \E v \in Versions(i) : Becomes(p, i, v)
  /\ UNCHANGED <<known, callVars>>

\* It goes on writing, and Nix sets the time at the end.
Extend(p) ==
  /\ name[p] # Nothing
  /\ LET old == file[name[p]].data
     IN  \E v \in Versions(name[p]) :
           /\ Len(old) <= Len(v.data) /\ SubSeq(v.data, 1, Len(old)) = old
           /\ Becomes(p, name[p], v)
  /\ UNCHANGED <<name, known, callVars>>

\* The garbage collector; who has the file open keeps it.
Collect(p) ==
  /\ name[p] # Nothing
  /\ name' = [name EXCEPT ![p] = Nothing]
  /\ UNCHANGED <<file, past, known, callVars>>

OfStep(g) == OpenFile(g) \/ Stat(g) \/ Recall(g) \/ ReadFull(g) \/ Remember(g) \/ Reply(g)

StoreStep(p) == Create(p) \/ Extend(p) \/ Collect(p)

IdentNext == (\E g \in Askers : OfStep(g)) \/ \E p \in Paths : StoreStep(p)

IdentSpec == IdentInit /\ [][IdentNext]_identVars

----------------------------------------------------------------------------
(* Properties *)

\* The contents path p has had with stamp s.
ContentsWith(p, s) == {v.data : v \in {w \in past[p] : w.stamp = s}}

\* The identity that Of returns, from the memo or not, and what the file it opened began
\* with when its stamp was taken are both contents that this path has had with this very
\* inode, size and time: whatever was collected, built again or remembered by another
\* goroutine in between.  They are the same content unless a path was built twice with the
\* same stamp, which (inode, size, mtime) cannot tell apart.
IdentityIsContent ==
  \A g \in Askers :
    ipc[g] = "answered" /\ id[g] # Nothing
      => /\ stamp[g].size <= Len(file[fd[g]].data)
         /\ {id[g], SubSeq(file[fd[g]].data, 1, stamp[g].size)} \subseteq ContentsWith(asked[g], stamp[g])
=============================================================================
