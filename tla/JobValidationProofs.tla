------------------------ MODULE JobValidationProofs ------------------------
(***************************************************************************)
(* Proofs about JobValidation, for all jobs, users, manifests, whitelists  *)
(* and any number of administrators and requests.                           *)
(***************************************************************************)
EXTENDS JobValidationProperties, SequenceTheorems, TLAPS

-----------------------------------------------------------------------------
(* The administrators                                                      *)

\* What a request of an administrator has still to do.
RequestOK(r) ==
  /\ admin[r].at \in {"idle", "open", "write", "scan", "read", "apps", "manifests"}
  /\ admin[r].at = "idle" => admin[r] = Idle
  /\ admin[r].at = "write" =>
       /\ DOMAIN admin[r] = {"at", "left", "line", "live"}
       /\ admin[r].left \subseteq DOMAIN Patterns
       /\ admin[r].line \in 1..(Len(file) + 1)
  /\ admin[r].at = "read" =>
       /\ DOMAIN admin[r] = {"at", "lines", "line"}
       /\ admin[r].lines \in Seq(DOMAIN Patterns) /\ admin[r].line \in Nat \ {0}
  /\ admin[r].at = "apps" =>
       DOMAIN admin[r] = {"at", "left"} /\ admin[r].left \subseteq Loaded
  /\ admin[r].at = "manifests" =>
       DOMAIN admin[r] = {"at", "left"} /\ admin[r].left \subseteq DOMAIN Manifests

\* What the maps and the file hold.
ListsOK ==
  /\ plugins \subseteq DOMAIN ECR /\ nodes \subseteq DOMAIN Manifests
  /\ whitelist \subseteq DOMAIN Patterns /\ file \in Seq(DOMAIN Patterns)
  /\ alone \in BOOLEAN
  /\ changes \in Seq(AdminOps) /\ Len(changes) <= MaxChanges
  /\ DOMAIN admin = Admins /\ \A r \in Admins : RequestOK(r)

\* The manifests of nodes are complete until an administrator reloads them.
NodesComplete ==
  "database" \notin Range(changes) =>
    /\ nodes = DOMAIN Manifests
    /\ \A r \in Admins : admin[r].at \notin {"apps", "manifests"}

\* When the last request for the whitelist found no other, it is the only one.
\* While it writes, the lines written so far are the patterns that are not left,
\* and while it reads, what was read is in the file.
Written(r) ==
  /\ admin[r].at = "write" =>
       \A p \in whitelist \ admin[r].left : \E i \in 1..(admin[r].line - 1) : file[i] = p
  /\ admin[r].at = "scan" => whitelist = {}
  /\ admin[r].at = "read" => whitelist \subseteq Range(file) /\ admin[r].lines = file

Saved ==
  alone => /\ \A r, s \in OnWhitelist : r = s
           /\ OnWhitelist = {} => whitelist \subseteq Range(file)
           /\ \A r \in Admins : Written(r)

AdminInv == ListsOK /\ NodesComplete /\ Saved

(* Writing a line of the file replaces that line or is the file's last one: the
   lines before it stay, and the file never gets shorter. *)
LEMMA LineFacts ==
  ASSUME file \in Seq(DOMAIN Patterns), NEW p \in DOMAIN Patterns,
         NEW k \in 1..(Len(file) + 1)
  PROVE  /\ LineWritten(k, p) \in Seq(DOMAIN Patterns)
         /\ k <= Len(LineWritten(k, p)) /\ Len(LineWritten(k, p)) \in Nat
         /\ LineWritten(k, p)[k] = p
         /\ \A i \in 1..(k - 1) : LineWritten(k, p)[i] = file[i]
         /\ Len(LineWritten(k, p)) >= Len(file)
<1> DEFINE f == LineWritten(k, p)
<1>1. Len(file) \in Nat
  BY LenProperties
<1>2. CASE k <= Len(file)
  <2>1. k \in 1..Len(file)
    BY <1>1, <1>2
  <2>2. f = [file EXCEPT ![k] = p]
    BY <1>2 DEF LineWritten
  <2> HIDE DEF f
  <2>3. /\ f \in Seq(DOMAIN Patterns) /\ Len(f) = Len(file)
        /\ \A i \in 1..Len(file) : f[i] = IF i = k THEN p ELSE file[i]
    BY <2>1, <2>2, ExceptSeq
  <2>4. /\ f \in Seq(DOMAIN Patterns) /\ k <= Len(f) /\ Len(f) \in Nat /\ f[k] = p
        /\ \A i \in 1..(k - 1) : f[i] = file[i]
        /\ Len(f) >= Len(file)
    BY <1>1, <2>1, <2>3
  <2> QED  BY <2>4 DEF f
<1>3. CASE k = Len(file) + 1
  <2>1. f = Append(file, p)
    BY <1>1, <1>3 DEF LineWritten
  <2> DEFINE S == DOMAIN Patterns
  <2>2. file \in Seq(S) /\ p \in S
    OBVIOUS
  <2> HIDE DEF S, f
  <2>3. /\ Append(file, p) \in Seq(S) /\ Len(Append(file, p)) = Len(file) + 1
        /\ \A i \in 1..Len(file) : Append(file, p)[i] = file[i]
        /\ Append(file, p)[Len(file) + 1] = p
    BY <2>2, AppendProperties
  <2>4. f \in Seq(DOMAIN Patterns)
    BY <2>1, <2>3 DEF S
  <2>5. Len(f) = k /\ f[k] = p /\ \A i \in 1..(k - 1) : f[i] = file[i]
    BY <1>1, <1>3, <2>1, <2>3
  <2>6. k <= Len(f) /\ Len(f) \in Nat /\ Len(f) >= Len(file)
    BY <1>1, <1>3, <2>5
  <2> QED  BY <2>4, <2>5, <2>6 DEF f
<1> QED  BY <1>1, <1>2, <1>3

\* A request is noted.
LEMMA NotedFacts ==
  ASSUME ListsOK, NEW op \in AdminOps, Len(changes) < MaxChanges, changes' = Append(changes, op)
  PROVE  /\ changes' \in Seq(AdminOps) /\ Len(changes') <= MaxChanges
         /\ Range(changes') = Range(changes) \cup {op}
<1>1. changes \in Seq(AdminOps) /\ Len(changes) \in Nat
  BY LenProperties DEF ListsOK
<1>2. /\ changes' \in Seq(AdminOps) /\ Len(changes') = Len(changes) + 1
      /\ \A i \in 1..Len(changes) : changes'[i] = changes[i]
      /\ changes'[Len(changes) + 1] = op
  BY <1>1, AppendProperties
<1>3. DOMAIN changes = 1..Len(changes) /\ DOMAIN changes' = 1..(Len(changes) + 1)
  BY <1>1, <1>2, LenProperties
<1>4. Range(changes') = Range(changes) \cup {op}
  BY <1>1, <1>2, <1>3 DEF Range
<1> QED  BY <1>1, <1>2, <1>4, ValidationAssumption

\* A request of another is left alone, but for the entries that it ranges over
\* and for the map.
Kept(s) ==
  \/ admin'[s] = admin[s]
  \/ /\ admin[s].at = "write" /\ admin'[s].at = "write"
     /\ DOMAIN admin'[s] = DOMAIN admin[s]
     /\ admin'[s].left \subseteq DOMAIN Patterns /\ admin'[s].line = admin[s].line

\* It stays what it is.
LEMMA KeptFacts ==
  ASSUME NEW s \in Admins, RequestOK(s), Kept(s), file \in Seq(DOMAIN Patterns),
         file' \in Seq(DOMAIN Patterns), Len(file') >= Len(file)
  PROVE  RequestOK(s)' /\ admin'[s].at = admin[s].at
<1>1. Len(file) \in Nat /\ Len(file') \in Nat
  BY LenProperties
<1>2. ASSUME NEW k \in 1..(Len(file) + 1) PROVE k \in 1..(Len(file') + 1)
  BY <1>1
<1> QED  BY <1>2 DEF RequestOK, Kept

\* A request for the whitelist begins: it is the only one if it finds no other.
LEMMA AdminBegins ==
  ASSUME AdminInv, NEW r \in Admins, NEW op \in {"add", "remove", "reload"},
         WhitelistRequested(r, op), UNCHANGED <<plugins, nodes, file>>,
         whitelist' \subseteq DOMAIN Patterns, DOMAIN admin' = Admins,
         \A s \in Admins \ {r} : Kept(s),
         \/ admin'[r] = [at |-> "open"]
         \/ admin'[r] = [at |-> "scan"] /\ whitelist' = {}
  PROVE  AdminInv'
<1>1. /\ op \in AdminOps /\ admin[r] = Idle /\ Len(changes) < MaxChanges
      /\ changes' = Append(changes, op) /\ alone' = (OnWhitelist = {})
  BY DEF WhitelistRequested, Requested
<1>2. /\ changes' \in Seq(AdminOps) /\ Len(changes') <= MaxChanges
      /\ "database" \in Range(changes) <=> "database" \in Range(changes')
  BY <1>1, NotedFacts DEF AdminInv
<1>3. ASSUME NEW s \in Admins \ {r} PROVE RequestOK(s)' /\ admin'[s].at = admin[s].at
  <2>1. RequestOK(s) /\ Kept(s) /\ file \in Seq(DOMAIN Patterns) /\ file' = file
    BY DEF AdminInv, ListsOK
  <2>2. Len(file) \in Nat
    BY <2>1, LenProperties
  <2> QED  BY <2>1, <2>2, KeptFacts
<1>4. RequestOK(r)' /\ admin'[r].at \in {"open", "scan"} /\ admin[r].at = "idle"
  BY <1>1 DEF RequestOK, Idle
<1>5. ListsOK'
  BY <1>1, <1>2, <1>3, <1>4 DEF AdminInv, ListsOK
<1>6. NodesComplete'
  BY <1>2, <1>3, <1>4 DEF AdminInv, NodesComplete
<1>7. Saved'
  <2> SUFFICES ASSUME OnWhitelist = {} PROVE Saved'
    BY <1>1 DEF Saved
  <2>1. OnWhitelist' = {r}
    BY <1>3, <1>4 DEF OnWhitelist
  <2>2. ASSUME NEW s \in Admins PROVE Written(s)'
    <3>1. CASE s = r
      BY <1>4, <3>1 DEF Written
    <3>2. CASE s # r
      BY <1>3, <3>2 DEF OnWhitelist, Written
    <3> QED  BY <3>1, <3>2
  <2> QED  BY <2>1, <2>2 DEF Saved
<1> QED  BY <1>5, <1>6, <1>7 DEF AdminInv

\* A pattern is added or removed, and the file is to be written.
LEMMA AdminChangesList ==
  ASSUME AdminInv, NEW r \in Admins, NEW p \in DOMAIN Patterns,
         AddPluginWhitelist(r, p) \/ RemovePluginWhitelist(r, p)
  PROVE  AdminInv'
<1>1. \A s \in Admins : RequestOK(s)
  BY DEF AdminInv, ListsOK
<1>2. \A s \in Admins : s \in Ranging => admin[s].at = "write"
  BY DEF Ranging
<1>3. whitelist \subseteq DOMAIN Patterns
  BY DEF AdminInv, ListsOK
<1>4. CASE AddPluginWhitelist(r, p)
  <2>1. /\ WhitelistRequested(r, "add") /\ Entered(r, p, [at |-> "open"])
        /\ UNCHANGED <<plugins, nodes, file>>
    BY <1>4 DEF AddPluginWhitelist
  <2>2. PICK S \in SUBSET Ranging :
          admin' = [s \in Admins |-> IF s = r THEN [at |-> "open"]
                                     ELSE IF s \in S THEN [admin[s] EXCEPT !.left = @ \cup {p}]
                                     ELSE admin[s]]
    BY <2>1 DEF Entered
  <2>3. ASSUME NEW s \in Admins \ {r} PROVE Kept(s)
    BY <1>1, <1>2, <2>2 DEF Kept, RequestOK
  <2>4. whitelist' \subseteq DOMAIN Patterns
    BY <1>3, <2>1 DEF Entered
  <2>5. DOMAIN admin' = Admins /\ admin'[r] = [at |-> "open"]
    BY <2>2
  <2> QED  BY <2>1, <2>3, <2>4, <2>5, AdminBegins
<1>5. CASE RemovePluginWhitelist(r, p)
  <2>1. /\ WhitelistRequested(r, "remove") /\ whitelist' = whitelist \ {p}
        /\ UNCHANGED <<plugins, nodes, file>>
    BY <1>5 DEF RemovePluginWhitelist
  <2>2. PICK S \in SUBSET Ranging :
          admin' = [s \in Admins |-> IF s = r THEN [at |-> "open"]
                                     ELSE IF s \in S THEN [admin[s] EXCEPT !.left = @ \ {p}]
                                     ELSE admin[s]]
    BY <1>5 DEF RemovePluginWhitelist
  <2>3. ASSUME NEW s \in Admins \ {r} PROVE Kept(s)
    BY <1>1, <1>2, <2>2 DEF Kept, RequestOK
  <2>4. DOMAIN admin' = Admins /\ admin'[r] = [at |-> "open"]
    BY <2>2
  <2> QED  BY <1>3, <2>1, <2>3, <2>4, AdminBegins
<1> QED  BY <1>4, <1>5

\* The whitelist gets a new map, and the file is to be read.
LEMMA AdminReload ==
  ASSUME AdminInv, NEW r \in Admins, LoadPluginWhitelist(r)
  PROVE  AdminInv'
<1>1. /\ WhitelistRequested(r, "reload") /\ whitelist' = {}
      /\ UNCHANGED <<plugins, nodes, file>>
      /\ admin' = [s \in Admins |-> IF s = r THEN [at |-> "scan"]
                                    ELSE IF s \in Ranging THEN [admin[s] EXCEPT !.live = FALSE]
                                    ELSE admin[s]]
  BY DEF LoadPluginWhitelist
<1>2. ASSUME NEW s \in Admins \ {r} PROVE Kept(s)
  <2>1. RequestOK(s) /\ (s \in Ranging => admin[s].at = "write")
    BY DEF AdminInv, ListsOK, Ranging
  <2> QED  BY <1>1, <2>1 DEF Kept, RequestOK
<1>3. DOMAIN admin' = Admins /\ admin'[r] = [at |-> "scan"]
  BY <1>1
<1> QED  BY <1>1, <1>2, <1>3, AdminBegins

\* A request for the whitelist goes on.  What is left to prove is what it does
\* when it is the only one.
LEMMA AdminContinues ==
  ASSUME AdminInv, NEW r \in OnWhitelist,
         UNCHANGED <<plugins, nodes, alone, changes>>, DOMAIN admin' = Admins,
         whitelist' \subseteq DOMAIN Patterns,
         file' \in Seq(DOMAIN Patterns), Len(file') >= Len(file),
         \A s \in Admins \ {r} : Kept(s), RequestOK(r)',
         admin'[r].at \in {"idle", "write", "read"},
         alone /\ Written(r) =>
           Written(r)' /\ (admin'[r].at = "idle" => whitelist' \subseteq Range(file'))
  PROVE  AdminInv'
<1>1. r \in Admins /\ admin[r].at \in {"open", "write", "scan", "read"}
  BY DEF OnWhitelist
<1>2. ASSUME NEW s \in Admins \ {r} PROVE RequestOK(s)' /\ admin'[s].at = admin[s].at
  <2>1. RequestOK(s) /\ Kept(s) /\ file \in Seq(DOMAIN Patterns)
    BY DEF AdminInv, ListsOK
  <2> QED  BY <2>1, KeptFacts
<1>3. ListsOK'
  BY <1>2 DEF AdminInv, ListsOK
<1>4. NodesComplete'
  BY <1>2 DEF AdminInv, NodesComplete
<1>5. Saved'
  <2> SUFFICES ASSUME alone PROVE Saved'
    BY DEF Saved
  <2>1. /\ \A s \in OnWhitelist : s = r
        /\ Written(r)
    BY <1>1 DEF AdminInv, Saved
  <2>2. ASSUME NEW s \in Admins \ {r}
        PROVE  admin'[s].at \notin {"open", "write", "scan", "read"}
    BY <1>2, <2>1 DEF OnWhitelist
  <2>3. \A s \in OnWhitelist' : s = r
    BY <2>2 DEF OnWhitelist
  <2>4. OnWhitelist' = {} => admin'[r].at = "idle"
    BY <1>1 DEF OnWhitelist
  <2>5. \A s \in Admins : Written(s)'
    BY <2>1, <2>2 DEF Written
  <2> QED  BY <2>1, <2>3, <2>4, <2>5 DEF Saved
<1> QED  BY <1>3, <1>4, <1>5 DEF AdminInv

\* What a request finds that goes on.
LEMMA ContinuesFacts ==
  ASSUME AdminInv, NEW r \in Admins, admin[r].at \in {"open", "write", "scan", "read"}
  PROVE  /\ r \in OnWhitelist /\ RequestOK(r) /\ DOMAIN admin = Admins
         /\ whitelist \subseteq DOMAIN Patterns
         /\ file \in Seq(DOMAIN Patterns) /\ Len(file) \in Nat /\ DOMAIN file = 1..Len(file)
         /\ \A a : admin' = [admin EXCEPT ![r] = a] =>
              /\ DOMAIN admin' = Admins /\ admin'[r] = a
              /\ \A s \in Admins \ {r} : Kept(s)
<1>1. /\ r \in OnWhitelist /\ RequestOK(r) /\ DOMAIN admin = Admins
      /\ whitelist \subseteq DOMAIN Patterns /\ file \in Seq(DOMAIN Patterns)
  BY DEF AdminInv, ListsOK, OnWhitelist
<1>2. Len(file) \in Nat /\ DOMAIN file = 1..Len(file)
  BY <1>1, LenProperties
<1>3. \A a : admin' = [admin EXCEPT ![r] = a] =>
        /\ DOMAIN admin' = Admins /\ admin'[r] = a
        /\ \A s \in Admins \ {r} : Kept(s)
  BY <1>1 DEF Kept
<1> QED  BY <1>1, <1>2, <1>3

\* The file is opened.
LEMMA AdminOpens ==
  ASSUME AdminInv, NEW r \in Admins, WritePluginWhitelist(r) \/ ScanFile(r)
  PROVE  AdminInv'
<1>1. /\ admin[r].at \in {"open", "scan"}
      /\ UNCHANGED <<plugins, nodes, whitelist, file, alone, changes>>
  BY DEF WritePluginWhitelist, ScanFile, listVars
<1>2. /\ r \in OnWhitelist /\ RequestOK(r) /\ DOMAIN admin = Admins
      /\ whitelist \subseteq DOMAIN Patterns
      /\ file \in Seq(DOMAIN Patterns) /\ Len(file) \in Nat
  BY <1>1, ContinuesFacts
<1>3. CASE WritePluginWhitelist(r)
  <2> DEFINE a == [at |-> "write", left |-> whitelist, line |-> 1, live |-> TRUE]
  <2>1. admin' = [admin EXCEPT ![r] = a]
    BY <1>3 DEF WritePluginWhitelist
  <2>2. DOMAIN admin' = Admins /\ admin'[r] = a /\ \A s \in Admins \ {r} : Kept(s)
    BY <1>1, <2>1, ContinuesFacts
  <2>3. /\ admin'[r].at = "write" /\ DOMAIN admin'[r] = {"at", "left", "line", "live"}
        /\ admin'[r].left = whitelist /\ admin'[r].line = 1
    BY <2>2
  <2>4. RequestOK(r)' /\ Written(r)'
    BY <1>1, <1>2, <2>3 DEF RequestOK, Written
  <2> QED  BY <1>1, <1>2, <2>2, <2>3, <2>4, AdminContinues
<1>4. CASE ScanFile(r)
  <2> DEFINE a == [at |-> "read", lines |-> file, line |-> 1]
  <2>1. admin' = [admin EXCEPT ![r] = a] /\ admin[r].at = "scan"
    BY <1>4 DEF ScanFile
  <2>2. DOMAIN admin' = Admins /\ admin'[r] = a /\ \A s \in Admins \ {r} : Kept(s)
    BY <1>1, <2>1, ContinuesFacts
  <2>3. /\ admin'[r].at = "read" /\ DOMAIN admin'[r] = {"at", "lines", "line"}
        /\ admin'[r].lines = file /\ admin'[r].line = 1
    BY <2>2
  <2>4. RequestOK(r)' /\ (Written(r) => Written(r)')
    BY <1>1, <1>2, <2>1, <2>3 DEF RequestOK, Written
  <2> QED  BY <1>1, <1>2, <2>2, <2>3, <2>4, AdminContinues
<1> QED  BY <1>3, <1>4

\* One line is written: the patterns of earlier lines stay.
LEMMA AdminWriteLine ==
  ASSUME AdminInv, NEW r \in Admins, NEW p \in DOMAIN Patterns, WriteLine(r, p)
  PROVE  AdminInv'
<1> DEFINE k == admin[r].line
           a == IF admin[r].left = {p} THEN Idle
                ELSE [admin[r] EXCEPT !.left = @ \ {p}, !.line = @ + 1]
<1>1. /\ admin[r].at = "write" /\ p \in admin[r].left
      /\ file' = LineWritten(k, p) /\ admin' = [admin EXCEPT ![r] = a]
      /\ UNCHANGED <<plugins, nodes, whitelist, alone, changes>>
  BY DEF WriteLine
<1>2. /\ r \in OnWhitelist /\ RequestOK(r) /\ DOMAIN admin = Admins
      /\ whitelist \subseteq DOMAIN Patterns
      /\ file \in Seq(DOMAIN Patterns) /\ Len(file) \in Nat
      /\ DOMAIN admin' = Admins /\ admin'[r] = a /\ \A s \in Admins \ {r} : Kept(s)
  BY <1>1, ContinuesFacts
<1>3. /\ k \in 1..(Len(file) + 1) /\ DOMAIN admin[r] = {"at", "left", "line", "live"}
      /\ admin[r].left \subseteq DOMAIN Patterns /\ k \in Nat
  BY <1>1, <1>2 DEF RequestOK
<1>4. a = Idle \/ (/\ a.at = "write" /\ DOMAIN a = {"at", "left", "line", "live"}
                   /\ a.left = admin[r].left \ {p} /\ a.line = k + 1)
  BY <1>1, <1>3
<1>5. admin[r].left = {p} <=> a = Idle
  <2>1. admin[r].left # {p} => a.at = "write"
    BY <1>1, <1>3
  <2> QED  BY <2>1 DEF Idle
<1> HIDE DEF k, a
<1>6. /\ file' \in Seq(DOMAIN Patterns)
      /\ k <= Len(file') /\ Len(file') \in Nat /\ file'[k] = p
      /\ \A i \in 1..(k - 1) : file'[i] = file[i]
      /\ Len(file') >= Len(file)
  <2>1. file \in Seq(DOMAIN Patterns) /\ k \in 1..(Len(file) + 1)
    BY <1>2, <1>3
  <2>2. /\ LineWritten(k, p) \in Seq(DOMAIN Patterns)
        /\ k <= Len(LineWritten(k, p)) /\ Len(LineWritten(k, p)) \in Nat
        /\ LineWritten(k, p)[k] = p
        /\ \A i \in 1..(k - 1) : LineWritten(k, p)[i] = file[i]
        /\ Len(LineWritten(k, p)) >= Len(file)
    BY <2>1, LineFacts
  <2> QED  BY <1>1, <2>2
<1>7. RequestOK(r)' /\ admin'[r].at \in {"idle", "write"}
  <2>1. CASE a = Idle
    BY <1>2, <2>1 DEF RequestOK, Idle
  <2>2. CASE a # Idle
    <3>1. k + 1 \in 1..(Len(file') + 1)
      BY <1>3, <1>6
    <3> QED  BY <1>2, <1>3, <1>4, <2>2, <3>1 DEF RequestOK
  <2> QED  BY <2>1, <2>2
<1>8. ASSUME Written(r)
      PROVE  Written(r)' /\ (admin'[r].at = "idle" => whitelist' \subseteq Range(file'))
  <2>1. \A q \in whitelist \ admin[r].left : \E i \in 1..(k - 1) : file[i] = q
    BY <1>1, <1>8 DEF Written, k
  <2>2. ASSUME NEW q \in whitelist \ (admin[r].left \ {p})
        PROVE  \E i \in 1..k : file'[i] = q
    <3>1. CASE q = p
      BY <1>3, <1>6, <3>1
    <3>2. CASE q # p
      <4>1. PICK i \in 1..(k - 1) : file[i] = q
        BY <2>1, <3>2
      <4>2. i \in 1..k /\ file'[i] = q
        BY <1>3, <1>6, <4>1
      <4> QED  BY <4>2
    <3> QED  BY <3>1, <3>2
  <2>3. CASE a = Idle
    <3>1. admin'[r].at = "idle" /\ Written(r)'
      BY <1>2, <2>3 DEF Idle, Written
    <3>2. DOMAIN file' = 1..Len(file') /\ 1..k \subseteq 1..Len(file')
      BY <1>3, <1>6, LenProperties
    <3>3. whitelist \subseteq Range(file')
      BY <1>5, <2>2, <2>3, <3>2 DEF Range
    <3> QED  BY <1>1, <3>1, <3>3
  <2>4. CASE a # Idle
    <3>1. k + 1 - 1 = k
      BY <1>3
    <3>2. /\ a.at = "write" /\ a.left = admin[r].left \ {p} /\ a.line = k + 1
      BY <1>4, <2>4
    <3>3. whitelist' = whitelist /\ admin'[r] = a
      BY <1>1, <1>2
    <3>4. /\ admin'[r].at = "write" /\ admin'[r].left = admin[r].left \ {p}
          /\ admin'[r].line - 1 = k
      BY <1>3, <3>1, <3>2, <3>3
    <3>5. Written(r)'
      BY <2>2, <3>3, <3>4 DEF Written
    <3> QED  BY <3>4, <3>5
  <2> QED  BY <2>3, <2>4
<1> QED  BY <1>1, <1>2, <1>6, <1>7, <1>8, AdminContinues

\* A whitelist without patterns writes nothing.
LEMMA AdminWriteNothing ==
  ASSUME AdminInv, NEW r \in Admins, WriteNothing(r)
  PROVE  AdminInv'
<1>1. /\ admin[r].at = "write" /\ admin[r].left = {} /\ admin' = [admin EXCEPT ![r] = Idle]
      /\ UNCHANGED <<plugins, nodes, whitelist, file, alone, changes>>
  BY DEF WriteNothing, listVars
<1>2. /\ r \in OnWhitelist /\ RequestOK(r) /\ whitelist \subseteq DOMAIN Patterns
      /\ file \in Seq(DOMAIN Patterns) /\ Len(file) \in Nat /\ DOMAIN file = 1..Len(file)
      /\ DOMAIN admin' = Admins /\ admin'[r] = Idle /\ \A s \in Admins \ {r} : Kept(s)
  BY <1>1, ContinuesFacts
<1>3. RequestOK(r)' /\ Written(r)' /\ admin'[r].at = "idle"
  BY <1>2 DEF RequestOK, Written, Idle
<1>4. Written(r) => whitelist \subseteq Range(file)
  <2>1. admin[r].line \in 1..(Len(file) + 1)
    BY <1>1, <1>2 DEF RequestOK
  <2>2. \A i \in 1..(admin[r].line - 1) : i \in DOMAIN file
    BY <1>2, <2>1
  <2> QED  BY <1>1, <2>2 DEF Written, Range
<1> QED  BY <1>1, <1>2, <1>3, <1>4, AdminContinues

\* One line is read.
LEMMA AdminReadLine ==
  ASSUME AdminInv, NEW r \in Admins, ReadLine(r)
  PROVE  AdminInv'
<1> DEFINE lines == admin[r].lines
           k     == admin[r].line
<1>1. /\ admin[r].at = "read" /\ UNCHANGED <<plugins, nodes, file, alone, changes>>
  BY DEF ReadLine
<1>2. /\ r \in OnWhitelist /\ RequestOK(r) /\ DOMAIN admin = Admins
      /\ whitelist \subseteq DOMAIN Patterns
      /\ file \in Seq(DOMAIN Patterns) /\ Len(file) \in Nat /\ DOMAIN file = 1..Len(file)
  BY <1>1, ContinuesFacts
<1>3. /\ DOMAIN admin[r] = {"at", "lines", "line"} /\ lines \in Seq(DOMAIN Patterns)
      /\ k \in Nat \ {0} /\ Len(lines) \in Nat
  BY <1>1, <1>2, LenProperties DEF RequestOK
<1>4. CASE k <= Len(lines)
  <2> DEFINE a == [admin[r] EXCEPT !.line = @ + 1]
             p == lines[k]
  <2>1. PICK S \in SUBSET Ranging :
          /\ whitelist' = whitelist \cup {p}
          /\ admin' = [s \in Admins |-> IF s = r THEN a
                                        ELSE IF s \in S THEN [admin[s] EXCEPT !.left = @ \cup {p}]
                                        ELSE admin[s]]
    BY <1>4 DEF ReadLine, Entered
  <2>2. k \in 1..Len(lines) /\ p \in DOMAIN Patterns
    <3>1. k \in 1..Len(lines)
      BY <1>3, <1>4
    <3> QED  BY <1>3, <3>1, ElementOfSeq
  <2>3. /\ a.at = "read" /\ DOMAIN a = {"at", "lines", "line"}
        /\ a.lines = lines /\ a.line = k + 1
    BY <1>1, <1>3
  <2> HIDE DEF lines, k, a
  <2>4. ASSUME NEW s \in Admins \ {r} PROVE Kept(s)
    <3>1. s \in S => admin[s].at = "write"
      BY DEF Ranging
    <3>2. RequestOK(s)
      BY DEF AdminInv, ListsOK
    <3> HIDE DEF p
    <3> QED  BY <2>1, <2>2, <3>1, <3>2 DEF Kept, RequestOK
  <2>5. DOMAIN admin' = Admins /\ admin'[r] = a
    BY <2>1 DEF OnWhitelist
  <2>6. RequestOK(r)'
    BY <1>3, <2>3, <2>5 DEF RequestOK
  <2>7. ASSUME Written(r) PROVE Written(r)'
    <3>1. whitelist \subseteq Range(file) /\ lines = file
      BY <1>1, <2>7 DEF Written, lines
    <3>2. p \in Range(file)
      BY <1>2, <2>2, <3>1 DEF Range
    <3> QED  BY <1>1, <2>1, <2>3, <2>5, <3>1, <3>2 DEF Written
  <2>8. whitelist' \subseteq DOMAIN Patterns
    BY <1>2, <2>1, <2>2
  <2> QED  BY <1>1, <1>2, <2>3, <2>4, <2>5, <2>6, <2>7, <2>8, AdminContinues
<1>5. CASE ~ (k <= Len(lines))
  <2>1. whitelist' = whitelist /\ admin' = [admin EXCEPT ![r] = Idle]
    BY <1>5 DEF ReadLine
  <2>2. DOMAIN admin' = Admins /\ admin'[r] = Idle /\ \A s \in Admins \ {r} : Kept(s)
    BY <1>1, <2>1, ContinuesFacts
  <2>3. RequestOK(r)' /\ Written(r)' /\ admin'[r].at = "idle"
    BY <2>2 DEF RequestOK, Written, Idle
  <2>4. Written(r) => whitelist \subseteq Range(file)
    BY <1>1 DEF Written
  <2> QED  BY <1>1, <1>2, <2>1, <2>2, <2>3, <2>4, AdminContinues
<1> QED  BY <1>4, <1>5

\* A request for the manifests leaves the whitelist alone.
LEMMA AdminAside ==
  ASSUME AdminInv, NEW r \in Admins, admin[r].at \in {"idle", "apps", "manifests"},
         admin'[r].at \in {"idle", "apps", "manifests"}, DOMAIN admin' = Admins,
         \A s \in Admins \ {r} : admin'[s] = admin[s], UNCHANGED <<whitelist, file, alone>>
  PROVE  Saved' /\ \A s \in Admins \ {r} : RequestOK(s)'
<1>1. OnWhitelist' = OnWhitelist
  BY DEF OnWhitelist
<1>2. \A s \in Admins : Written(s) => Written(s)'
  BY DEF Written
<1>3. \A s \in Admins \ {r} : RequestOK(s)'
  BY DEF AdminInv, ListsOK, RequestOK
<1>4. Saved'
  BY <1>1, <1>2 DEF AdminInv, Saved
<1> QED  BY <1>3, <1>4

\* The manifests are emptied and filled.
LEMMA AdminLoad ==
  ASSUME AdminInv, NEW r \in Admins,
         \/ LoadDatabase(r) \/ LoadNodes(r) \/ LoadFails(r)
         \/ \E p \in Loaded : LoadApp(r, p)
         \/ \E n \in DOMAIN Manifests : LoadNode(r, n)
  PROVE  AdminInv'
<1>1. PICK a :
        /\ admin' = [admin EXCEPT ![r] = a] /\ UNCHANGED <<whitelist, file, alone>>
        /\ plugins' \subseteq DOMAIN ECR /\ nodes' \subseteq DOMAIN Manifests
        /\ admin[r].at \in {"idle", "apps", "manifests"}
        /\ \/ a = Idle
           \/ a.at = "apps" /\ DOMAIN a = {"at", "left"} /\ a.left \subseteq Loaded
           \/ /\ a.at = "manifests" /\ DOMAIN a = {"at", "left"}
              /\ a.left \subseteq DOMAIN Manifests
        /\ \/ LoadDatabase(r)
           \/ admin[r].at \in {"apps", "manifests"} /\ UNCHANGED changes
  <2>1. RequestOK(r) /\ plugins \subseteq DOMAIN ECR /\ nodes \subseteq DOMAIN Manifests
    BY DEF AdminInv, ListsOK
  <2>2. CASE LoadDatabase(r)
    <3> DEFINE a == [at |-> "apps", left |-> Loaded]
    <3>1. /\ admin' = [admin EXCEPT ![r] = a] /\ UNCHANGED <<whitelist, file, alone, nodes>>
          /\ plugins' = {} /\ admin[r].at = "idle"
      BY <2>2 DEF LoadDatabase, Requested, listVars, Idle
    <3>2. a.at = "apps" /\ DOMAIN a = {"at", "left"} /\ a.left = Loaded
      OBVIOUS
    <3> HIDE DEF a
    <3> QED  BY <2>1, <2>2, <3>1, <3>2
  <2>3. CASE LoadNodes(r)
    <3> DEFINE a == [at |-> "manifests", left |-> DOMAIN Manifests]
    <3>1. /\ admin' = [admin EXCEPT ![r] = a]
          /\ UNCHANGED <<whitelist, file, alone, plugins, changes>>
          /\ nodes' = {} /\ admin[r].at = "apps"
      BY <2>3 DEF LoadNodes, listVars
    <3>2. a.at = "manifests" /\ DOMAIN a = {"at", "left"} /\ a.left = DOMAIN Manifests
      OBVIOUS
    <3> HIDE DEF a
    <3> QED  BY <2>1, <3>1, <3>2
  <2>4. CASE LoadFails(r)
    <3>1. /\ admin' = [admin EXCEPT ![r] = Idle]
          /\ UNCHANGED <<whitelist, file, alone, plugins, nodes, changes>>
          /\ admin[r].at \in {"apps", "manifests"}
      BY <2>4 DEF LoadFails, listVars
    <3> QED  BY <2>1, <3>1
  <2>5. ASSUME NEW p \in Loaded, LoadApp(r, p)
        PROVE  \E a : /\ admin' = [admin EXCEPT ![r] = a]
                      /\ a.at = "apps" /\ DOMAIN a = {"at", "left"} /\ a.left \subseteq Loaded
                      /\ admin[r].at = "apps" /\ plugins' \subseteq DOMAIN ECR
                      /\ UNCHANGED <<whitelist, file, alone, nodes, changes>>
    <3> DEFINE a == [admin[r] EXCEPT !.left = @ \ {p}]
    <3>1. /\ admin' = [admin EXCEPT ![r] = a] /\ admin[r].at = "apps"
          /\ plugins' = plugins \cup {p}
          /\ UNCHANGED <<whitelist, file, alone, nodes, changes>>
      BY <2>5 DEF LoadApp, listVars
    <3>2. a.at = "apps" /\ DOMAIN a = {"at", "left"} /\ a.left \subseteq Loaded
      BY <2>1, <3>1 DEF RequestOK
    <3> HIDE DEF a
    <3> QED  BY <2>1, <3>1, <3>2, ValidationAssumption
  <2>6. ASSUME NEW n \in DOMAIN Manifests, LoadNode(r, n)
        PROVE  \E a : /\ admin' = [admin EXCEPT ![r] = a]
                      /\ \/ a = Idle
                         \/ /\ a.at = "manifests" /\ DOMAIN a = {"at", "left"}
                            /\ a.left \subseteq DOMAIN Manifests
                      /\ admin[r].at = "manifests" /\ nodes' \subseteq DOMAIN Manifests
                      /\ UNCHANGED <<whitelist, file, alone, plugins, changes>>
    <3> DEFINE a == IF admin[r].left = {n} THEN Idle ELSE [admin[r] EXCEPT !.left = @ \ {n}]
    <3>1. /\ admin' = [admin EXCEPT ![r] = a] /\ admin[r].at = "manifests"
          /\ nodes' = nodes \cup {n}
          /\ UNCHANGED <<whitelist, file, alone, plugins, changes>>
      BY <2>6 DEF LoadNode, listVars
    <3>2. \/ a = Idle
          \/ a.at = "manifests" /\ DOMAIN a = {"at", "left"} /\ a.left \subseteq DOMAIN Manifests
      BY <2>1, <3>1 DEF RequestOK
    <3> HIDE DEF a
    <3> QED  BY <2>1, <3>1, <3>2
  <2> QED  BY <2>1, <2>2, <2>3, <2>4, <2>5, <2>6
<1>2. a.at \in {"idle", "apps", "manifests"}
  <2>1. Idle.at = "idle"
    BY DEF Idle
  <2> QED  BY <1>1, <2>1
<1>3. /\ Saved' /\ DOMAIN admin' = Admins /\ admin'[r] = a
      /\ \A s \in Admins \ {r} : admin'[s] = admin[s] /\ RequestOK(s)'
  <2>1. /\ DOMAIN admin' = Admins /\ admin'[r] = a
        /\ \A s \in Admins \ {r} : admin'[s] = admin[s]
    BY <1>1 DEF AdminInv, ListsOK
  <2>2. /\ admin'[r].at \in {"idle", "apps", "manifests"}
        /\ admin[r].at \in {"idle", "apps", "manifests"}
        /\ UNCHANGED <<whitelist, file, alone>>
    BY <1>1, <1>2, <2>1
  <2> QED  BY <2>1, <2>2, AdminAside
<1>4. RequestOK(r)'
  BY <1>1, <1>3 DEF RequestOK, Idle
<1>5. /\ changes' \in Seq(AdminOps) /\ Len(changes') <= MaxChanges
      /\ LoadDatabase(r) => "database" \in Range(changes')
  <2>1. CASE LoadDatabase(r)
    BY <2>1, NotedFacts DEF LoadDatabase, Requested, AdminInv
  <2>2. CASE ~ LoadDatabase(r)
    BY <1>1, <2>2 DEF AdminInv, ListsOK
  <2> QED  BY <2>1, <2>2
<1>6. ListsOK'
  BY <1>1, <1>3, <1>4, <1>5 DEF AdminInv, ListsOK
<1>7. NodesComplete'
  BY <1>1, <1>5 DEF AdminInv, NodesComplete
<1> QED  BY <1>3, <1>6, <1>7 DEF AdminInv

\* Every request of an administrator.
LEMMA AdminStep ==
  ASSUME AdminInv, Administer
  PROVE  AdminInv'
<1>1. PICK r \in Admins :
        \/ \E p \in DOMAIN Patterns :
             AddPluginWhitelist(r, p) \/ RemovePluginWhitelist(r, p) \/ WriteLine(r, p)
        \/ WritePluginWhitelist(r) \/ WriteNothing(r)
        \/ LoadPluginWhitelist(r) \/ ScanFile(r) \/ ReadLine(r)
        \/ LoadDatabase(r) \/ LoadNodes(r) \/ LoadFails(r)
        \/ \E p \in Loaded : LoadApp(r, p)
        \/ \E n \in DOMAIN Manifests : LoadNode(r, n)
  BY DEF Administer
<1>2. CASE LoadPluginWhitelist(r)
  BY <1>2, AdminReload
<1> QED  BY <1>1, <1>2, AdminChangesList, AdminOpens, AdminWriteLine, AdminWriteNothing,
            AdminReadLine, AdminLoad

\* A restart reads what the file holds.
LEMMA AdminRestart ==
  ASSUME AdminInv, Restart
  PROVE  AdminInv' /\ v' = Idle /\ Range(changes) \subseteq Range(changes')
<1>1. /\ "restart" \in AdminOps /\ Len(changes) < MaxChanges
      /\ changes' = Append(changes, "restart")
      /\ plugins' = Loaded /\ nodes' = DOMAIN Manifests
      /\ whitelist' = Range(file) /\ alone' = TRUE /\ v' = Idle /\ file' = file
      /\ admin' = [r \in Admins |-> Idle]
  BY DEF Restart
<1>2. /\ changes' \in Seq(AdminOps) /\ Len(changes') <= MaxChanges
      /\ Range(changes') = Range(changes) \cup {"restart"}
  BY <1>1, NotedFacts DEF AdminInv
<1>3. file \in Seq(DOMAIN Patterns) /\ DOMAIN file = 1..Len(file)
  BY LenProperties DEF AdminInv, ListsOK
<1>4. Range(file) \subseteq DOMAIN Patterns
  BY <1>3, ElementOfSeq DEF Range
<1>5. DOMAIN admin' = Admins /\ \A r \in Admins : admin'[r] = Idle /\ admin'[r].at = "idle"
  BY <1>1 DEF Idle
<1>6. \A r \in Admins : RequestOK(r)' /\ Written(r)'
  BY <1>5 DEF RequestOK, Written
<1>7. OnWhitelist' = {}
  BY <1>5 DEF OnWhitelist
<1>8. ListsOK' /\ NodesComplete' /\ Saved'
  BY <1>1, <1>2, <1>3, <1>4, <1>5, <1>6, <1>7, ValidationAssumption
  DEF ListsOK, NodesComplete, Saved
<1> QED  BY <1>1, <1>2, <1>8 DEF AdminInv

\* A validation adds to the images at most.
LEMMA AdminValidate ==
  ASSUME AdminInv, Validate
  PROVE  AdminInv' /\ UNCHANGED adminVars
<1>1. UNCHANGED adminVars
  BY DEF Validate, Begin, BeginNode, CheckPlugin, EndNode, Finish, Answer
<1>2. plugins' \subseteq DOMAIN ECR
  <2>1. CASE CheckPlugin
    BY <2>1 DEF CheckPlugin, AdminInv, ListsOK
  <2>2. CASE ~ CheckPlugin
    BY <2>2 DEF Validate, Begin, BeginNode, EndNode, Finish, Answer, AdminInv, ListsOK
  <2> QED  BY <2>1, <2>2
<1>3. ListsOK' /\ NodesComplete' /\ Saved'
  BY <1>1, <1>2 DEF adminVars, listVars, AdminInv, ListsOK, RequestOK, NodesComplete, Saved,
                    Written, OnWhitelist
<1> QED  BY <1>1, <1>3 DEF AdminInv

\* Nothing happens.
LEMMA AdminStutters ==
  ASSUME AdminInv, UNCHANGED vars
  PROVE  AdminInv'
BY DEF vars, adminVars, listVars, AdminInv, ListsOK, RequestOK, NodesComplete, Saved, Written,
       OnWhitelist

\* The initial states.
LEMMA AdminInit == ASSUME Init PROVE AdminInv
<1>1. file \in Seq(DOMAIN Patterns) /\ whitelist = Range(file)
  BY ValidationAssumption DEF Init
<1>2. DOMAIN file = 1..Len(file)
  BY <1>1, LenProperties
<1>3. whitelist \subseteq DOMAIN Patterns
  BY <1>1, <1>2, ElementOfSeq DEF Range
<1>4. changes \in Seq(AdminOps) /\ Len(changes) <= MaxChanges
  BY ValidationAssumption DEF Init
<1>5. DOMAIN admin = Admins /\ \A r \in Admins : admin[r] = Idle /\ admin[r].at = "idle"
  BY DEF Init, Idle
<1>6. \A r \in Admins : RequestOK(r) /\ Written(r)
  BY <1>5 DEF RequestOK, Written
<1>7. OnWhitelist = {}
  BY <1>5 DEF OnWhitelist
<1>8. ListsOK /\ NodesComplete /\ Saved
  BY <1>1, <1>3, <1>4, <1>5, <1>6, <1>7, ValidationAssumption
  DEF Init, ListsOK, NodesComplete, Saved
<1> QED  BY <1>8 DEF AdminInv

\* A restart finds every pattern that is in memory once a request for the whitelist
\* has run by itself, in whatever order it wrote a map of any size, over whatever
\* overlapping requests, in whatever number, and dying processes left in the file.
THEOREM WhitelistIsSavedHolds == Spec => []WhitelistIsSaved
<1>1. Init => AdminInv
  BY AdminInit
<1>2. AdminInv /\ [Next]_vars => AdminInv'
  BY AdminStep, AdminRestart, AdminValidate, AdminStutters DEF Next
<1>3. AdminInv => WhitelistIsSaved
  BY DEF AdminInv, Saved, WhitelistIsSaved
<1> QED  BY <1>1, <1>2, <1>3, PTL DEF Spec

-----------------------------------------------------------------------------
(* The validation                                                          *)

RulesOK(job) == \A i \in DOMAIN job.rules : RuleParses(job.rules[i])

\* The nodes of a goal hold the plugins of the job and may run them.
GoalOK(u, job, goal) ==
  \A n \in DOMAIN goal : /\ CanScheduleOnNode(u, n) /\ goal[n] = job.plugins
                         /\ \A i \in DOMAIN job.plugins : MayRun(job.plugins[i], n)

\* The plugins before `next' are approved on n, in their order.
ApprovedOK(job, n, next, approved) ==
  /\ approved \in Seq(Range(job.plugins)) /\ Len(approved) = next - 1
  /\ \A i \in 1..(next - 1) : approved[i] = job.plugins[i] /\ MayRun(job.plugins[i], n)

\* The fields of a validation.
Shape ==
  /\ v.at \in {"idle", "nodes", "plugins", "done", "panicked"}
  /\ v.at = "idle" => v = Idle
  /\ v.at # "idle" => v.user \in Users /\ v.job \in Jobs
  /\ v.at \in {"nodes", "done", "panicked"} =>
       DOMAIN v = {"at", "user", "job", "nodes", "goal", "errors"}
  /\ v.at = "plugins" =>
       DOMAIN v = {"at", "user", "job", "nodes", "goal", "errors",
                   "node", "next", "seen", "approved"}

\* The nodes that have a goal, the one that is checked, and those that are left.
Current == IF v.at = "plugins" THEN {v.node} ELSE {}
Covered == DOMAIN v.goal \cup Current \cup v.nodes

\* What is true of them as long as there is no error.
Sound ==
  v.at \in {"nodes", "plugins", "done"} /\ v.errors = {} =>
    /\ Covered # {} /\ Covered \subseteq Selected(v.job)
    /\ "database" \notin Range(changes) => Covered = Selected(v.job)
    /\ GoalOK(v.user, v.job, v.goal)
    /\ DOMAIN v.goal # {} => RulesOK(v.job)
    /\ v.at = "done" => v.nodes = {}
    /\ v.at = "plugins" =>
         /\ CanScheduleOnNode(v.user, v.node)
         /\ ApprovedOK(v.job, v.node, v.next, v.approved)

NextOK == v.at = "plugins" => v.next \in 1..(Len(v.job.plugins) + 1)

VerdictInv == AdminInv /\ Shape /\ Sound /\ NextOK

\* The plugins of a job.
LEMMA PluginsFacts ==
  ASSUME NEW job \in Jobs
  PROVE  /\ job.plugins \in Seq(Range(job.plugins)) /\ Len(job.plugins) \in Nat
         /\ DOMAIN job.plugins = 1..Len(job.plugins)
<1>1. job.plugins \in Seq(Range(job.plugins))
  BY ValidationAssumption
<1> QED  BY <1>1, LenProperties

\* A node whose plugins are all approved gets all of them.
LEMMA ApprovedAll ==
  ASSUME NEW job \in Jobs, NEW n, NEW next, NEW approved,
         next = Len(job.plugins) + 1, ApprovedOK(job, n, next, approved)
  PROVE  approved = job.plugins /\ \A i \in DOMAIN job.plugins : MayRun(job.plugins[i], n)
<1>1. /\ job.plugins \in Seq(Range(job.plugins)) /\ Len(job.plugins) \in Nat
      /\ DOMAIN job.plugins = 1..Len(job.plugins)
  BY PluginsFacts
<1>2. /\ approved \in Seq(Range(job.plugins)) /\ Len(approved) = Len(job.plugins)
      /\ \A i \in 1..Len(job.plugins) : approved[i] = job.plugins[i] /\ MayRun(job.plugins[i], n)
  BY <1>1 DEF ApprovedOK
<1>3. approved = job.plugins
  BY <1>1, <1>2, SeqEqual
<1> QED  BY <1>1, <1>2, <1>3

\* One more plugin is approved.
LEMMA ApprovedGrows ==
  ASSUME NEW job \in Jobs, NEW n, NEW next \in 1..Len(job.plugins), NEW a,
         ApprovedOK(job, n, next, a), MayRun(job.plugins[next], n)
  PROVE  ApprovedOK(job, n, next + 1, Append(a, job.plugins[next]))
<1> DEFINE p == job.plugins[next]
           S == Range(job.plugins)
           b == Append(a, p)
<1>1. next \in Nat /\ next + 1 - 1 = next /\ next - 1 + 1 = next
      /\ \A i \in 1..next : i # next => i \in 1..(next - 1)
  BY PluginsFacts
<1>2. p \in S
  BY PluginsFacts DEF Range
<1>3. a \in Seq(S) /\ Len(a) = next - 1
  BY DEF ApprovedOK
<1>4. \A i \in 1..(next - 1) : a[i] = job.plugins[i] /\ MayRun(job.plugins[i], n)
  BY DEF ApprovedOK
<1>5. /\ b \in Seq(S) /\ Len(b) = next
      /\ \A i \in 1..(next - 1) : b[i] = a[i]
      /\ b[next] = job.plugins[next]
  <2> HIDE DEF S, p
  <2>1. /\ Append(a, p) \in Seq(S) /\ Len(Append(a, p)) = Len(a) + 1
        /\ \A i \in 1..Len(a) : Append(a, p)[i] = a[i]
        /\ Append(a, p)[Len(a) + 1] = p
    BY <1>2, <1>3, AppendProperties
  <2> QED  BY <1>1, <1>3, <2>1 DEF p
<1> HIDE DEF b
<1>6. ASSUME NEW i \in 1..next PROVE b[i] = job.plugins[i] /\ MayRun(job.plugins[i], n)
  <2>1. CASE i = next
    BY <1>5, <2>1
  <2>2. CASE i # next
    BY <1>1, <1>4, <1>5, <2>2
  <2> QED  BY <2>1, <2>2
<1>7. ApprovedOK(job, n, next + 1, b)
  BY <1>1, <1>5, <1>6 DEF ApprovedOK
<1> QED  BY <1>7 DEF b

\* A validation begins: a tag selects among the nodes that are known.
LEMMA VerdictBegin ==
  ASSUME VerdictInv, NEW u \in Users, NEW job \in Jobs, Begin(u, job)
  PROVE  Shape' /\ Sound' /\ NextOK'
<1> DEFINE tagged == GetNodeNamesByTags(job.tags)
           all    == tagged \cup (IF job.nodes = NoNodes THEN {} ELSE job.nodes)
<1>1. /\ all \subseteq Selected(job)
      /\ "database" \notin Range(changes) => all = Selected(job)
  <2>1. nodes \subseteq DOMAIN Manifests
        /\ ("database" \notin Range(changes) => nodes = DOMAIN Manifests)
    BY DEF VerdictInv, AdminInv, ListsOK, NodesComplete
  <2> QED  BY <2>1 DEF GetNodeNamesByTags, MatchTags, Selected
<1>2. PICK at \in {"nodes", "done", "panicked"}, errors \in SUBSET {"node", "email", "notification"} :
        /\ v' = Validating(at, u, job, all, <<>>, errors)
        /\ at = "nodes" => all # {}
        /\ at = "done" => errors # {}
  <2> DEFINE start(at, errors) == Validating(at, u, job, all, <<>>, errors)
  <2>1. \/ v' = start("panicked", {})
        \/ v' = start("done", {"node"})
        \/ v' = start("done", {"email"})
        \/ v' = start("done", {"notification"})
        \/ v' = start("nodes", {}) /\ all # {}
        \/ v' = start("nodes", {"notification"}) /\ all # {}
    <3>1. v' = CASE job.nodes = NoNodes /\ tagged # {} -> start("panicked", {})
              [] all = {}                           -> start("done", {"node"})
              [] all # {} /\ job.notify = "nobody" -> start("done", {"email"})
              [] all # {} /\ job.notify = "unknowns" -> start("done", {"notification"})
              [] OTHER -> start("nodes", IF job.notify = "unknown" THEN {"notification"} ELSE {})
      BY DEF Begin
    <3>2. job.nodes = NoNodes /\ tagged # {} => all # {}
      OBVIOUS
    <3> HIDE DEF tagged, all, start
    <3> QED  BY <3>1, <3>2
  <2> HIDE DEF tagged, all
  <2> QED  BY <2>1
<1> HIDE DEF tagged, all
<1>3. /\ v'.at = at /\ v'.user = u /\ v'.job = job /\ v'.nodes = all /\ v'.goal = <<>>
      /\ v'.errors = errors /\ DOMAIN v' = {"at", "user", "job", "nodes", "goal", "errors"}
  BY <1>2 DEF Validating
<1>4. UNCHANGED changes /\ DOMAIN <<>> = {}
  BY DEF Begin, adminVars
<1>5. Shape' /\ NextOK'
  BY <1>3 DEF Shape, NextOK
<1>6. v'.at \in {"nodes", "plugins", "done"} /\ v'.errors = {} => at = "nodes"
  BY <1>2, <1>3
<1>7. at = "nodes" => Covered' = all
  BY <1>3, <1>4 DEF Covered, Current
<1>8. Sound'
  <2> SUFFICES ASSUME at = "nodes" PROVE Sound'
    BY <1>6 DEF Sound
  <2>1. GoalOK(v'.user, v'.job, v'.goal)
    BY <1>3, <1>4 DEF GoalOK
  <2> QED  BY <1>1, <1>2, <1>3, <1>4, <1>7, <2>1 DEF Sound
<1> QED  BY <1>5, <1>8
\* The check of a node begins: it moves from those that are left to the current.
LEMMA VerdictBeginNode ==
  ASSUME VerdictInv, v.at = "nodes", NEW n \in v.nodes, BeginNode(n)
  PROVE  Shape' /\ Sound' /\ NextOK'
<1>1. /\ DOMAIN v = {"at", "user", "job", "nodes", "goal", "errors"}
      /\ v.user \in Users /\ v.job \in Jobs /\ UNCHANGED changes
  BY DEF VerdictInv, Shape, BeginNode, adminVars
<1>2. CASE ~ CanScheduleOnNode(v.user, n) \/ n \notin nodes
  <2>1. PICK e : v' = [v EXCEPT !.nodes = @ \ {n}, !.errors = @ \cup {e}]
    BY <1>2 DEF BeginNode
  <2>2. /\ v'.at = "nodes" /\ DOMAIN v' = DOMAIN v /\ v'.user = v.user /\ v'.job = v.job
        /\ v'.errors # {}
    BY <1>1, <2>1
  <2> QED  BY <1>1, <2>2 DEF Shape, Sound, NextOK
<1>3. CASE CanScheduleOnNode(v.user, n) /\ n \in nodes
  <2>1. v' = [at |-> "plugins", user |-> v.user, job |-> v.job, nodes |-> v.nodes \ {n},
              goal |-> v.goal, errors |-> v.errors,
              node |-> n, next |-> 1, seen |-> {}, approved |-> <<>>]
    BY <1>3 DEF BeginNode
  <2>2. /\ v'.at = "plugins" /\ v'.user = v.user /\ v'.job = v.job /\ v'.nodes = v.nodes \ {n}
        /\ v'.goal = v.goal /\ v'.errors = v.errors /\ v'.node = n /\ v'.next = 1
        /\ v'.approved = <<>>
        /\ DOMAIN v' = {"at", "user", "job", "nodes", "goal", "errors",
                        "node", "next", "seen", "approved"}
    BY <2>1
  <2>3. Shape' /\ NextOK'
    BY <1>1, <2>2, PluginsFacts DEF Shape, NextOK
  <2>4. Covered' = Covered
    BY <2>2 DEF Covered, Current
  <2>5. ApprovedOK(v.job, n, 1, <<>>)
    BY DEF ApprovedOK
  <2>6. Sound'
    BY <1>1, <1>3, <2>2, <2>4, <2>5 DEF VerdictInv, Sound
  <2> QED  BY <2>3, <2>6
<1> QED  BY <1>2, <1>3

\* A plugin that is approved may run, whatever the lists have become.
LEMMA VerdictCheckPlugin ==
  ASSUME VerdictInv, CheckPlugin
  PROVE  Shape' /\ Sound' /\ NextOK'
<1> DEFINE p == v.job.plugins[v.next]
<1>1. /\ v.at = "plugins" /\ v.next <= Len(v.job.plugins) /\ UNCHANGED changes
      /\ DOMAIN v = {"at", "user", "job", "nodes", "goal", "errors",
                     "node", "next", "seen", "approved"}
      /\ v.user \in Users /\ v.job \in Jobs /\ v.next \in 1..(Len(v.job.plugins) + 1)
  BY DEF VerdictInv, Shape, NextOK, CheckPlugin, adminVars
<1>2. /\ v.job.plugins \in Seq(Range(v.job.plugins)) /\ Len(v.job.plugins) \in Nat
      /\ DOMAIN v.job.plugins = 1..Len(v.job.plugins)
  BY <1>1, PluginsFacts
<1>3. v.next \in 1..Len(v.job.plugins) /\ v.next + 1 \in 1..(Len(v.job.plugins) + 1)
  BY <1>1, <1>2
<1>4. ASSUME NEW e, Rejected(e) PROVE Shape' /\ Sound' /\ NextOK'
  <2>1. /\ v'.at = "plugins" /\ DOMAIN v' = DOMAIN v /\ v'.user = v.user /\ v'.job = v.job
        /\ v'.errors # {} /\ v'.next = v.next + 1
    BY <1>1, <1>4 DEF Rejected
  <2> QED  BY <1>1, <1>3, <2>1 DEF Shape, Sound, NextOK
<1>5. ASSUME NEW new, Approved(p, new), MayRun(p, v.node) PROVE Shape' /\ Sound' /\ NextOK'
  <2>1. /\ v'.at = "plugins" /\ DOMAIN v' = DOMAIN v /\ v'.user = v.user /\ v'.job = v.job
        /\ v'.nodes = v.nodes /\ v'.goal = v.goal /\ v'.errors = v.errors
        /\ v'.node = v.node /\ v'.next = v.next + 1 /\ v'.approved = Append(v.approved, p)
    BY <1>1, <1>5 DEF Approved
  <2>2. Shape' /\ NextOK'
    BY <1>1, <1>3, <2>1 DEF Shape, NextOK
  <2>3. Covered' = Covered
    BY <1>1, <2>1 DEF Covered, Current
  <2>4. ASSUME ApprovedOK(v.job, v.node, v.next, v.approved)
        PROVE  ApprovedOK(v.job, v.node, v.next + 1, Append(v.approved, p))
    BY <1>1, <1>3, <1>5, <2>4, ApprovedGrows
  <2>5. Sound'
    BY <1>1, <2>1, <2>3, <2>4 DEF VerdictInv, Sound
  <2> QED  BY <2>2, <2>5
<1>6. /\ plugins \cup DOMAIN ECR = DOMAIN ECR
      /\ \A l \in whitelist : l \in DOMAIN Patterns
  BY DEF VerdictInv, AdminInv, ListsOK
<1>7. \/ \E e : Rejected(e)
      \/ MayRun(p, v.node) /\ \E new : Approved(p, new)
  <2> DEFINE named == IsPluginNameValid(p.name) /\ p.name \notin v.seen
  <2>1. \/ ~ IsPluginNameValid(p.name) /\ Rejected("name") /\ UNCHANGED plugins
        \/ p.name \in v.seen /\ Rejected("duplicate") /\ UNCHANGED plugins
        \/ /\ named /\ p.image \in plugins \cup DOMAIN ECR
           /\ plugins' = plugins \cup {p.image}
           /\ IF Supports(v.node, p.image) THEN Approved(p, {p.name}) ELSE Rejected("architecture")
        \/ /\ named /\ p.image \notin plugins
           /\ p.image \notin DOMAIN ECR \ FetchFails
           /\ IF IsPluginWhitelisted(p.image) THEN Approved(p, {}) ELSE Rejected("image")
           /\ UNCHANGED plugins
    BY DEF CheckPlugin
  <2> HIDE DEF p, named
  <2>2. p.image \in plugins \cup DOMAIN ECR /\ Supports(v.node, p.image) => MayRun(p, v.node)
    BY <1>6 DEF MayRun
  <2>3. IsPluginWhitelisted(p.image) => MayRun(p, v.node)
    BY <1>6 DEF MayRun, IsPluginWhitelisted
  <2> QED  BY <2>1, <2>2, <2>3
<1> HIDE DEF p
<1> QED  BY <1>4, <1>5, <1>7

\* The rules are parsed and the node gets its goal.
LEMMA VerdictEndNode ==
  ASSUME VerdictInv, EndNode
  PROVE  Shape' /\ Sound' /\ NextOK'
<1> DEFINE goal == [n \in DOMAIN v.goal \cup {v.node} |->
                      IF n = v.node THEN v.approved ELSE v.goal[n]]
           errors == v.errors \cup IF \E i \in DOMAIN v.job.rules : ~ RuleParses(v.job.rules[i])
                                   THEN {"rule"} ELSE {}
<1>1. /\ v.at = "plugins" /\ v.next > Len(v.job.plugins) /\ UNCHANGED changes
      /\ v' = Validating("nodes", v.user, v.job, v.nodes, goal, errors)
      /\ v.user \in Users /\ v.job \in Jobs /\ v.next \in 1..(Len(v.job.plugins) + 1)
  BY DEF VerdictInv, Shape, NextOK, EndNode, adminVars
<1>2. v.next = Len(v.job.plugins) + 1
  BY <1>1, PluginsFacts
<1>3. errors = {} => v.errors = {} /\ RulesOK(v.job)
  BY DEF RulesOK
<1>4. GoalOK(v.user, v.job, v.goal) /\ CanScheduleOnNode(v.user, v.node)
      /\ ApprovedOK(v.job, v.node, v.next, v.approved) => GoalOK(v.user, v.job, goal)
  <2> SUFFICES ASSUME GoalOK(v.user, v.job, v.goal), CanScheduleOnNode(v.user, v.node),
                      ApprovedOK(v.job, v.node, v.next, v.approved)
               PROVE  GoalOK(v.user, v.job, goal)
    OBVIOUS
  <2>1. /\ v.approved = v.job.plugins
        /\ \A i \in DOMAIN v.job.plugins : MayRun(v.job.plugins[i], v.node)
    BY <1>1, <1>2, ApprovedAll
  <2> QED  BY <2>1 DEF GoalOK
<1>5. DOMAIN goal = DOMAIN v.goal \cup {v.node}
  OBVIOUS
<1> HIDE DEF goal, errors
<1>6. /\ v'.at = "nodes" /\ v'.user = v.user /\ v'.job = v.job /\ v'.nodes = v.nodes
      /\ v'.goal = goal /\ v'.errors = errors
      /\ DOMAIN v' = {"at", "user", "job", "nodes", "goal", "errors"}
  BY <1>1 DEF Validating
<1>7. Shape' /\ NextOK'
  BY <1>1, <1>6 DEF Shape, NextOK
<1>8. Covered' = Covered
  BY <1>1, <1>5, <1>6 DEF Covered, Current
<1>9. Sound'
  BY <1>1, <1>3, <1>4, <1>6, <1>8 DEF VerdictInv, Sound
<1> QED  BY <1>7, <1>9

\* A validation ends when no node is left, and its answer is sent.
LEMMA VerdictFinish ==
  ASSUME VerdictInv, Finish \/ Answer
  PROVE  Shape' /\ Sound' /\ NextOK'
<1>1. CASE Finish
  <2>1. /\ v.at = "nodes" /\ v.nodes = {} /\ v' = [v EXCEPT !.at = "done"] /\ UNCHANGED changes
        /\ DOMAIN v = {"at", "user", "job", "nodes", "goal", "errors"}
        /\ v.user \in Users /\ v.job \in Jobs
    BY <1>1 DEF Finish, VerdictInv, Shape, adminVars
  <2>2. /\ v'.at = "done" /\ DOMAIN v' = DOMAIN v /\ v'.user = v.user /\ v'.job = v.job
        /\ v'.nodes = v.nodes /\ v'.goal = v.goal /\ v'.errors = v.errors
    BY <2>1
  <2>3. Covered' = Covered
    BY <2>1, <2>2 DEF Covered, Current
  <2> QED  BY <2>1, <2>2, <2>3 DEF VerdictInv, Shape, Sound, NextOK
<1>2. CASE Answer
  BY <1>2 DEF Answer, Idle, Shape, Sound, NextOK
<1> QED  BY <1>1, <1>2

\* An administrator's step leaves the validation alone, and begins a request at
\* most, or belongs to one.
LEMMA AdministerFacts ==
  ASSUME Administer
  PROVE  /\ v' = v
         /\ \E r \in Admins : \/ \E op : Requested(r, op)
                              \/ admin[r] # Idle /\ UNCHANGED changes
<1>1. PICK r \in Admins :
        \/ \E p \in DOMAIN Patterns :
             AddPluginWhitelist(r, p) \/ RemovePluginWhitelist(r, p) \/ WriteLine(r, p)
        \/ WritePluginWhitelist(r) \/ WriteNothing(r)
        \/ LoadPluginWhitelist(r) \/ ScanFile(r) \/ ReadLine(r)
        \/ LoadDatabase(r) \/ LoadNodes(r) \/ LoadFails(r)
        \/ \E p \in Loaded : LoadApp(r, p)
        \/ \E n \in DOMAIN Manifests : LoadNode(r, n)
  BY DEF Administer
<1>2. \A p \in DOMAIN Patterns :
        AddPluginWhitelist(r, p) \/ RemovePluginWhitelist(r, p) =>
          v' = v /\ \E op : Requested(r, op)
  BY DEF AddPluginWhitelist, RemovePluginWhitelist, WhitelistRequested
<1>3. LoadPluginWhitelist(r) \/ LoadDatabase(r) => v' = v /\ \E op : Requested(r, op)
  BY DEF LoadPluginWhitelist, LoadDatabase, WhitelistRequested
<1>4. \A p \in DOMAIN Patterns : WriteLine(r, p) =>
        v' = v /\ UNCHANGED changes /\ admin[r].at = "write"
  BY DEF WriteLine
<1>5. WritePluginWhitelist(r) \/ WriteNothing(r) \/ ScanFile(r) \/ ReadLine(r) =>
        v' = v /\ UNCHANGED changes /\ admin[r].at \in {"open", "write", "scan", "read"}
  BY DEF WritePluginWhitelist, WriteNothing, ScanFile, ReadLine
<1>6. LoadNodes(r) \/ LoadFails(r) =>
        v' = v /\ UNCHANGED changes /\ admin[r].at \in {"apps", "manifests"}
  BY DEF LoadNodes, LoadFails
<1>7. /\ \A p \in Loaded : LoadApp(r, p) =>
           v' = v /\ UNCHANGED changes /\ admin[r].at = "apps"
      /\ \A n \in DOMAIN Manifests : LoadNode(r, n) =>
           v' = v /\ UNCHANGED changes /\ admin[r].at = "manifests"
  BY DEF LoadApp, LoadNode
<1>8. Idle.at = "idle"
  BY DEF Idle
<1>9. admin[r].at \in {"open", "write", "scan", "read", "apps", "manifests"} => admin[r] # Idle
  BY <1>8
<1> QED  BY <1>1, <1>2, <1>3, <1>4, <1>5, <1>6, <1>7, <1>9

\* Administrators leave the validation alone; what they do is noted.
LEMMA VerdictAdminister ==
  ASSUME VerdictInv, Administer
  PROVE  Shape' /\ Sound' /\ NextOK'
<1>1. v' = v
  BY AdministerFacts
<1>2. "database" \notin Range(changes') => "database" \notin Range(changes)
  <2>1. ASSUME NEW r, NEW op, Requested(r, op) PROVE Range(changes) \subseteq Range(changes')
    BY <2>1, NotedFacts DEF VerdictInv, AdminInv, Requested
  <2>2. ASSUME UNCHANGED changes PROVE Range(changes) \subseteq Range(changes')
    BY <2>2
  <2> QED  BY <2>1, <2>2, AdministerFacts
<1>3. Shape' /\ NextOK'
  BY <1>1 DEF VerdictInv, Shape, NextOK
<1>4. Covered' = Covered
  BY <1>1 DEF Covered, Current
<1> QED  BY <1>1, <1>2, <1>3, <1>4 DEF VerdictInv, Sound

\* The induction.
LEMMA VerdictAlways == Spec => []VerdictInv
<1>1. Init => VerdictInv
  BY AdminInit DEF Init, Idle, VerdictInv, Shape, Sound, NextOK
<1>2. VerdictInv /\ [Next]_vars => VerdictInv'
  <2> SUFFICES ASSUME VerdictInv, [Next]_vars PROVE VerdictInv'
    OBVIOUS
  <2>1. CASE Validate
    <3>1. AdminInv'
      BY <2>1, AdminValidate DEF VerdictInv
    <3> QED  BY <2>1, <3>1, VerdictBegin, VerdictBeginNode, VerdictCheckPlugin, VerdictEndNode,
                VerdictFinish DEF Validate, VerdictInv
  <2>2. CASE Administer
    BY <2>2, AdminStep, VerdictAdminister DEF VerdictInv
  <2>3. CASE Restart
    BY <2>3, AdminRestart DEF VerdictInv, Idle, Shape, Sound, NextOK
  <2>4. CASE UNCHANGED vars
    <3>1. AdminInv'
      BY <2>4, AdminStutters DEF VerdictInv
    <3>2. Shape' /\ Sound' /\ NextOK'
      BY <2>4 DEF VerdictInv, vars, adminVars, Shape, Sound, NextOK, Covered, Current
    <3> QED  BY <3>1, <3>2 DEF VerdictInv
  <2> QED  BY <2>1, <2>2, <2>3, <2>4 DEF Next
<1> QED  BY <1>1, <1>2, PTL DEF Spec

\* Type correctness, for all values of the constants.
THEOREM TypeCorrect == Spec => []TypeOK
<1>1. VerdictInv => TypeOK
  BY DEF VerdictInv, AdminInv, ListsOK, RequestOK, Shape, TypeOK
<1> QED  BY <1>1, VerdictAlways, PTL

\* Whatever administrators do meanwhile, a job that is accepted has goals for
\* nodes that it selects, that its user may schedule on and that may run its
\* plugins, with all of them in their order, and for every such node unless the
\* manifests were reloaded.
THEOREM AcceptedIsSoundHolds == Spec => []AcceptedIsSound
<1>1. VerdictInv => AcceptedIsSound
  <2> SUFFICES ASSUME VerdictInv, v.at = "done", v.errors = {} PROVE AcceptedIsSound
    BY DEF AcceptedIsSound, Accepted
  <2>1. Covered = DOMAIN v.goal
    BY DEF VerdictInv, Sound, Covered, Current
  <2>2. GoalOK(v.user, v.job, v.goal) /\ RulesOK(v.job)
    BY <2>1 DEF VerdictInv, Sound
  <2>3. /\ DOMAIN v.goal \subseteq Selected(v.job)
        /\ "database" \notin Range(changes) => DOMAIN v.goal = Selected(v.job)
    BY <2>1 DEF VerdictInv, Sound
  <2> QED  BY <2>2, <2>3 DEF AcceptedIsSound, GoalOK, RulesOK
<1> QED  BY <1>1, VerdictAlways, PTL

-----------------------------------------------------------------------------
(* The names                                                               *)

\* Images whose manifest the validator has or gets.
Known(job, i) == job.plugins[i].image \in DOMAIN ECR \ FetchFails

\* Plugins before `next' that are known have different names ...
Unique(job, next) ==
  \A i, k \in 1..(next - 1) :
    i # k /\ Known(job, i) /\ Known(job, k) => job.plugins[i].name # job.plugins[k].name

\* ... which are recorded.
Recorded(job, next, seen) ==
  \A i \in 1..(next - 1) : Known(job, i) => job.plugins[i].name \in seen

Names ==
  v.at \in {"nodes", "plugins", "done"} /\ v.errors = {} =>
    /\ DOMAIN v.goal # {} => Unique(v.job, Len(v.job.plugins) + 1)
    /\ v.at = "plugins" => Unique(v.job, v.next) /\ Recorded(v.job, v.next, v.seen)

\* One more plugin.
LEMMA NamesGrow ==
  ASSUME NEW job, NEW next \in Nat \ {0}, NEW seen, NEW new,
         Unique(job, next), Recorded(job, next, seen),
         Known(job, next) =>
           job.plugins[next].name \in new /\ job.plugins[next].name \notin seen
  PROVE  Unique(job, next + 1) /\ Recorded(job, next + 1, seen \cup new)
<1>1. next + 1 - 1 = next /\ \A i \in 1..next : i = next \/ i \in 1..(next - 1)
  OBVIOUS
<1>2. Recorded(job, next + 1, seen \cup new)
  <2> SUFFICES ASSUME NEW i \in 1..next, Known(job, i)
               PROVE  job.plugins[i].name \in seen \cup new
    BY <1>1 DEF Recorded
  <2> QED  BY <1>1 DEF Recorded
<1>3. Unique(job, next + 1)
  <2> SUFFICES ASSUME NEW i \in 1..next, NEW k \in 1..next, i # k,
                      Known(job, i), Known(job, k)
               PROVE  job.plugins[i].name # job.plugins[k].name
    BY <1>1 DEF Unique
  <2>1. CASE i = next
    <3>1. k \in 1..(next - 1)
      BY <1>1, <2>1
    <3> QED  BY <2>1, <3>1 DEF Recorded
  <2>2. CASE k = next
    <3>1. i \in 1..(next - 1)
      BY <1>1, <2>2
    <3> QED  BY <2>2, <3>1 DEF Recorded
  <2>3. CASE i # next /\ k # next
    <3>1. i \in 1..(next - 1) /\ k \in 1..(next - 1)
      BY <1>1, <2>3
    <3> QED  BY <3>1 DEF Unique
  <2> QED  BY <2>1, <2>2, <2>3
<1> QED  BY <1>2, <1>3

\* The name of a plugin that is approved is a new one, and recorded when its
\* manifest is known.
LEMMA NamesCheckPlugin ==
  ASSUME VerdictInv, Names, CheckPlugin
  PROVE  Names'
<1> DEFINE p == v.job.plugins[v.next]
           known == p.image \in DOMAIN ECR \ FetchFails
<1>1. /\ v.at = "plugins"
      /\ DOMAIN v = {"at", "user", "job", "nodes", "goal", "errors",
                     "node", "next", "seen", "approved"}
      /\ v.next \in Nat \ {0}
  BY DEF VerdictInv, Shape, NextOK, CheckPlugin
<1>2. ASSUME NEW e, Rejected(e) PROVE Names'
  <2>1. v'.errors # {}
    BY <1>1, <1>2 DEF Rejected
  <2> QED  BY <2>1 DEF Names
<1>3. ASSUME NEW new, Approved(p, new), known => p.name \in new /\ p.name \notin v.seen
      PROVE  Names'
  <2>1. /\ v'.at = "plugins" /\ v'.job = v.job /\ v'.goal = v.goal /\ v'.errors = v.errors
        /\ v'.next = v.next + 1 /\ v'.seen = v.seen \cup new
    BY <1>1, <1>3 DEF Approved
  <2>2. Known(v.job, v.next) =>
          v.job.plugins[v.next].name \in new /\ v.job.plugins[v.next].name \notin v.seen
    BY <1>3 DEF Known
  <2>3. Unique(v.job, v.next) /\ Recorded(v.job, v.next, v.seen)
          => Unique(v.job, v.next + 1) /\ Recorded(v.job, v.next + 1, v.seen \cup new)
    BY <1>1, <2>2, NamesGrow
  <2> QED  BY <1>1, <2>1, <2>3 DEF Names
<1>4. \/ \E e : Rejected(e)
      \/ \E new : Approved(p, new) /\ (known => p.name \in new /\ p.name \notin v.seen)
  <2> DEFINE named == IsPluginNameValid(p.name) /\ p.name \notin v.seen
  <2>1. \/ ~ IsPluginNameValid(p.name) /\ Rejected("name") /\ UNCHANGED plugins
        \/ p.name \in v.seen /\ Rejected("duplicate") /\ UNCHANGED plugins
        \/ /\ named /\ p.image \in plugins \cup DOMAIN ECR
           /\ plugins' = plugins \cup {p.image}
           /\ IF Supports(v.node, p.image) THEN Approved(p, {p.name}) ELSE Rejected("architecture")
        \/ /\ named /\ p.image \notin plugins
           /\ p.image \notin DOMAIN ECR \ FetchFails
           /\ IF IsPluginWhitelisted(p.image) THEN Approved(p, {}) ELSE Rejected("image")
           /\ UNCHANGED plugins
    BY DEF CheckPlugin
  <2>2. named => p.name \notin v.seen
    OBVIOUS
  <2> HIDE DEF p, named
  <2> QED  BY <2>1, <2>2
<1> HIDE DEF p, known
<1> QED  BY <1>2, <1>3, <1>4

\* The other steps of a validation.
LEMMA NamesValidate ==
  ASSUME VerdictInv, Names, Validate
  PROVE  Names'
<1>1. ASSUME NEW u \in Users, NEW job \in Jobs, Begin(u, job) PROVE Names'
  <2>1. PICK at, all, errors : /\ at \in {"nodes", "done", "panicked"}
                                /\ v' = Validating(at, u, job, all, <<>>, errors)
    BY <1>1 DEF Begin
  <2>2. v'.at # "plugins" /\ DOMAIN v'.goal = {}
    BY <2>1 DEF Validating
  <2> QED  BY <2>2 DEF Names
<1>2. ASSUME v.at = "nodes", NEW n \in v.nodes, BeginNode(n) PROVE Names'
  <2>1. DOMAIN v = {"at", "user", "job", "nodes", "goal", "errors"}
    BY <1>2 DEF VerdictInv, Shape
  <2>2. CASE ~ CanScheduleOnNode(v.user, n) \/ n \notin nodes
    <3>1. PICK e : v' = [v EXCEPT !.nodes = @ \ {n}, !.errors = @ \cup {e}]
      BY <1>2, <2>2 DEF BeginNode
    <3>2. v'.errors # {}
      BY <2>1, <3>1
    <3> QED  BY <3>2 DEF Names
  <2>3. CASE CanScheduleOnNode(v.user, n) /\ n \in nodes
    <3>1. v' = [at |-> "plugins", user |-> v.user, job |-> v.job, nodes |-> v.nodes \ {n},
                goal |-> v.goal, errors |-> v.errors,
                node |-> n, next |-> 1, seen |-> {}, approved |-> <<>>]
      BY <1>2, <2>3 DEF BeginNode
    <3>2. v'.job = v.job /\ v'.goal = v.goal /\ v'.errors = v.errors /\ v'.next = 1
      BY <3>1
    <3>3. Unique(v.job, 1) /\ Recorded(v.job, 1, v'.seen)
      BY DEF Unique, Recorded
    <3> QED  BY <1>2, <3>2, <3>3 DEF Names
  <2> QED  BY <2>2, <2>3
<1>3. CASE EndNode
  <2>1. /\ v.at = "plugins" /\ v'.at = "nodes" /\ v'.job = v.job
        /\ v'.errors = {} => v.errors = {}
    BY <1>3 DEF EndNode, Validating
  <2>2. v.next = Len(v.job.plugins) + 1
    <3>1. v.next \in 1..(Len(v.job.plugins) + 1) /\ v.next > Len(v.job.plugins) /\ v.job \in Jobs
      BY <1>3 DEF EndNode, VerdictInv, Shape, NextOK
    <3> QED  BY <3>1, PluginsFacts
  <2> QED  BY <2>1, <2>2 DEF Names
<1>4. CASE Finish
  <2>1. DOMAIN v = {"at", "user", "job", "nodes", "goal", "errors"}
    BY <1>4 DEF Finish, VerdictInv, Shape
  <2>2. /\ v'.at = "done" /\ v.at = "nodes" /\ v'.job = v.job /\ v'.goal = v.goal
        /\ v'.errors = v.errors
    BY <1>4, <2>1 DEF Finish
  <2> QED  BY <2>2 DEF Names
<1>5. CASE Answer
  BY <1>5 DEF Answer, Idle, Names
<1> QED  BY <1>1, <1>2, <1>3, <1>4, <1>5, NamesCheckPlugin DEF Validate

\* In an accepted job, plugins whose manifest is known have different names.
THEOREM KnownNamesUniqueHolds == Spec => []KnownNamesUnique
<1>1. Init => Names
  BY DEF Init, Idle, Names
<1>2. VerdictInv /\ Names /\ [Next]_vars => Names'
  <2>1. ASSUME v' = v, Names PROVE Names'
    BY <2>1 DEF Names
  <2>2. Restart => Names'
    BY DEF Restart, Idle, Names
  <2> QED  BY <2>1, <2>2, AdministerFacts, NamesValidate DEF Next, vars
<1>3. VerdictInv /\ Names => KnownNamesUnique
  <2> SUFFICES ASSUME VerdictInv, Names, v.at = "done", v.errors = {} PROVE KnownNamesUnique
    BY DEF KnownNamesUnique, Accepted
  <2>1. DOMAIN v.goal # {}
    BY DEF VerdictInv, Sound, Covered, Current
  <2>2. v.job \in Jobs
    BY DEF VerdictInv, Shape
  <2>3. Unique(v.job, Len(v.job.plugins) + 1)
    BY <2>1 DEF Names
  <2>4. DOMAIN v.job.plugins = 1..(Len(v.job.plugins) + 1 - 1)
    BY <2>2, PluginsFacts
  <2> QED  BY <2>3, <2>4 DEF KnownNamesUnique, Unique, Known
<1> QED  BY <1>1, <1>2, <1>3, VerdictAlways, PTL DEF Spec

-----------------------------------------------------------------------------
(* Valid jobs                                                              *)

\* What is listed and loaded before an administrator's first request, ...
Untouched ==
  changes = <<>> => /\ (\A r \in Admins : admin[r] = Idle)
                     /\ whitelist = Range(FirstFile) /\ nodes = DOMAIN Manifests

\* ... and the validation of a valid job in that time.
ValidJob == v.job.nodes # NoNodes /\ Valid(v.user, v.job, Range(FirstFile))

Faultless ==
  changes = <<>> /\ v.at \in {"nodes", "plugins", "done"} /\ ValidJob =>
    /\ v.errors = {} /\ v.nodes \subseteq Selected(v.job)
    /\ v.at = "plugins" =>
         /\ v.node \in Selected(v.job)
         /\ \A s \in v.seen : \E i \in 1..(v.next - 1) : s = v.job.plugins[i].name

\* Nothing changes the lists and the manifests of nodes but what a request began.
LEMMA UntouchedStep ==
  ASSUME VerdictInv, Untouched, [Next]_vars
  PROVE  Untouched' /\ (changes' = <<>> => changes = <<>>)
<1>1. ASSUME NEW op \in AdminOps, changes' = Append(changes, op) PROVE changes' # <<>>
  <2>1. changes \in Seq(AdminOps)
    BY DEF VerdictInv, AdminInv, ListsOK
  <2> QED  BY <1>1, <2>1, AppendProperties, EmptySeq
<1>2. CASE Administer
  <2>1. PICK r \in Admins : (\E op : Requested(r, op)) \/ (admin[r] # Idle /\ UNCHANGED changes)
    BY <1>2, AdministerFacts
  <2>2. CASE \E op : Requested(r, op)
    BY <1>1, <2>2 DEF Requested, Untouched
  <2>3. CASE admin[r] # Idle /\ UNCHANGED changes
    BY <2>3 DEF Untouched
  <2> QED  BY <2>1, <2>2, <2>3
<1>3. CASE Restart
  BY <1>1, <1>3 DEF Restart, Untouched
<1>4. CASE UNCHANGED adminVars
  BY <1>4 DEF adminVars, listVars, Untouched
<1>5. Validate => UNCHANGED adminVars
  BY DEF Validate, Begin, BeginNode, CheckPlugin, EndNode, Finish, Answer
<1> QED  BY <1>2, <1>3, <1>4, <1>5 DEF Next, vars

\* A valid job has nodes, all of them known, and no unknown notifications.
LEMMA FaultlessBegin ==
  ASSUME VerdictInv, Untouched, changes = <<>>, NEW u \in Users, NEW job \in Jobs, Begin(u, job)
  PROVE  Faultless'
<1> SUFFICES ASSUME ValidJob', v'.at \in {"nodes", "plugins", "done"} PROVE Faultless'
  BY DEF Faultless
<1> DEFINE tagged == GetNodeNamesByTags(job.tags)
           all    == tagged \cup (IF job.nodes = NoNodes THEN {} ELSE job.nodes)
           start(at, errors) == Validating(at, u, job, all, <<>>, errors)
<1>1. all = Selected(job)
  BY DEF Untouched, GetNodeNamesByTags, MatchTags, Selected
<1>2. v' = CASE job.nodes = NoNodes /\ tagged # {} -> start("panicked", {})
             [] all = {}                           -> start("done", {"node"})
             [] all # {} /\ job.notify = "nobody" -> start("done", {"email"})
             [] all # {} /\ job.notify = "unknowns" -> start("done", {"notification"})
             [] OTHER -> start("nodes", IF job.notify = "unknown" THEN {"notification"} ELSE {})
  BY DEF Begin
<1>3. \E at, errors : v' = start(at, errors)
  <2>1. job.nodes = NoNodes /\ tagged # {} => all # {}
    OBVIOUS
  <2> HIDE DEF tagged, all, start
  <2> QED  BY <1>2, <2>1
<1>4. v'.user = u /\ v'.job = job
  BY <1>3 DEF Validating
<1>5. job.nodes # NoNodes /\ Valid(u, job, Range(FirstFile))
  BY <1>4 DEF ValidJob
<1>6. job.nodes # NoNodes /\ all # {} /\ job.notify = "ok"
  BY <1>1, <1>5 DEF Valid
<1>7. v' = start("nodes", {})
  <2> HIDE DEF tagged, all, start
  <2> QED  BY <1>2, <1>6
<1> HIDE DEF tagged, all
<1>8. v'.at = "nodes" /\ v'.nodes = all /\ v'.errors = {}
  BY <1>7 DEF Validating
<1> QED  BY <1>1, <1>4, <1>8 DEF Faultless

\* Its user may schedule on each of them, and each has a manifest.
LEMMA FaultlessBeginNode ==
  ASSUME VerdictInv, Untouched, Faultless, changes = <<>>, v.at = "nodes", NEW n \in v.nodes,
         BeginNode(n)
  PROVE  Faultless'
<1>1. /\ DOMAIN v = {"at", "user", "job", "nodes", "goal", "errors"}
      /\ UNCHANGED changes
  BY DEF VerdictInv, Shape, BeginNode, adminVars
<1>2. v'.user = v.user /\ v'.job = v.job
  BY <1>1 DEF BeginNode
<1> SUFFICES ASSUME ValidJob PROVE Faultless'
  BY <1>2 DEF Faultless, ValidJob
<1>3. v.errors = {} /\ v.nodes \subseteq Selected(v.job)
  BY DEF Faultless
<1>4. CanScheduleOnNode(v.user, n) /\ n \in nodes
  BY <1>3 DEF ValidJob, Valid, Untouched
<1>5. v' = [at |-> "plugins", user |-> v.user, job |-> v.job, nodes |-> v.nodes \ {n},
            goal |-> v.goal, errors |-> v.errors,
            node |-> n, next |-> 1, seen |-> {}, approved |-> <<>>]
  BY <1>4 DEF BeginNode
<1>6. /\ v'.nodes = v.nodes \ {n} /\ v'.errors = v.errors
      /\ v'.node = n /\ v'.seen = {} /\ v'.job = v.job
  BY <1>5
<1> QED  BY <1>3, <1>6 DEF Faultless

\* Its plugins pass: the names differ, and the repository or the list knows the
\* images.
LEMMA FaultlessCheckPlugin ==
  ASSUME VerdictInv, Untouched, Faultless, changes = <<>>, CheckPlugin
  PROVE  Faultless'
<1> DEFINE p == v.job.plugins[v.next]
<1>1. /\ v.at = "plugins" /\ v.next <= Len(v.job.plugins) /\ UNCHANGED changes
      /\ DOMAIN v = {"at", "user", "job", "nodes", "goal", "errors",
                     "node", "next", "seen", "approved"}
      /\ v.user \in Users /\ v.job \in Jobs /\ v.next \in 1..(Len(v.job.plugins) + 1)
  BY DEF VerdictInv, Shape, NextOK, CheckPlugin, adminVars
<1>2. /\ Len(v.job.plugins) \in Nat /\ DOMAIN v.job.plugins = 1..Len(v.job.plugins)
  BY <1>1, PluginsFacts
<1>3. /\ v.next \in DOMAIN v.job.plugins /\ v.next \in Nat /\ v.next + 1 - 1 = v.next
      /\ \A i \in 1..(v.next - 1) :
           i \in DOMAIN v.job.plugins /\ i # v.next /\ i \in 1..v.next
      /\ v.next \in 1..v.next
  BY <1>1, <1>2
<1>4. \A e, new : Rejected(e) \/ Approved(p, new) => v'.user = v.user /\ v'.job = v.job
  BY <1>1 DEF Rejected, Approved
<1>5. \/ ~ IsPluginNameValid(p.name)
      \/ p.name \in v.seen
      \/ p.image \in plugins \cup DOMAIN ECR /\ ~ Supports(v.node, p.image)
      \/ p.image \notin plugins /\ p.image \notin DOMAIN ECR \ FetchFails
         /\ ~ IsPluginWhitelisted(p.image)
      \/ \E new \in {{}, {p.name}} : Approved(p, new)
  BY DEF CheckPlugin
<1>6. v'.user = v.user /\ v'.job = v.job
  <2>1. \E e, new : Rejected(e) \/ Approved(p, new)
    BY DEF CheckPlugin
  <2> QED  BY <1>4, <2>1
<1> SUFFICES ASSUME ValidJob PROVE Faultless'
  BY <1>1, <1>6 DEF Faultless, ValidJob
<1>7. /\ v.errors = {} /\ v.nodes \subseteq Selected(v.job) /\ v.node \in Selected(v.job)
      /\ \A s \in v.seen : \E i \in 1..(v.next - 1) : s = v.job.plugins[i].name
  BY <1>1 DEF Faultless
<1>8. IsPluginNameValid(p.name)
  BY <1>3 DEF ValidJob, Valid
<1>9. p.name \notin v.seen
  BY <1>3, <1>7 DEF ValidJob, Valid
<1>10. Runnable(p, v.node, Range(FirstFile))
  BY <1>3, <1>7 DEF ValidJob, Valid
<1>11. plugins \subseteq DOMAIN ECR /\ whitelist = Range(FirstFile)
  BY DEF VerdictInv, AdminInv, ListsOK, Untouched
<1>12. PICK new \in {{}, {p.name}} : Approved(p, new)
  BY <1>5, <1>8, <1>9, <1>10, <1>11 DEF Runnable, IsPluginWhitelisted
<1>13. /\ v'.errors = v.errors /\ v'.nodes = v.nodes /\ v'.node = v.node
       /\ v'.next = v.next + 1 /\ v'.seen \subseteq v.seen \cup {p.name}
  BY <1>1, <1>12 DEF Approved
<1>14. \A s \in v'.seen : \E i \in 1..v.next : s = v.job.plugins[i].name
  BY <1>3, <1>7, <1>13
<1>15. v'.next - 1 = v.next
  BY <1>3, <1>13
<1> HIDE DEF p
<1> QED  BY <1>6, <1>7, <1>13, <1>14, <1>15 DEF Faultless

\* Its rules parse.
LEMMA FaultlessEndNode ==
  ASSUME VerdictInv, Untouched, Faultless, changes = <<>>, EndNode
  PROVE  Faultless'
<1>1. /\ v.at = "plugins" /\ v'.at = "nodes" /\ v'.user = v.user /\ v'.job = v.job
      /\ v'.nodes = v.nodes
      /\ v'.errors = v.errors \cup IF \E i \in DOMAIN v.job.rules : ~ RuleParses(v.job.rules[i])
                                   THEN {"rule"} ELSE {}
  BY DEF EndNode, Validating
<1> SUFFICES ASSUME ValidJob PROVE Faultless'
  BY <1>1 DEF Faultless, ValidJob
<1>2. v.errors = {} /\ v.nodes \subseteq Selected(v.job)
  BY <1>1 DEF Faultless
<1>3. v'.errors = {}
  BY <1>1, <1>2 DEF ValidJob, Valid
<1> QED  BY <1>1, <1>2, <1>3 DEF Faultless

(* Without administrators every step keeps what is said of a job that passes. *)
LEMMA FaultlessStep ==
  ASSUME VerdictInv, Untouched, Faultless, [Next]_vars
  PROVE  Faultless'
<1> SUFFICES ASSUME changes = <<>> PROVE Faultless'
  BY UntouchedStep DEF Faultless
<1>1. CASE UNCHANGED v
  BY <1>1 DEF Faultless, ValidJob
<1>2. CASE Finish
  <2>1. /\ v.at = "nodes" /\ v' = [v EXCEPT !.at = "done"]
        /\ DOMAIN v = {"at", "user", "job", "nodes", "goal", "errors"}
    BY <1>2 DEF Finish, VerdictInv, Shape
  <2>2. /\ v'.at = "done" /\ v'.user = v.user /\ v'.job = v.job /\ v'.nodes = v.nodes
        /\ v'.errors = v.errors
    BY <2>1
  <2> QED  BY <2>1, <2>2 DEF Faultless, ValidJob
<1>3. CASE Answer
  BY <1>3 DEF Answer, Idle, Faultless
<1>4. Administer => UNCHANGED v
  BY AdministerFacts
<1>5. Restart => Faultless'
  BY DEF Restart, Idle, Faultless
<1> QED
  BY <1>1, <1>2, <1>3, <1>4, <1>5, FaultlessBegin, FaultlessBeginNode, FaultlessCheckPlugin,
     FaultlessEndNode DEF Next, Validate, vars

\* No check is stricter than the reference: while no administrator interferes, a
\* valid job passes all of them, in whatever order its nodes are visited.
THEOREM ValidIsAcceptedHolds == Spec => []ValidIsAccepted
<1>1. Init => Untouched /\ Faultless
  BY DEF Init, Idle, Untouched, Faultless
<1>2. VerdictInv /\ Untouched /\ Faultless /\ [Next]_vars => Untouched' /\ Faultless'
  BY UntouchedStep, FaultlessStep
<1>3. Faultless => ValidIsAccepted
  BY DEF Faultless, ValidJob, ValidIsAccepted
<1> QED  BY <1>1, <1>2, <1>3, VerdictAlways, PTL DEF Spec
=============================================================================
