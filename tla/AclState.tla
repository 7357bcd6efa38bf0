------------------------------ MODULE AclState ------------------------------
(***************************************************************************)
(* ACLState.applyRecord (src/common/pkg/acl/list/aclstate.go) as the sync *)
(* node runs it: the state is built with newACLState, without keys, so    *)
(* the node's own identity is none of the users and the read keys are     *)
(* only followed by their hash and count.  Records come from any peer;    *)
(* the list has checked the record's signature, so its author is one of   *)
(* the identities, but nothing else about it is trusted.                  *)
(***************************************************************************)
EXTENDS Integers, Sequences, SequencesExt

CONSTANTS
    Users,          \* identities
    RootUser,       \* the identity of the ACL root
    Local,          \* st.identity: the node's own identity (not a user)
    InviteKeys,     \* accept public keys of invites
    Hashes,         \* read-key hashes a record may carry (0 excluded)
    MaxContents,    \* bound on the contents of one record
    MaxRecords      \* bound on the records applied

ASSUME RootUser \in Users /\ Local \notin Users /\ 0 \notin Hashes

Perms == {"Admin", "Writer"}
NoPerm == "none"

Content ==
    [type : {"perm", "add"}, who : Users, perm : Perms] \cup
    [type : {"remove"}, who : Users] \cup
    [type : {"invite"}, key : InviteKeys, perm : Perms] \cup
    [type : {"join"}, key : InviteKeys, who : Users, sigOk : BOOLEAN]

Record == [author : Users, hash : Hashes,
           contents : UNION {[1..n -> Content] : n \in 0..MaxContents}]

VARIABLES
    userStates,             \* userStates[u]: u's permission, or NoPerm
    userInvites,            \* userInvites[k]: the invite's permission, or NoPerm
    currentReadKeyHash,
    totalReadKeys,
    permissionsAtRecord,    \* the userStates after each accepted record
    calls,                  \* records applied so far
    accepted,               \* the records applyRecord accepted, in order
    last                    \* the record of the latest applyRecord call

vars == <<userStates, userInvites, currentReadKeyHash, totalReadKeys,
          permissionsAtRecord, calls, accepted, last>>

Users0 == [u \in Users |-> IF u = RootUser THEN "Admin" ELSE NoPerm]

\* applyRoot: the root's identity is added to the users as Admin; without
\* signing and encryption keys (the node's state) no read key is saved.
ApplyRoot(states) == [states EXCEPT ![RootUser] = "Admin"]

TypeOK ==
    /\ userStates \in [Users -> Perms \cup {NoPerm}]
    /\ userInvites \in [InviteKeys -> Perms \cup {NoPerm}]
    /\ currentReadKeyHash \in {0} \cup Hashes
    /\ totalReadKeys \in 0..MaxRecords
    /\ permissionsAtRecord \in Seq([Users -> Perms \cup {NoPerm}])
    /\ calls \in 0..MaxRecords
    /\ accepted \in Seq(Record)

\* The root record: applyRoot makes its identity the only (admin) user and
\* permissionsAtRecord[root] holds it; without keys no read key is saved.
Init ==
    /\ userStates = ApplyRoot([u \in Users |-> NoPerm])
    /\ userInvites = [k \in InviteKeys |-> NoPerm]
    /\ currentReadKeyHash = 0 /\ totalReadKeys = 0
    /\ permissionsAtRecord = <<Users0>>
    /\ calls = 0 /\ accepted = <<>>
    /\ last = [author |-> RootUser, hash |-> 0, contents |-> <<>>]

\* hasPermission: the user exists and has exactly that permission.
HasPermission(u, perm) == userStates[u] = perm

\* isUserJoin: the first content of the record is a UserJoin (a record
\* without contents decodes to a nil list).
IsUserJoin(contents) == contents # <<>> /\ contents[1].type = "join"

\* applyChangeContent on the state s = [users, invites, err]: the handler
\* of the content's type; an error stops the record with what was done.
ApplyContent(s, ch) ==
    LET u == s.users
        Err == [s EXCEPT !.err = TRUE]
    IN  IF s.err THEN s ELSE
        CASE ch.type = "perm" ->
                IF u[ch.who] = NoPerm THEN Err
                ELSE [s EXCEPT !.users[ch.who] = ch.perm]
          [] ch.type = "add" ->
                IF u[ch.who] # NoPerm THEN Err
                ELSE [s EXCEPT !.users[ch.who] = ch.perm]
          [] ch.type = "remove" ->
                IF ch.who = Local \/ u[ch.who] = NoPerm THEN Err
                ELSE [s EXCEPT !.users[ch.who] = NoPerm]
          [] ch.type = "invite" ->
                [s EXCEPT !.invites[ch.key] = ch.perm]
          [] ch.type = "join" ->
                IF \/ s.invites[ch.key] = NoPerm
                   \/ u[ch.who] # NoPerm
                   \/ ~ch.sigOk
                THEN Err
                ELSE [s EXCEPT !.users[ch.who] = s.invites[ch.key]]

\* The loop of applyChangeData over the record's contents.
ApplyContents(contents) ==
    FoldLeft(ApplyContent,
             [users |-> userStates, invites |-> userInvites, err |-> FALSE],
             contents)

\* Mutant of ApplyRecord: the deferred read-key update ignores the error.
ApplyRecordRotatesOnError(rec) ==
    LET r == ApplyContents(rec.contents) IN
    /\ calls < MaxRecords
    /\ calls' = calls + 1 /\ last' = rec
    /\ IF IsUserJoin(rec.contents) \/ HasPermission(rec.author, "Admin")
       THEN /\ userStates' = r.users /\ userInvites' = r.invites
            /\ IF rec.hash # currentReadKeyHash
               THEN /\ currentReadKeyHash' = rec.hash
                    /\ totalReadKeys' = totalReadKeys + 1
               ELSE UNCHANGED <<currentReadKeyHash, totalReadKeys>>
            /\ IF r.err
               THEN UNCHANGED <<permissionsAtRecord, accepted>>
               ELSE /\ permissionsAtRecord' = Append(permissionsAtRecord, r.users)
                    /\ accepted' = Append(accepted, rec)
       ELSE UNCHANGED <<userStates, userInvites, currentReadKeyHash,
                        totalReadKeys, permissionsAtRecord, accepted>>

\* applyRecord of a non-root record: applyChangeData checks that the author
\* is an admin unless the record starts with a UserJoin, applies the
\* contents, and on success takes the record's read-key hash (counting a
\* new key) and stores the users' permissions at the record.  An error
\* returns with the contents applied so far left in the state.
ApplyRecord(rec) ==
    LET r == ApplyContents(rec.contents) IN
    /\ calls < MaxRecords
    /\ calls' = calls + 1 /\ last' = rec
    /\ IF IsUserJoin(rec.contents) \/ HasPermission(rec.author, "Admin")
       THEN /\ userStates' = r.users /\ userInvites' = r.invites
            /\ IF r.err
               THEN UNCHANGED <<currentReadKeyHash, totalReadKeys,
                                permissionsAtRecord, accepted>>
               ELSE /\ IF rec.hash # currentReadKeyHash
                       THEN /\ currentReadKeyHash' = rec.hash
                            /\ totalReadKeys' = totalReadKeys + 1
                       ELSE UNCHANGED <<currentReadKeyHash, totalReadKeys>>
                    /\ permissionsAtRecord' = Append(permissionsAtRecord, r.users)
                    /\ accepted' = Append(accepted, rec)
       ELSE UNCHANGED <<userStates, userInvites, currentReadKeyHash,
                        totalReadKeys, permissionsAtRecord, accepted>>

Next == \E rec \in Record : ApplyRecord(rec)

Spec == Init /\ [][Next]_vars

----------------------------------------------------------------------------
(* Properties                                                              *)

\* The number of read-key changes along a sequence of records, from 0.
RECURSIVE Rotations(_, _)
Rotations(recs, h) ==
    IF recs = <<>> THEN 0
    ELSE (IF Head(recs).hash # h THEN 1 ELSE 0) + Rotations(Tail(recs), Head(recs).hash)

\* Only accepted records move the read key: the current hash is that of the
\* last accepted record, totalReadKeys counts the key changes along the
\* accepted records, and permissionsAtRecord has an entry for the root and
\* each accepted record, none for a rejected one.
KeysFollowAcceptedRecords ==
    /\ currentReadKeyHash = IF accepted = <<>> THEN 0 ELSE Last(accepted).hash
    /\ totalReadKeys = Rotations(accepted, 0)
    /\ Len(permissionsAtRecord) = Len(accepted) + 1

\* Only an admin changes or removes the permission of an existing user; a
\* record that is not the author's own admin act can at most admit a new
\* user through an invite (spec 8.6, Authorization).
NoEscalation ==
    [][\A u \in Users :
          userStates[u] # NoPerm /\ userStates'[u] # userStates[u]
              => HasPermission(last'.author, "Admin")]_vars

=============================================================================
