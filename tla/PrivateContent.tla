--------------------------- MODULE PrivateContent ---------------------------
(***************************************************************************)
(* Private content of one identity on its home installation: devices are   *)
(* enrolled and revoked (jolt-server/src/device_authority.rs), apps publish,*)
(* open and rewrap encrypted objects (routes/app_api.rs), and the daemon    *)
(* keeps the identity's encryption key (jolt-network/src/node/encryption.rs).*)
(*                                                                         *)
(* A request is a task of the server that sends one command after another  *)
(* to the daemon; other requests, a failure or a restart may come between  *)
(* any two of them.  What a task has read is in its record.  The session   *)
(* checks in front of every request are in AppSessions.                    *)
(***************************************************************************)
EXTENDS Integers, SequencesExt, FiniteSets

CONSTANTS Me,          \* the identity, and its root key
          Records,     \* Records[i]: the key record another identity i has published
          Addressed,   \* the sequences of identities that apps encrypt for
          Now,         \* the time, which only the validity of keys depends on
          Enrolments,  \* enrolment requests: [signing, keys]
          Enrollers,   \* enrolment requests that may be in progress at once
          Tasks,       \* app requests that may be in progress at once
          MaxChain,    \* bound: records of the authority chain
          MaxObjects,  \* bound: encrypted objects that are published
          MaxFaults    \* bound: failures and restarts

Authority == INSTANCE IdentityAuthority
Object == INSTANCE EncryptedObject

VARIABLES chain,       \* local_device_authority_records: memory and disk
          key,         \* the encryption key: memory, disk, published flag and record
          objects,     \* the encrypted objects published at the path, latest last
          task,        \* task[t]: the request t and what it has read
          generated,   \* auxiliary: how many keys were generated
          faults

vars == <<chain, key, objects, task, generated, faults>>

Failed == Object!Failed
Idle == [at |-> "idle"]
NoKey == [public |-> 0]
LocalKeyId == "enc_x25519_local_v0"

\* "dev_" and the identity of the signing key.
DeviceId(signing) == <<"dev", signing>>

Fails == faults < MaxFaults /\ faults' = faults + 1

Goes(t, next) == task' = [task EXCEPT ![t] = next]

Init == /\ chain = <<Authority!genesis(Me, Authority!authorize_device(DeviceId(Me), Me))>>
        /\ key = [memory |-> NoKey, disk |-> NoKey, published |-> FALSE, record |-> NoKey]
        /\ objects = <<>>
        /\ task = [t \in Tasks \cup Enrollers |-> Idle]
        /\ generated = 0
        /\ faults = 0

(***************************************************************************)
(* The daemon's commands                                                   *)
(***************************************************************************)
DevicesNow == Authority!verify_identity_authority_chain(Me, chain).devices

\* append_local_device_authority_operation: the longer chain is verified
\* and saved, and memory follows the save.
Appended(op) == Append(chain, Authority!append(Last(chain), op))

Accepted(op) ==
    /\ Authority!append(Last(chain), op) # Authority!Failed
    /\ Authority!verify_identity_authority_chain(Me, Appended(op)) # Authority!Failed

MyKeypair(public) ==
    Object!generate_identity_encryption_keypair(Me, LocalKeyId, public, 0)

\* ensure_local_identity_encryption_key, as far as it gets: a key is generated
\* and saved before it is used, and its record is published once per start.
KeyNotSaved == key.memory = NoKey /\ Fails /\ generated' = generated + 1 /\ UNCHANGED key

\* Faulty: the key is used although it was not saved.
Saved_MemoryOnly ==
    IF key.memory = NoKey
      THEN [key EXCEPT !.memory = [public |-> generated + 1]]
      ELSE key

Saved ==
    IF key.memory = NoKey
      THEN [key EXCEPT !.memory = [public |-> generated + 1], !.disk = [public |-> generated + 1]]
      ELSE key

KeySaved == generated' = IF key.memory = NoKey THEN generated + 1 ELSE generated

KeyNotPublished == ~key.published /\ Fails /\ KeySaved /\ key' = Saved

Ensured ==
    /\ KeySaved
    /\ key' = IF key.published THEN key
              ELSE [Saved EXCEPT !.published = TRUE, !.record = Saved.memory]
    /\ UNCHANGED faults

(***************************************************************************)
(* Enrolment and revocation                                                *)
(***************************************************************************)
KeyIds(devices) ==
    UNION {{k.key_id : k \in ToSet(devices[d].keys)} : d \in DOMAIN devices}

\* The checks of authorize_device against the chain it has read.
Enrollable(devices, request) ==
    /\ request.signing # Authority!Malformed
    /\ request.keys # <<>>
    /\ \A i \in DOMAIN request.keys :
          /\ request.keys[i].suite = Object!SuiteFamily
          /\ request.keys[i].public # Authority!MalformedKey
          /\ request.keys[i].key_id \notin KeyIds(devices)
          /\ \A j \in 1..(i - 1) : request.keys[j].key_id # request.keys[i].key_id
    /\ DeviceId(request.signing) \notin DOMAIN devices

BeginEnrol(t, request) ==
    /\ task[t] = Idle
    /\ Enrollable(DevicesNow, request)
    /\ Goes(t, [at |-> "enrol", request |-> request])
    /\ UNCHANGED <<chain, key, objects, generated, faults>>

\* The checks are not made again when the record is appended.
Enrol(t) ==
    /\ task[t].at = "enrol"
    /\ Len(chain) < MaxChain
    /\ LET r == task[t].request
           op == Authority!authorize_device_with_encryption_keys(DeviceId(r.signing), r.signing,
                                                                  r.keys)
       IN  Accepted(op) /\ chain' = Appended(op)
    /\ Goes(t, Idle)
    /\ UNCHANGED <<key, objects, generated, faults>>

Revoke(signing) ==
    /\ Len(chain) < MaxChain
    /\ LET op == Authority!revoke_device(DeviceId(signing), Authority!NoCutoff)
       IN  Accepted(op) /\ chain' = Appended(op)
    /\ UNCHANGED <<key, objects, task, generated, faults>>

(***************************************************************************)
(* Recipients                                                              *)
(***************************************************************************)
\* Faulty: the keys of revoked devices are recipients too.
ActiveKeys_All(devices) ==
    UNION {{[device |-> d, key |-> k] : k \in ToSet(devices[d].keys)} : d \in DOMAIN devices}

\* active_authorized_device_encryption_recipients; identity_encryption_key
\* gives the keys the fields they lack.
ActiveKeys(devices) ==
    UNION {{[device |-> d, key |-> k] : k \in ToSet(devices[d].keys)} :
              d \in {e \in DOMAIN devices : devices[e].status = "active"}}

Recipient(identity, k) == [identity |-> identity, key |-> k]

push_unique_recipient(recipients, r) ==
    IF \E i \in DOMAIN recipients : /\ recipients[i].identity = r.identity
                                    /\ recipients[i].key.key_id = r.key.key_id
      THEN recipients
      ELSE Append(recipients, r)

\* The devices come in the order of their ids, which are hashes: here in that
\* of their keys.
push_local_recipient_keys(recipients, localKey, active) ==
    FoldLeft(push_unique_recipient,
             push_unique_recipient(recipients, Recipient(Me, localKey)),
             SetToSortSeq({Recipient(Me, a.key) : a \in active},
                          LAMBDA r, s : r.key.public < s.key.public))

KeysOfOther(i) ==
    Object!verify_identity_encryption_key_record_for_identity(i, Records[i], Now)

\* resolve_recipient_keys; to is the sequence of the identities that the app
\* names, whose own place in it decides where its keys stand.
resolve_recipient_keys(to, localKey, active) ==
    LET Recipients(i) == [n \in DOMAIN KeysOfOther(i).keys |-> Recipient(i, KeysOfOther(i).keys[n])]
        Pushed(keys, i) == IF i = Me THEN push_local_recipient_keys(keys, localKey, active)
                           ELSE keys \o Recipients(i)
    IN  FoldLeft(Pushed, <<>>, IF Me \in ToSet(to) THEN to ELSE Append(to, Me))

(***************************************************************************)
(* Requests about encrypted objects                                        *)
(***************************************************************************)
Revoked == {d \in DOMAIN DevicesNow : DevicesNow[d].status = "revoked"}

\* publish_encrypted and append_encrypted; barred is auxiliary: the devices
\* that were revoked when the request came.
BeginPublish(t, to) ==
    /\ task[t] = Idle
    /\ Goes(t, [at |-> "ensure", to |-> to, barred |-> Revoked,
                plaintext |-> [text |-> Len(objects) + 1]])
    /\ UNCHANGED <<chain, key, objects, generated, faults>>

Decrypted(i) ==
    IF key.memory = NoKey THEN Failed
    ELSE Object!decrypt_encrypted_object_for_recipient(objects[i], MyKeypair(key.memory.public))

\* rewrap_encrypted: the object is decrypted, and encrypted for this identity.
BeginRewrap(t, i) ==
    /\ task[t] = Idle
    /\ Decrypted(i) # Failed
    /\ Goes(t, [at |-> "ensure", to |-> <<>>, barred |-> Revoked, plaintext |-> Decrypted(i)])
    /\ UNCHANGED <<chain, key, objects, generated, faults>>

EnsureKey(t) ==
    /\ task[t].at = "ensure"
    /\ Ensured
    /\ Goes(t, [task[t] EXCEPT !.at = "recipients"] @@ [localKey |-> key'.memory])
    /\ UNCHANGED <<chain, objects>>

EnsureKeyFails(t) ==
    /\ task[t].at = "ensure"
    /\ KeyNotSaved \/ KeyNotPublished
    /\ Goes(t, Idle)
    /\ UNCHANGED <<chain, objects>>

ReadRecipients(t) ==
    /\ task[t].at = "recipients"
    /\ Goes(t, [task[t] EXCEPT !.at = "publish"] @@ [active |-> ActiveKeys(DevicesNow)])
    /\ UNCHANGED <<chain, key, objects, generated, faults>>

\* The record of a recipient has no usable key: the request fails.
RecipientHasNoKey(t) ==
    /\ task[t].at = "publish"
    /\ \E i \in ToSet(task[t].to) \ {Me} : KeysOfOther(i) = Failed
    /\ Goes(t, Idle)
    /\ UNCHANGED <<chain, key, objects, generated, faults>>

\* encrypt_object reads nothing that changes; the publication ends the request.
Publish(t) ==
    /\ task[t].at = "publish"
    /\ \A i \in ToSet(task[t].to) \ {Me} : KeysOfOther(i) # Failed
    /\ Len(objects) < MaxObjects
    /\ LET localKey == MyKeypair(task[t].localKey.public).key
           recipients == resolve_recipient_keys(task[t].to, localKey, task[t].active)
           e == Object!encrypt(Me, task[t].plaintext, "text", recipients, Now,
                               [content_key |-> Len(objects) + 1])
       IN  objects' = Append(objects, e @@ [barred |-> task[t].barred])
    /\ Goes(t, Idle)
    /\ UNCHANGED <<chain, key, generated, faults>>

\* Faulty: a wrap for any device key of the identity counts for all of them.
MissingActiveKey_Any(e, active) ==
    active # {} /\ ~\E a \in active : \E i \in DOMAIN e.body.wraps :
        e.body.wraps[i].identity = Me /\ e.body.wraps[i].key_id = a.key.key_id

\* encrypted_access_status compares identities and key ids.
MissingActiveKey(e, active) ==
    \E a \in active : ~\E i \in DOMAIN e.body.wraps :
        e.body.wraps[i].identity = Me /\ e.body.wraps[i].key_id = a.key.key_id

ReadAccess(t, i) ==
    /\ task[t] = Idle
    /\ Goes(t, [at |-> "open", object |-> i, active |-> ActiveKeys(DevicesNow),
                access |-> IF MissingActiveKey(objects[i], ActiveKeys(DevicesNow))
                             THEN "needs_rewrap" ELSE "available"])
    /\ UNCHANGED <<chain, key, objects, generated, faults>>

\* open_encrypted: the status counts only if the object can be decrypted;
\* decrypt_encrypted is the same without it.
Access(t) == IF Decrypted(task[t].object) = Failed THEN "not_accessible" ELSE task[t].access

Open(t) ==
    /\ task[t].at = "open"
    /\ Goes(t, Idle)
    /\ UNCHANGED <<chain, key, objects, generated, faults>>

(***************************************************************************)
(* Failures and restarts                                                   *)
(***************************************************************************)
\* A command that saves or publishes fails: the request ends with its error.
CommandFails(t) ==
    /\ task[t].at \in {"enrol", "publish"}
    /\ Fails
    /\ Goes(t, Idle)
    /\ UNCHANGED <<chain, key, objects, generated>>

\* load_persisted_local_encryption_key
Restart ==
    /\ Fails
    /\ task' = [t \in DOMAIN task |-> Idle]
    /\ key' = [key EXCEPT !.memory = key.disk, !.published = FALSE]
    /\ UNCHANGED <<chain, objects, generated>>

Next == \/ \E t \in Enrollers :
             (\E r \in Enrolments : BeginEnrol(t, r)) \/ Enrol(t) \/ CommandFails(t)
        \/ \E t \in Tasks :
             \/ \E to \in Addressed : BeginPublish(t, to)
             \/ \E i \in DOMAIN objects : BeginRewrap(t, i) \/ ReadAccess(t, i)
             \/ EnsureKey(t) \/ EnsureKeyFails(t) \/ ReadRecipients(t)
             \/ RecipientHasNoKey(t) \/ Publish(t) \/ Open(t) \/ CommandFails(t)
        \/ \E r \in Enrolments : Revoke(r.signing)
        \/ Restart

Spec == Init /\ [][Next]_vars

(***************************************************************************)
(* Properties                                                              *)
(***************************************************************************)
Opens(e, identity, k) ==
    Object!decrypt_encrypted_object_for_recipient(e, [identity |-> identity, key |-> k]) # Failed

\* Whatever saves and publications fail and whenever the daemon restarts, the
\* key on disk opens every object the identity has published, and it is the
\* key the published record tells others to encrypt for
\* (ensure_local_identity_encryption_key saves a key before it is used).
OwnObjectsStayReadable ==
    /\ \A i \in DOMAIN objects : /\ key.disk # NoKey
                                 /\ Opens(objects[i], Me, MyKeypair(key.disk.public).key)
    /\ key.record # NoKey => key.record = key.disk

\* Another key that the chain has named has the same id, or the local one has.
SharesItsId(k) ==
    \/ k.key_id = LocalKeyId
    \/ \E i \in DOMAIN chain :
          /\ chain[i].body.operation.type = "AuthorizeDevice"
          /\ \E other \in ToSet(chain[i].body.operation.keys) :
                other.key_id = k.key_id /\ other.public # k.public

\* An object that open_encrypted reports as available can be opened with the
\* key of every device that was active when the status was computed, unless
\* another key of the identity has the same key id
\* (encrypted_access_status, push_unique_recipient).
AvailableIsTrue ==
    [][\A t \in Tasks : Open(t) /\ Access(t) = "available" =>
          \A a \in task[t].active :
              Opens(objects[task[t].object], Me, a.key) \/ SharesItsId(a.key)]_vars

\* The records of the chain about the device d.
About(d) == SelectSeq(chain, LAMBDA r : r.body.operation.device = d)

EnrolledAgain(d) ==
    \E i, j \in DOMAIN About(d) : i < j /\ About(d)[i].body.operation.type = "RevokeDevice"
                                        /\ About(d)[j].body.operation.type = "AuthorizeDevice"

KeysOf(d) == UNION {ToSet(r.keys) : r \in {q \in Enrolments : DeviceId(q.signing) = d}}

\* What is published or rewrapped by a request that came after a revocation
\* cannot be opened by the revoked device, unless an enrolment that was under
\* way has authorized it again (active_authorized_device_encryption_recipients).
RevokedDevicesAreLeftOut ==
    \A i \in DOMAIN objects : \A d \in objects[i].barred :
        EnrolledAgain(d) \/ \A k \in KeysOf(d) : ~Opens(objects[i], Me, k)
=============================================================================
