------------------------- MODULE CryptoBuffersProofs ------------------------
(***************************************************************************)
(* Proofs about CryptoBuffers for any set of buffers of any lengths and     *)
(* kinds and any number of lockers the caller holds.                        *)
(*                                                                         *)
(* Unlocking restores NoAccess on a buffer that no other locker covers.     *)
(* That is so because a buffer that records its state is locked at most     *)
(* once at a time: by the caller or by one argument of the running function *)
(* (LockedOnce).  A Vec records nothing and may be locked many times over.  *)
(***************************************************************************)
EXTENDS CryptoBuffers, TLAPS

States == {"ReadOnly", "ReadWrite"}

\* The lockers of buffers, and those of arguments that may be None.
Lockers == [buffer : Buffers, state : States]
Arguments == [buffer : Buffers \cup {NoBuffer}, state : States]

\* A function that runs: its arguments, and lockers of existing buffers only.
CallOK ==
    call # Idle =>
        /\ call.op # "none"
        /\ call \in [op : {call.op}, todo : Seq(Lockers), taken : Seq(Buffers)]

\* A buffer that records its state is locked by one holder at a time.
LockedOnce ==
    call # Idle =>
        \A i \in 1 .. Len(call.taken) : call.taken[i] \in Tracked =>
            /\ held[call.taken[i]] = "none"
            /\ \A j \in 1 .. Len(call.taken) : call.taken[i] = call.taken[j] => i = j

IInv == NothingLeftOpen /\ CallOK /\ LockedOnce

-----------------------------------------------------------------------------
(* The operators.                                                          *)

LEMMA KindFacts ==
    /\ Plain \subseteq Buffers /\ SecBufs \subseteq Buffers /\ Tracked \subseteq Buffers
    /\ Paged \subseteq Tracked
    /\ \A b \in Buffers : Kind[b] = "SecureBuffer" => b \in Paged /\ b \notin SecBufs
  BY DEF Plain, SecBufs, Tracked, Paged

LEMMA LockerTypes ==
    /\ \A b \in Buffers : R(b) \in Lockers /\ W(b) \in Lockers
    /\ \A b \in Buffers \cup {NoBuffer} : R(b) \in Arguments /\ W(b) \in Arguments
    /\ \A l \in Arguments : l.buffer # NoBuffer => l \in Lockers
    /\ Lockers \subseteq Arguments
  BY DEF Lockers, Arguments, R, W, States

LEMMA SequenceOf ==
    ASSUME NEW S, NEW T, NEW s \in Seq(S), \A k \in 1 .. Len(s) : s[k] \in T
    PROVE  s \in Seq(T)
  OBVIOUS

\* The lockers of the arguments that are not None: all but perhaps the first.
LEMMA GivenLockers ==
    ASSUME NEW s \in Seq(Arguments),
           \A i \in 1 .. Len(s) : i # 1 => s[i].buffer # NoBuffer
    PROVE  Given(s) \in Seq(Lockers)
<1>1. CASE s = << >>
  BY <1>1 DEF Given
<1>2. CASE s # << >> /\ Head(s).buffer = NoBuffer
  <2>1. Tail(s) \in Seq(Arguments)
    BY <1>2
  <2>2. \A k \in 1 .. Len(Tail(s)) : Tail(s)[k] \in Lockers
    <3>1. ASSUME NEW k \in 1 .. Len(Tail(s)) PROVE Tail(s)[k] \in Lockers
      <4>1. k + 1 \in 1 .. Len(s) /\ k + 1 # 1 /\ Tail(s)[k] = s[k + 1]
        BY <1>2, <3>1
      <4>2. s[k + 1] \in Arguments /\ s[k + 1].buffer # NoBuffer
        BY <4>1
      <4> QED
        BY <4>1, <4>2, LockerTypes
    <3> QED
      BY <3>1
  <2>3. Tail(s) \in Seq(Lockers)
    BY <2>1, <2>2, SequenceOf
  <2> QED
    BY <1>2, <2>3 DEF Given
<1>3. CASE s # << >> /\ Head(s).buffer # NoBuffer
  <2>1. \A k \in 1 .. Len(s) : s[k] \in Lockers
    <3>1. ASSUME NEW k \in 1 .. Len(s) PROVE s[k] \in Lockers
      <4>1. s[k] \in Arguments /\ s[k].buffer # NoBuffer
        BY <1>3
      <4> QED
        BY <4>1, LockerTypes
    <3> QED
      BY <3>1
  <2>2. s \in Seq(Lockers)
    BY <2>1, SequenceOf
  <2> QED
    BY <1>3, <2>2 DEF Given
<1> QED
  BY <1>1, <1>2, <1>3

\* Protect puts one buffer, and its pages with it, in a state.
LEMMA ProtectEffect ==
    ASSUME TypeOK, NEW b \in Buffers, NEW state \in ProtectState, Protect(b, state)
    PROVE  /\ p' \in [Buffers -> ProtectState] /\ mem' \in [Buffers -> ProtectState]
           /\ \A c \in Buffers : c # b => p'[c] = p[c] /\ mem'[c] = mem[c]
           /\ b \in Tracked => p'[b] = state
           /\ b \notin Tracked => p'[b] = p[b]
           /\ b \in Paged => mem'[b] = state
           /\ b \notin Paged => mem'[b] = mem[b]
  BY DEF TypeOK, Protect

\* No call ends with a panic of libsodium.
LEMMA ResultsFacts ==
    ASSUME NEW op PROVE "panic" \notin Results(op) /\ "none" \notin Results(op)
  BY DEF Results, Fallible

\* The protection of the buffers after a step that puts b in a state of its own
\* and nothing else, if b is locked afterwards just when it is accessible.
LEMMA ProtectKeepsClosed ==
    ASSUME NothingLeftOpen, NEW b \in Buffers, NEW state \in ProtectState, Protect(b, state),
           held' \in [Buffers -> {"none", "read", "write"}],
           b \in Tracked => (state # "NoAccess" <=> Locked(b)'),
           \A c \in Buffers \ {b} : Locked(c)' <=> Locked(c)
    PROVE  NothingLeftOpen'
<1> USE KindFacts DEF NothingLeftOpen
<1>1. /\ p' \in [Buffers -> ProtectState] /\ mem' \in [Buffers -> ProtectState]
      /\ \A c \in Buffers : c # b => p'[c] = p[c] /\ mem'[c] = mem[c]
      /\ b \in Tracked => p'[b] = state
      /\ b \notin Tracked => p'[b] = p[b]
      /\ b \in Paged => mem'[b] = state
      /\ b \notin Paged => mem'[b] = mem[b]
  BY ProtectEffect
<1>2. TypeOK'
  <2>1. \A c \in Buffers \ Tracked : p'[c] = "NoAccess"
    BY <1>1 DEF TypeOK
  <2>2. \A c \in Buffers \ Paged : mem'[c] = "ReadWrite"
    BY <1>1 DEF TypeOK
  <2> QED
    BY <1>1, <2>1, <2>2 DEF TypeOK
<1>3. \A c \in Tracked : p'[c] # "NoAccess" <=> Locked(c)'
  <2>1. ASSUME NEW c \in Tracked PROVE p'[c] # "NoAccess" <=> Locked(c)'
    <3>1. CASE c = b
      BY <1>1, <3>1
    <3>2. CASE c # b
      BY <1>1, <3>2
    <3> QED
      BY <3>1, <3>2
  <2> QED
    BY <2>1
<1>4. \A c \in Paged : mem'[c] # "NoAccess" => mem'[c] = p'[c]
  BY <1>1
<1>5. \A c \in Buffers : Kind[c] = "SecureBuffer" => mem'[c] = p'[c]
  BY <1>1
<1> QED
  BY <1>2, <1>3, <1>4, <1>5

-----------------------------------------------------------------------------
(* The start of a function.                                                *)

\* The lists of arguments: only the first of one may be None.
Lists == {s \in Seq(Arguments) : \A i \in 1 .. Len(s) : i # 1 => s[i].buffer # NoBuffer}

\* A function keeps the invariant when it starts, whatever it checks first.
LEMMA BeginKeepsIInv ==
    ASSUME IInv, NEW op, op # "none", NEW checks, NEW locks \in Lists, Begin(op, checks, locks)
    PROVE  IInv'
<1>1. /\ \/ call' = [op |-> op, todo |-> << >>, taken |-> << >>]
         \/ call' = [op |-> op, todo |-> Given(locks), taken |-> << >>]
      /\ call = Idle /\ UNCHANGED <<p, mem, held>>
  BY DEF Begin
<1>2. Given(locks) \in Seq(Lockers) /\ << >> \in Seq(Lockers) /\ << >> \in Seq(Buffers)
  BY GivenLockers DEF Lists
<1>3. call' \in [op : {op}, todo : Seq(Lockers), taken : Seq(Buffers)]
  <2>1. PICK todo \in Seq(Lockers) : call' = [op |-> op, todo |-> todo, taken |-> << >>]
    BY <1>1, <1>2
  <2> QED
    BY <1>2, <2>1
<1>4. call'.taken = << >> /\ call'.op = op
  BY <1>1
<1>5. NothingLeftOpen'
  BY <1>1, <1>4 DEF IInv, NothingLeftOpen, TypeOK, Locked, Range
<1>6. CallOK'
  BY <1>3, <1>4 DEF CallOK
<1>7. LockedOnce'
  BY <1>4 DEF LockedOnce
<1> QED
  BY <1>5, <1>6, <1>7 DEF IInv

-----------------------------------------------------------------------------
(* The functions, one after the other.                                     *)

LEMMA ListsOfLockers ==
    ASSUME NEW a \in Arguments, NEW b \in Lockers, NEW c \in Lockers,
           NEW d \in Lockers, NEW e \in Lockers
    PROVE  << >> \in Lists /\ <<a>> \in Lists /\ <<a, b>> \in Lists /\ <<a, b, c>> \in Lists
           /\ <<a, b, c, d, e>> \in Lists
<1>1. /\ b \in Arguments /\ c \in Arguments /\ d \in Arguments /\ e \in Arguments
      /\ b.buffer # NoBuffer /\ c.buffer # NoBuffer /\ d.buffer # NoBuffer /\ e.buffer # NoBuffer
  BY BuffersAssumption DEF Lockers, Arguments
<1> HIDE DEF Lockers, Arguments
<1>2. /\ << >> \in Seq(Arguments) /\ <<a>> \in Seq(Arguments) /\ <<a, b>> \in Seq(Arguments)
      /\ <<a, b, c>> \in Seq(Arguments) /\ <<a, b, c, d, e>> \in Seq(Arguments)
  BY <1>1
<1>3. <<a, b, c, d, e>> \in Lists
  BY <1>1, <1>2 DEF Lists
<1> QED
  BY <1>1, <1>2, <1>3 DEF Lists

LEMMA SomeArguments ==
    /\ \A b \in Plain \cup SecBufs : b \in Buffers /\ R(b) \in Lockers /\ W(b) \in Lockers
    /\ Lockers \subseteq Arguments
    /\ \A b \in Optional \cup SecBufs \cup {NoBuffer} : R(b) \in Arguments
    /\ << >> \in Lists
  BY LockerTypes, KindFacts DEF Optional, Lists

LEMMA HashSha256Step == IInv /\ hash_sha256 => IInv'
<1> SUFFICES ASSUME IInv, hash_sha256 PROVE IInv'
  OBVIOUS
<1>1. PICK hash \in Plain, data \in Plain :
        Begin("hash_sha256",
              <<Size(hash, Bytes.sha256, "BadHashSize")>>,
              <<W(hash), R(data)>>)
  BY DEF hash_sha256
<1>2. <<W(hash), R(data)>> \in Lists
  BY SomeArguments, ListsOfLockers
<1> QED
  BY <1>1, <1>2, BeginKeepsIInv

LEMMA HashSha512Step == IInv /\ hash_sha512 => IInv'
<1> SUFFICES ASSUME IInv, hash_sha512 PROVE IInv'
  OBVIOUS
<1>1. PICK hash \in Plain, data \in Plain :
        Begin("hash_sha512",
              <<Size(hash, Bytes.sha512, "BadHashSize")>>,
              <<W(hash), R(data)>>)
  BY DEF hash_sha512
<1>2. <<W(hash), R(data)>> \in Lists
  BY SomeArguments, ListsOfLockers
<1> QED
  BY <1>1, <1>2, BeginKeepsIInv

LEMMA GenericHashStep == IInv /\ generic_hash => IInv'
<1> SUFFICES ASSUME IInv, generic_hash PROVE IInv'
  OBVIOUS
<1>1. PICK hash \in Plain, data \in Plain, key \in Optional :
        Begin("generic_hash",
              <<SizeBetween(hash, Bytes.hashMin, Bytes.hashMax, "BadHashSize"),
                KeySize(key)>>,
              <<R(key), W(hash), R(data)>>)
  BY DEF generic_hash
<1>2. <<R(key), W(hash), R(data)>> \in Lists
  BY SomeArguments, ListsOfLockers
<1> QED
  BY <1>1, <1>2, BeginKeepsIInv

LEMMA PwhashStep == IInv /\ pwhash => IInv'
<1> SUFFICES ASSUME IInv, pwhash PROVE IInv'
  OBVIOUS
<1>1. PICK hash \in Plain, password \in Plain, salt \in Plain :
        Begin("pwhash",
              <<Size(hash, Bytes.pwhash, "BadHashSize"),
                Size(salt, Bytes.salt, "BadSaltSize")>>,
              <<W(hash), R(password), R(salt)>>)
  BY DEF pwhash
<1>2. <<W(hash), R(password), R(salt)>> \in Lists
  BY SomeArguments, ListsOfLockers
<1> QED
  BY <1>1, <1>2, BeginKeepsIInv

LEMMA KdfStep == IInv /\ kdf => IInv'
<1> SUFFICES ASSUME IInv, kdf PROVE IInv'
  OBVIOUS
<1>1. PICK out \in Plain, context \in Plain, parent \in Plain :
        Begin("kdf",
              <<SizeBetween(out, Bytes.kdfMin, Bytes.kdfMax, "BadOutBufferSize"),
                Size(parent, Bytes.kdfKey, "BadParentSize"),
                Size(context, Bytes.kdfContext, "BadContextSize")>>,
              <<W(out), R(context), R(parent)>>)
  BY DEF kdf
<1>2. <<W(out), R(context), R(parent)>> \in Lists
  BY SomeArguments, ListsOfLockers
<1> QED
  BY <1>1, <1>2, BeginKeepsIInv

LEMMA SignSeedKeypairStep == IInv /\ sign_seed_keypair => IInv'
<1> SUFFICES ASSUME IInv, sign_seed_keypair PROVE IInv'
  OBVIOUS
<1>1. PICK seed \in Plain, public \in Plain, secret \in Plain :
        Begin("sign_seed_keypair",
              <<Size(seed, Bytes.seed, "BadSeedSize"),
                Size(public, Bytes.signPublic, "BadPublicKeySize"),
                Size(secret, Bytes.signSecret, "BadSecretKeySize")>>,
              <<W(public), W(secret), R(seed)>>)
  BY DEF sign_seed_keypair
<1>2. <<W(public), W(secret), R(seed)>> \in Lists
  BY SomeArguments, ListsOfLockers
<1> QED
  BY <1>1, <1>2, BeginKeepsIInv

LEMMA SignKeypairStep == IInv /\ sign_keypair => IInv'
<1> SUFFICES ASSUME IInv, sign_keypair PROVE IInv'
  OBVIOUS
<1>1. PICK public \in Plain, secret \in Plain :
        Begin("sign_keypair",
              <<Size(public, Bytes.signPublic, "BadPublicKeySize"),
                Size(secret, Bytes.signSecret, "BadSecretKeySize")>>,
              <<W(public), W(secret)>>)
  BY DEF sign_keypair
<1>2. <<W(public), W(secret)>> \in Lists
  BY SomeArguments, ListsOfLockers
<1> QED
  BY <1>1, <1>2, BeginKeepsIInv

LEMMA SignStep == IInv /\ sign => IInv'
<1> SUFFICES ASSUME IInv, sign PROVE IInv'
  OBVIOUS
<1>1. PICK signature \in Plain, message \in Plain, secret \in Plain :
        Begin("sign",
              <<Size(signature, Bytes.signature, "BadSignatureSize"),
                Size(secret, Bytes.signSecret, "BadSecretKeySize")>>,
              <<R(message), R(secret), W(signature)>>)
  BY DEF sign
<1>2. <<R(message), R(secret), W(signature)>> \in Lists
  BY SomeArguments, ListsOfLockers
<1> QED
  BY <1>1, <1>2, BeginKeepsIInv

LEMMA KxClientSessionKeysStep == IInv /\ kx_client_session_keys => IInv'
<1> SUFFICES ASSUME IInv, kx_client_session_keys PROVE IInv'
  OBVIOUS
<1>1. PICK rx \in Plain, tx \in Plain, client_pk \in Plain,
           client_sk \in Plain, server_pk \in Plain :
        Begin("kx_client_session_keys",
              SessionChecks(rx, tx, client_pk, client_sk, server_pk),
              <<W(rx), W(tx), R(client_pk), R(client_sk), R(server_pk)>>)
  BY DEF kx_client_session_keys
<1>2. <<W(rx), W(tx), R(client_pk), R(client_sk), R(server_pk)>> \in Lists
  BY SomeArguments, ListsOfLockers
<1> QED
  BY <1>1, <1>2, BeginKeepsIInv

LEMMA KxServerSessionKeysStep == IInv /\ kx_server_session_keys => IInv'
<1> SUFFICES ASSUME IInv, kx_server_session_keys PROVE IInv'
  OBVIOUS
<1>1. PICK rx \in Plain, tx \in Plain, server_pk \in Plain,
           server_sk \in Plain, client_pk \in Plain :
        Begin("kx_server_session_keys",
              SessionChecks(rx, tx, server_pk, server_sk, client_pk),
              <<W(rx), W(tx), R(server_pk), R(server_sk), R(client_pk)>>)
  BY DEF kx_server_session_keys
<1>2. <<W(rx), W(tx), R(server_pk), R(server_sk), R(client_pk)>> \in Lists
  BY SomeArguments, ListsOfLockers
<1> QED
  BY <1>1, <1>2, BeginKeepsIInv

LEMMA AeadEncryptStep == IInv /\ aead_encrypt => IInv'
<1> SUFFICES ASSUME IInv, aead_encrypt PROVE IInv'
  OBVIOUS
<1>1. PICK cipher \in Plain, message \in Plain, nonce \in Plain,
           secret \in Plain, adata \in Optional :
        Begin("aead_encrypt",
              <<Size(cipher, Length[message] + Bytes.auth, "BadCipherSize"),
                Size(nonce, Bytes.nonce, "BadNonceSize"),
                Size(secret, Bytes.secret, "BadSecretKeySize")>>,
              <<R(adata), W(cipher), R(message), R(nonce), R(secret)>>)
  BY DEF aead_encrypt
<1>2. <<R(adata), W(cipher), R(message), R(nonce), R(secret)>> \in Lists
  BY SomeArguments, ListsOfLockers
<1> QED
  BY <1>1, <1>2, BeginKeepsIInv

LEMMA AeadDecryptStep == IInv /\ aead_decrypt => IInv'
<1> SUFFICES ASSUME IInv, aead_decrypt PROVE IInv'
  OBVIOUS
<1>1. PICK message \in Plain, cipher \in Plain, nonce \in Plain,
           secret \in Plain, adata \in Optional, wraps \in BOOLEAN :
        Begin("aead_decrypt",
              <<Check(wraps \/ Length[cipher] >= Bytes.auth, "panic"),
                Check(Length[cipher] = Length[message] + Bytes.auth, "BadMessageSize"),
                Size(nonce, Bytes.nonce, "BadNonceSize"),
                Size(secret, Bytes.secret, "BadSecretKeySize")>>,
              <<R(adata), W(message), R(cipher), R(nonce), R(secret)>>)
  BY DEF aead_decrypt
<1>2. <<R(adata), W(message), R(cipher), R(nonce), R(secret)>> \in Lists
  BY SomeArguments, ListsOfLockers
<1> QED
  BY <1>1, <1>2, BeginKeepsIInv

\* The functions of SodiumCryptoSystem that are left.
LEMMA OtherCryptoSystemSteps ==
    IInv /\ (randombytes_buf \/ sign_verify \/ kx_seed_keypair \/ kx_keypair \/ write \/ clone)
        => IInv'
<1> SUFFICES ASSUME IInv, randombytes_buf \/ sign_verify \/ kx_seed_keypair \/ kx_keypair \/ write \/ clone
             PROVE  IInv'
  OBVIOUS
<1>1. ASSUME randombytes_buf PROVE IInv'
  <2>1. PICK b \in Plain :
          Begin("randombytes_buf", << >>, <<W(b)>>)
    BY <1>1 DEF randombytes_buf
  <2>2. <<W(b)>> \in Lists
    BY SomeArguments, ListsOfLockers
  <2> QED
    BY <2>1, <2>2, BeginKeepsIInv
<1>2. ASSUME sign_verify PROVE IInv'
  <2>1. PICK signature \in Plain, message \in Plain, public \in Plain :
          Begin("sign_verify",
                <<Size(signature, Bytes.signature, "BadSignatureSize"),
                  Size(public, Bytes.signPublic, "BadPublicKeySize"),
                  Readable(signature),
                  Readable(message),
                  Readable(public)>>,
                << >>)
    BY <1>2 DEF sign_verify
  <2>2. << >> \in Lists
    BY SomeArguments, ListsOfLockers
  <2> QED
    BY <2>1, <2>2, BeginKeepsIInv
<1>3. ASSUME kx_seed_keypair PROVE IInv'
  <2>1. PICK seed \in Plain, public \in Plain, secret \in Plain :
          Begin("kx_seed_keypair",
                <<Size(seed, Bytes.seed, "BadSeedSize"),
                  Size(public, Bytes.kxPublic, "BadPublicKeySize"),
                  Size(secret, Bytes.kxSecret, "BadSecretKeySize")>>,
                <<W(public), W(secret), R(seed)>>)
    BY <1>3 DEF kx_seed_keypair
  <2>2. <<W(public), W(secret), R(seed)>> \in Lists
    BY SomeArguments, ListsOfLockers
  <2> QED
    BY <2>1, <2>2, BeginKeepsIInv
<1>4. ASSUME kx_keypair PROVE IInv'
  <2>1. PICK public \in Plain, secret \in Plain :
          Begin("kx_keypair",
                <<Size(public, Bytes.kxPublic, "BadPublicKeySize"),
                  Size(secret, Bytes.kxSecret, "BadSecretKeySize")>>,
                <<W(public), W(secret)>>)
    BY <1>4 DEF kx_keypair
  <2>2. <<W(public), W(secret)>> \in Lists
    BY SomeArguments, ListsOfLockers
  <2> QED
    BY <2>1, <2>2, BeginKeepsIInv
<1>5. ASSUME write PROVE IInv'
  <2>1. PICK b \in Plain, over \in BOOLEAN :
          Begin("write",
                <<Check(~ over, "WriteOverflow")>>,
                <<W(b)>>)
    BY <1>5 DEF write
  <2>2. <<W(b)>> \in Lists
    BY SomeArguments, ListsOfLockers
  <2> QED
    BY <2>1, <2>2, BeginKeepsIInv
<1>6. ASSUME clone PROVE IInv'
  <2>1. PICK b \in Plain :
          Begin("clone", << >>, <<R(b)>>)
    BY <1>6 DEF clone
  <2>2. <<R(b)>> \in Lists
    BY SomeArguments, ListsOfLockers
  <2> QED
    BY <2>1, <2>2, BeginKeepsIInv
<1> QED
  BY <1>1, <1>2, <1>3, <1>4, <1>5, <1>6

\* The functions on SecBuf.
LEMMA SecBufSteps ==
    IInv /\ SecBufFunctions => IInv'
<1> SUFFICES ASSUME IInv, SecBufFunctions
             PROVE  IInv'
  OBVIOUS
<1>1. ASSUME aead_enc PROVE IInv'
  <2>1. PICK message \in SecBufs, secret \in SecBufs, nonce \in SecBufs,
             cipher \in SecBufs, adata \in SecBufs \cup {NoBuffer} :
          Begin("aead::enc", << >>, <<R(adata), W(cipher), R(message), R(nonce), R(secret)>>)
    BY <1>1 DEF aead_enc
  <2>2. <<R(adata), W(cipher), R(message), R(nonce), R(secret)>> \in Lists
    BY SomeArguments, ListsOfLockers
  <2> QED
    BY <2>1, <2>2, BeginKeepsIInv
<1>2. ASSUME aead_dec PROVE IInv'
  <2>1. PICK message \in SecBufs, secret \in SecBufs, nonce \in SecBufs,
             cipher \in SecBufs, adata \in SecBufs \cup {NoBuffer} :
          Begin("aead::dec", << >>, <<R(adata), W(message), R(cipher), R(nonce), R(secret)>>)
    BY <1>2 DEF aead_dec
  <2>2. <<R(adata), W(message), R(cipher), R(nonce), R(secret)>> \in Lists
    BY SomeArguments, ListsOfLockers
  <2> QED
    BY <2>1, <2>2, BeginKeepsIInv
<1>3. ASSUME hash_sha PROVE IInv'
  <2>1. PICK input \in SecBufs, output \in SecBufs :
          Begin("hash::sha", << >>, <<R(input), W(output)>>)
    BY <1>3 DEF hash_sha
  <2>2. <<R(input), W(output)>> \in Lists
    BY SomeArguments, ListsOfLockers
  <2> QED
    BY <2>1, <2>2, BeginKeepsIInv
<1>4. ASSUME kdf_derive PROVE IInv'
  <2>1. PICK out \in SecBufs, context \in SecBufs, parent \in SecBufs :
          Begin("kdf::derive",
                <<Unlocked(out),
                  Unlocked(context),
                  SizeBetween(out, Bytes.kdfMin, Bytes.kdfMax, "OutputLength"),
                  Size(context, Bytes.kdfContext, "OutputLength")>>,
                <<W(out), R(parent), R(context)>>)
    BY <1>4 DEF kdf_derive
  <2>2. <<W(out), R(parent), R(context)>> \in Lists
    BY SomeArguments, ListsOfLockers
  <2> QED
    BY <2>1, <2>2, BeginKeepsIInv
<1>5. ASSUME kx_secbuf_keypair PROVE IInv'
  <2>1. PICK pk \in SecBufs, sk \in SecBufs :
          Begin("kx::keypair", << >>, <<W(pk), W(sk)>>)
    BY <1>5 DEF kx_secbuf_keypair
  <2>2. <<W(pk), W(sk)>> \in Lists
    BY SomeArguments, ListsOfLockers
  <2> QED
    BY <2>1, <2>2, BeginKeepsIInv
<1>6. ASSUME seed_keypair PROVE IInv'
  <2>1. PICK seed \in SecBufs, pk \in SecBufs, sk \in SecBufs :
          Begin("kx::seed_keypair", << >>, <<R(seed), W(pk), W(sk)>>)
    BY <1>6 DEF seed_keypair
  <2>2. <<R(seed), W(pk), W(sk)>> \in Lists
    BY SomeArguments, ListsOfLockers
  <2> QED
    BY <2>1, <2>2, BeginKeepsIInv
<1>7. ASSUME client_session PROVE IInv'
  <2>1. PICK client_pk \in SecBufs, client_sk \in SecBufs, server_pk \in SecBufs,
             rx \in SecBufs, tx \in SecBufs :
          Begin("kx::session", << >>, <<W(rx), W(tx), R(client_sk), R(client_pk), R(server_pk)>>)
    BY <1>7 DEF client_session
  <2>2. <<W(rx), W(tx), R(client_sk), R(client_pk), R(server_pk)>> \in Lists
    BY SomeArguments, ListsOfLockers
  <2> QED
    BY <2>1, <2>2, BeginKeepsIInv
<1>8. ASSUME server_session PROVE IInv'
  <2>1. PICK server_pk \in SecBufs, server_sk \in SecBufs, client_pk \in SecBufs,
             rx \in SecBufs, tx \in SecBufs :
          Begin("kx::session", << >>, <<W(rx), W(tx), R(client_pk), R(server_sk), R(server_pk)>>)
    BY <1>8 DEF server_session
  <2>2. <<W(rx), W(tx), R(client_pk), R(server_sk), R(server_pk)>> \in Lists
    BY SomeArguments, ListsOfLockers
  <2> QED
    BY <2>1, <2>2, BeginKeepsIInv
<1>9. ASSUME pwhash_hash PROVE IInv'
  <2>1. PICK password \in SecBufs, salt \in SecBufs, hash \in SecBufs :
          Begin("pwhash::hash", << >>, <<R(salt), R(password), W(hash)>>)
    BY <1>9 DEF pwhash_hash
  <2>2. <<R(salt), R(password), W(hash)>> \in Lists
    BY SomeArguments, ListsOfLockers
  <2> QED
    BY <2>1, <2>2, BeginKeepsIInv
<1>10. ASSUME sign_sign PROVE IInv'
  <2>1. PICK message \in SecBufs, secret \in SecBufs, signature \in SecBufs :
          Begin("sign::sign", << >>, <<R(message), R(secret), W(signature)>>)
    BY <1>10 DEF sign_sign
  <2>2. <<R(message), R(secret), W(signature)>> \in Lists
    BY SomeArguments, ListsOfLockers
  <2> QED
    BY <2>1, <2>2, BeginKeepsIInv
<1>11. ASSUME sign_secbuf_verify PROVE IInv'
  <2>1. PICK signature \in SecBufs, message \in SecBufs, public \in SecBufs :
          Begin("sign::verify", << >>, <<R(signature), R(message), R(public)>>)
    BY <1>11 DEF sign_secbuf_verify
  <2>2. <<R(signature), R(message), R(public)>> \in Lists
    BY SomeArguments, ListsOfLockers
  <2> QED
    BY <2>1, <2>2, BeginKeepsIInv
<1>12. ASSUME secbuf_util PROVE IInv'
  <2>1. CASE \E b \in SecBufs, over \in BOOLEAN :
                Begin("secbuf_util", <<Check(~ over, "Generic")>>, <<W(b)>>)
    <3>1. PICK b \in SecBufs, over \in BOOLEAN :
            Begin("secbuf_util", <<Check(~ over, "Generic")>>, <<W(b)>>)
      BY <2>1
    <3>2. <<W(b)>> \in Lists
      BY SomeArguments, ListsOfLockers
    <3> QED
      BY <3>1, <3>2, BeginKeepsIInv
  <2>2. CASE \E a, b \in SecBufs : Begin("secbuf_util", << >>, <<W(a), W(b)>>)
    <3>1. PICK a \in SecBufs, b \in SecBufs : Begin("secbuf_util", << >>, <<W(a), W(b)>>)
      BY <2>2
    <3>2. <<W(a), W(b)>> \in Lists
      BY SomeArguments, ListsOfLockers
    <3> QED
      BY <3>1, <3>2, BeginKeepsIInv
  <2> QED
    BY <1>12, <2>1, <2>2 DEF secbuf_util
<1> QED
  BY <1>1, <1>2, <1>3, <1>4, <1>5, <1>6, <1>7, <1>8, <1>9, <1>10, <1>11, <1>12 DEF SecBufFunctions

LEMMA CryptoSystemSteps == IInv /\ CryptoSystem => IInv'
  BY HashSha256Step, HashSha512Step, GenericHashStep, PwhashStep, KdfStep,
     SignSeedKeypairStep, SignKeypairStep, SignStep, KxClientSessionKeysStep,
     KxServerSessionKeysStep, AeadEncryptStep, AeadDecryptStep,
     OtherCryptoSystemSteps DEF CryptoSystem

-----------------------------------------------------------------------------
(* The steps of the caller and of a running function.                      *)

LEMMA CallFacts ==
    ASSUME IInv, call # Idle
    PROVE  /\ call.op # "none"
           /\ call \in [op : {call.op}, todo : Seq(Lockers), taken : Seq(Buffers)]
           /\ \A i \in 1 .. Len(call.taken) : call.taken[i] \in Tracked =>
                /\ held[call.taken[i]] = "none"
                /\ \A j \in 1 .. Len(call.taken) : call.taken[i] = call.taken[j] => i = j
  BY DEF IInv, CallOK, LockedOnce

\* A step that leaves the running function alone keeps what is said of it.
LEMMA CallUnchanged ==
    ASSUME IInv, UNCHANGED <<call, outcome>>, call = Idle \/ UNCHANGED held
    PROVE  CallOK' /\ LockedOnce'
<1>1. CASE call = Idle
  BY <1>1 DEF CallOK, LockedOnce
<1>2. CASE UNCHANGED held
  BY <1>2 DEF IInv, CallOK, LockedOnce, Tracked
<1> QED
  BY <1>1, <1>2

LEMMA TakeLockStep ==
    ASSUME IInv, NEW b \in Buffers, NEW how \in {"read", "write"}, TakeLock(b, how)
    PROVE  IInv'
<1> DEFINE state == IF how = "read" THEN "ReadOnly" ELSE "ReadWrite"
<1>1. /\ call = Idle /\ held' = [held EXCEPT ![b] = how] /\ Protect(b, state)
      /\ UNCHANGED <<call, outcome>>
  BY DEF TakeLock
<1>2. state \in ProtectState /\ state # "NoAccess"
  BY DEF ProtectState
<1> HIDE DEF state
<1>3. held' \in [Buffers -> {"none", "read", "write"}]
  BY <1>1 DEF IInv, NothingLeftOpen, TypeOK
<1>4. held'[b] # "none" /\ \A c \in Buffers \ {b} : held'[c] = held[c]
  BY <1>1 DEF IInv, NothingLeftOpen, TypeOK
<1>5. Locked(b)' /\ \A c \in Buffers \ {b} : Locked(c)' <=> Locked(c)
  BY <1>1, <1>4 DEF Locked
<1>6. NothingLeftOpen'
  BY <1>1, <1>2, <1>3, <1>5, ProtectKeepsClosed DEF IInv
<1> QED
  BY <1>1, <1>6, CallUnchanged DEF IInv

LEMMA DropLockStep ==
    ASSUME IInv, NEW b \in Buffers, DropLock(b)
    PROVE  IInv'
<1>1. /\ call = Idle /\ held' = [held EXCEPT ![b] = "none"] /\ Protect(b, "NoAccess")
      /\ UNCHANGED <<call, outcome>>
  BY DEF DropLock
<1>2. held' \in [Buffers -> {"none", "read", "write"}]
  BY <1>1 DEF IInv, NothingLeftOpen, TypeOK
<1>3. held'[b] = "none" /\ \A c \in Buffers \ {b} : held'[c] = held[c]
  BY <1>1 DEF IInv, NothingLeftOpen, TypeOK
<1>4. ~ Locked(b)' /\ \A c \in Buffers \ {b} : Locked(c)' <=> Locked(c)
  BY <1>1, <1>3 DEF Locked
<1>5. NothingLeftOpen'
  BY <1>1, <1>2, <1>4, ProtectKeepsClosed DEF IInv, ProtectState
<1> QED
  BY <1>1, <1>5, CallUnchanged DEF IInv

LEMMA ClonePartialStep ==
    ASSUME IInv, NEW b \in SecBufs, ClonePartial(b)
    PROVE  IInv'
<1>1. /\ mem' = IF b \in Paged THEN [mem EXCEPT ![b] = "NoAccess"] ELSE mem
      /\ call = Idle /\ UNCHANGED <<p, held, call, outcome>>
  BY DEF ClonePartial
<1>2. \A c \in Buffers : mem'[c] = IF c = b /\ b \in Paged THEN "NoAccess" ELSE mem[c]
  BY <1>1, KindFacts DEF IInv, NothingLeftOpen, TypeOK
<1>3. mem' \in [Buffers -> ProtectState]
  BY <1>1 DEF IInv, NothingLeftOpen, TypeOK, ProtectState
<1>4. NothingLeftOpen'
  BY <1>1, <1>2, <1>3, KindFacts DEF IInv, NothingLeftOpen, TypeOK, Locked
<1> QED
  BY <1>1, <1>4, CallUnchanged DEF IInv

LEMMA LockStep ==
    ASSUME IInv, Lock
    PROVE  IInv'
<1>1. call # Idle /\ outcome = "none" /\ call.todo # << >> /\ UNCHANGED held
  BY DEF Lock
<1>2. /\ call.op # "none"
      /\ call \in [op : {call.op}, todo : Seq(Lockers), taken : Seq(Buffers)]
      /\ \A i \in 1 .. Len(call.taken) : call.taken[i] \in Tracked =>
           /\ held[call.taken[i]] = "none"
           /\ \A j \in 1 .. Len(call.taken) : call.taken[i] = call.taken[j] => i = j
  BY <1>1, CallFacts
<1>3. Head(call.todo) \in Lockers /\ Tail(call.todo) \in Seq(Lockers)
  BY <1>1, <1>2
<1> PICK l \in Lockers : l = Head(call.todo)
  BY <1>3
<1>4. l.buffer \in Buffers /\ l.state \in ProtectState /\ l.state # "NoAccess"
  BY DEF Lockers, States, ProtectState
<1>5. CASE p[l.buffer] # "NoAccess"
  <2>1. UNCHANGED <<p, mem, call>> /\ outcome' = "panic"
    BY <1>5 DEF Lock
  <2>2. NothingLeftOpen'
    BY <1>1, <2>1 DEF IInv, NothingLeftOpen, TypeOK, Locked, Range
  <2> QED
    BY <1>1, <2>1, <2>2 DEF IInv, CallOK, LockedOnce, Tracked
<1>6. CASE p[l.buffer] = "NoAccess"
  <2>1. /\ Protect(l.buffer, l.state)
        /\ call' = [call EXCEPT !.todo = Tail(@), !.taken = <<l.buffer>> \o @]
        /\ UNCHANGED outcome
    BY <1>6 DEF Lock
  <2>2. call.taken \in Seq(Buffers) /\ <<l.buffer>> \o call.taken \in Seq(Buffers)
    BY <1>2, <1>4
  <2>3. /\ call' = [op |-> call.op, todo |-> Tail(call.todo),
                    taken |-> <<l.buffer>> \o call.taken]
    BY <1>2, <2>1
  <2>4. /\ call'.op = call.op
        /\ call'.taken = <<l.buffer>> \o call.taken
        /\ call' \in [op : {call.op}, todo : Seq(Lockers), taken : Seq(Buffers)]
    BY <1>2, <1>3, <2>2, <2>3
  <2>5. call' # Idle
    BY <1>2, <2>4 DEF Idle
  <2>6. /\ Len(call'.taken) = Len(call.taken) + 1
        /\ call'.taken[1] = l.buffer
        /\ \A i \in 1 .. Len(call'.taken) :
              i # 1 => i - 1 \in 1 .. Len(call.taken) /\ call'.taken[i] = call.taken[i - 1]
        /\ \A i \in 1 .. Len(call.taken) : call'.taken[i + 1] = call.taken[i]
                                            /\ i + 1 \in 1 .. Len(call'.taken)
    BY <2>2, <2>4
  <2>7. Range(call'.taken) = Range(call.taken) \cup {l.buffer}
    <3>1. l.buffer \in Range(call'.taken)
      <4>1. 1 \in 1 .. Len(call'.taken)
        BY <2>2, <2>6
      <4> QED
        BY <2>6, <4>1 DEF Range
    <3>2. ASSUME NEW c \in Range(call.taken) PROVE c \in Range(call'.taken)
      <4>1. PICK i \in 1 .. Len(call.taken) : c = call.taken[i]
        BY <3>2 DEF Range
      <4> QED
        BY <2>6, <4>1 DEF Range
    <3>3. ASSUME NEW c \in Range(call'.taken) PROVE c \in Range(call.taken) \cup {l.buffer}
      <4>1. PICK i \in 1 .. Len(call'.taken) : c = call'.taken[i]
        BY <3>3 DEF Range
      <4> QED
        BY <2>6, <4>1 DEF Range
    <3> QED
      BY <3>1, <3>2, <3>3
  <2>8. l.buffer \in Tracked => ~ Locked(l.buffer)
    BY <1>6 DEF IInv, NothingLeftOpen
  <2>9. NothingLeftOpen'
    <3>1. held' \in [Buffers -> {"none", "read", "write"}]
      BY <1>1 DEF IInv, NothingLeftOpen, TypeOK
    <3>2. Locked(l.buffer)'
      BY <2>5, <2>7 DEF Locked
    <3>3. \A c \in Buffers \ {l.buffer} : Locked(c)' <=> Locked(c)
      BY <1>1, <2>5, <2>7 DEF Locked
    <3> QED
      BY <1>4, <2>1, <3>1, <3>2, <3>3, ProtectKeepsClosed DEF IInv
  <2>10. CallOK'
    BY <1>2, <2>4 DEF CallOK
  <2>11. LockedOnce'
    <3>1. l.buffer \in Tracked => /\ held[l.buffer] = "none"
                                  /\ \A i \in 1 .. Len(call.taken) : call.taken[i] # l.buffer
      BY <1>1, <2>8 DEF Locked, Range
    <3>2. ASSUME NEW i \in 1 .. Len(call'.taken), call'.taken[i] \in Tracked
          PROVE  /\ held[call'.taken[i]] = "none"
                 /\ \A j \in 1 .. Len(call'.taken) : call'.taken[i] = call'.taken[j] => i = j
      <4>1. CASE i = 1
        BY <2>6, <3>1, <3>2, <4>1
      <4>2. CASE i # 1
        <5>1. /\ i - 1 \in 1 .. Len(call.taken) /\ call'.taken[i] = call.taken[i - 1]
              /\ call.taken[i - 1] \in Tracked
          BY <2>6, <3>2, <4>2
        <5>2. held[call.taken[i - 1]] = "none"
              /\ \A j \in 1 .. Len(call.taken) : call.taken[i - 1] = call.taken[j] => i - 1 = j
          BY <1>2, <5>1
        <5>3. ASSUME NEW j \in 1 .. Len(call'.taken), call'.taken[i] = call'.taken[j] PROVE i = j
          <6>1. j # 1
            BY <2>6, <3>1, <5>1, <5>3
          <6>2. j - 1 \in 1 .. Len(call.taken) /\ call'.taken[j] = call.taken[j - 1]
            BY <2>6, <6>1
          <6>3. i - 1 = j - 1
            BY <5>1, <5>2, <5>3, <6>2
          <6> QED
            BY <6>3
        <5> QED
          BY <5>1, <5>2, <5>3
      <4> QED
        BY <4>1, <4>2
    <3> QED
      BY <1>1, <3>2 DEF LockedOnce, Tracked
  <2> QED
    BY <2>9, <2>10, <2>11 DEF IInv
<1> QED
  BY <1>5, <1>6

LEMMA SodiumStep ==
    ASSUME IInv, Sodium
    PROVE  IInv'
<1>1. call # Idle /\ outcome' \in Results(call.op) /\ UNCHANGED <<p, mem, held, call>>
  BY DEF Sodium
<1>2. outcome' # "none"
  BY <1>1, ResultsFacts
<1> QED
  BY <1>1, <1>2
     DEF IInv, NothingLeftOpen, TypeOK, Locked, Range, CallOK, LockedOnce, Tracked

\* A locker that is dropped finds the state it put its buffer in.
LEMMA ReleaseProtects ==
    ASSUME IInv, Unlock
    PROVE  Protect(Head(call.taken), "NoAccess") /\ UNCHANGED outcome
<1> DEFINE b == Head(call.taken)
<1>1. call # Idle /\ call.taken # << >> /\ Release(b)
  BY DEF Unlock
<1>2. call.taken \in Seq(Buffers)
  BY <1>1, CallFacts
<1>3. b \in Buffers /\ b \in Range(call.taken)
  <2>1. b = call.taken[1] /\ 1 \in 1 .. Len(call.taken)
    BY <1>1, <1>2
  <2> QED
    BY <1>2, <2>1 DEF Range
<1>4. Locked(b)
  BY <1>1, <1>3 DEF Locked
<1>5. Kind[b] = "SecureBuffer" => p[b] # "NoAccess"
  BY <1>3, <1>4, KindFacts DEF IInv, NothingLeftOpen
<1> QED
  BY <1>1, <1>5 DEF Release

LEMMA UnlockStep ==
    ASSUME IInv, Unlock
    PROVE  IInv'
<1>1. /\ call # Idle /\ outcome # "none" /\ call.taken # << >>
      /\ Protect(Head(call.taken), "NoAccess")
      /\ call' = [call EXCEPT !.taken = Tail(@)]
      /\ UNCHANGED <<held, outcome>>
  BY ReleaseProtects DEF Unlock
<1>2. /\ call.op # "none"
      /\ call \in [op : {call.op}, todo : Seq(Lockers), taken : Seq(Buffers)]
      /\ \A i \in 1 .. Len(call.taken) : call.taken[i] \in Tracked =>
           /\ held[call.taken[i]] = "none"
           /\ \A j \in 1 .. Len(call.taken) : call.taken[i] = call.taken[j] => i = j
  BY <1>1, CallFacts
<1>0. Head(call.taken) \in Buffers
  BY <1>1, <1>2
<1> PICK b \in Buffers : b = Head(call.taken)
  BY <1>0
<1>3. /\ b = call.taken[1] /\ Tail(call.taken) \in Seq(Buffers)
      /\ 1 \in 1 .. Len(call.taken)
  BY <1>1, <1>2
<1>4. call' = [op |-> call.op, todo |-> call.todo,
               taken |-> Tail(call.taken)]
  BY <1>1, <1>2
<1>5. /\ call'.op = call.op /\ call'.taken = Tail(call.taken)
      /\ call' \in [op : {call.op}, todo : Seq(Lockers), taken : Seq(Buffers)]
  BY <1>2, <1>3, <1>4
<1>6. call' # Idle
  BY <1>2, <1>5 DEF Idle
<1>7. /\ \A i \in 1 .. Len(call'.taken) :
            i + 1 \in 1 .. Len(call.taken) /\ call'.taken[i] = call.taken[i + 1]
      /\ \A i \in 1 .. Len(call.taken) :
            i # 1 => i - 1 \in 1 .. Len(call'.taken) /\ call'.taken[i - 1] = call.taken[i]
  BY <1>1, <1>2, <1>5
<1>8. b \in Tracked => held[b] = "none" /\ \A i \in 1 .. Len(call'.taken) : call'.taken[i] # b
  <2>1. ASSUME b \in Tracked, NEW i \in 1 .. Len(call'.taken) PROVE call'.taken[i] # b
    <3>1. i + 1 \in 1 .. Len(call.taken) /\ call'.taken[i] = call.taken[i + 1] /\ 1 # i + 1
      BY <1>7
    <3> QED
      BY <1>2, <1>3, <2>1, <3>1
  <2> QED
    BY <1>2, <1>3, <2>1
<1>9. \A c \in Buffers \ {b} : c \in Range(call'.taken) <=> c \in Range(call.taken)
  <2>1. ASSUME NEW c \in Buffers \ {b}, c \in Range(call.taken) PROVE c \in Range(call'.taken)
    <3>1. PICK i \in 1 .. Len(call.taken) : call.taken[i] = c
      BY <2>1 DEF Range
    <3>2. i # 1
      BY <1>3, <2>1, <3>1
    <3> QED
      BY <1>7, <3>1, <3>2 DEF Range
  <2>2. ASSUME NEW c \in Buffers, c \in Range(call'.taken) PROVE c \in Range(call.taken)
    <3>1. PICK i \in 1 .. Len(call'.taken) : call'.taken[i] = c
      BY <2>2 DEF Range
    <3> QED
      BY <1>7, <3>1 DEF Range
  <2> QED
    BY <2>1, <2>2
<1>10. NothingLeftOpen'
  <2>4. Protect(b, "NoAccess") /\ "NoAccess" \in ProtectState
    BY <1>1 DEF ProtectState
  <2>1. held' \in [Buffers -> {"none", "read", "write"}]
    BY <1>1 DEF IInv, NothingLeftOpen, TypeOK
  <2>2. b \in Tracked => ~ Locked(b)'
    <3>1. b \in Tracked => held'[b] = "none" /\ b \notin Range(call'.taken)
      BY <1>1, <1>8 DEF Range
    <3> QED
      BY <3>1 DEF Locked
  <2>3. \A c \in Buffers \ {b} : Locked(c)' <=> Locked(c)
    BY <1>1, <1>6, <1>9 DEF Locked
  <2> QED
    BY <2>1, <2>2, <2>3, <2>4, ProtectKeepsClosed DEF IInv
<1>11. CallOK'
  BY <1>2, <1>5 DEF CallOK
<1>12. LockedOnce'
  <2>1. ASSUME NEW i \in 1 .. Len(call'.taken), call'.taken[i] \in Tracked
        PROVE  /\ held[call'.taken[i]] = "none"
               /\ \A j \in 1 .. Len(call'.taken) : call'.taken[i] = call'.taken[j] => i = j
    <3>1. i + 1 \in 1 .. Len(call.taken) /\ call'.taken[i] = call.taken[i + 1]
      BY <1>7
    <3>2. ASSUME NEW j \in 1 .. Len(call'.taken), call'.taken[i] = call'.taken[j] PROVE i = j
      <4>1. j + 1 \in 1 .. Len(call.taken) /\ call'.taken[j] = call.taken[j + 1]
        BY <1>7
      <4>2. i + 1 = j + 1
        BY <1>2, <2>1, <3>1, <3>2, <4>1
      <4> QED
        BY <4>2
    <3> QED
      BY <1>2, <2>1, <3>1, <3>2
  <2> QED
    BY <1>1, <2>1 DEF LockedOnce, Tracked
<1> QED
  BY <1>10, <1>11, <1>12 DEF IInv

LEMMA UnwindStep ==
    ASSUME IInv, NEW b \in Buffers, Unwind(b)
    PROVE  IInv'
<1>1. /\ call # Idle /\ outcome = "panic" /\ call.taken = << >>
      /\ held' = [held EXCEPT ![b] = "none"] /\ Protect(b, "NoAccess")
      /\ UNCHANGED <<call, outcome>>
  BY DEF Unwind
<1>2. held' \in [Buffers -> {"none", "read", "write"}]
  BY <1>1 DEF IInv, NothingLeftOpen, TypeOK
<1>3. held'[b] = "none" /\ \A c \in Buffers \ {b} : held'[c] = held[c]
  BY <1>1 DEF IInv, NothingLeftOpen, TypeOK
<1>4. Range(call.taken) = {} /\ Range(call'.taken) = {}
  BY <1>1 DEF Range
<1>5. ~ Locked(b)' /\ \A c \in Buffers \ {b} : Locked(c)' <=> Locked(c)
  BY <1>1, <1>3, <1>4 DEF Locked
<1>6. NothingLeftOpen'
  BY <1>1, <1>2, <1>5, ProtectKeepsClosed DEF IInv, ProtectState
<1>7. CallOK' /\ LockedOnce'
  BY <1>1 DEF IInv, CallOK, LockedOnce
<1> QED
  BY <1>6, <1>7 DEF IInv

LEMMA ReturnStep ==
    ASSUME IInv, Return
    PROVE  IInv'
<1>1. call.taken = << >> /\ call' = Idle /\ UNCHANGED <<p, mem, held>>
  BY DEF Return
<1>2. Range(call.taken) = {}
  BY <1>1 DEF Range
<1>3. NothingLeftOpen'
  BY <1>1, <1>2 DEF IInv, NothingLeftOpen, TypeOK, Locked
<1> QED
  BY <1>1, <1>3 DEF IInv, CallOK, LockedOnce

-----------------------------------------------------------------------------
(* The theorems.                                                           *)

LEMMA InitIInv == Init => IInv
<1> SUFFICES ASSUME Init PROVE IInv
  OBVIOUS
<1> USE DEF Init
<1>1. TypeOK
  BY DEF TypeOK, ProtectState, Tracked, Paged
<1>2. NothingLeftOpen
  <2>1. \A b \in Tracked : p[b] = "NoAccess" /\ ~ Locked(b)
    BY KindFacts DEF Locked
  <2>2. \A b \in Paged : mem[b] = "NoAccess" /\ p[b] = "NoAccess"
    BY KindFacts
  <2> QED
    BY <1>1, <2>1, <2>2, KindFacts DEF NothingLeftOpen
<1> QED
  BY <1>2 DEF IInv, CallOK, LockedOnce

LEMMA NextIInv == IInv /\ [Next]_vars => IInv'
<1> SUFFICES ASSUME IInv, [Next]_vars PROVE IInv'
  OBVIOUS
<1>1. ASSUME NEW b \in Buffers, TakeLock(b, "read") \/ TakeLock(b, "write") PROVE IInv'
  BY <1>1, TakeLockStep
<1>2. ASSUME NEW b \in Buffers, DropLock(b) PROVE IInv'
  BY <1>2, DropLockStep
<1>3. ASSUME NEW b \in SecBufs, ClonePartial(b) PROVE IInv'
  BY <1>3, ClonePartialStep
<1>4. CASE CryptoSystem
  BY <1>4, CryptoSystemSteps
<1>5. CASE SecBufFunctions
  BY <1>5, SecBufSteps
<1>6. CASE Lock \/ Sodium \/ Unlock \/ Return
  BY <1>6, LockStep, SodiumStep, UnlockStep, ReturnStep
<1>7. ASSUME NEW b \in Buffers, Unwind(b) PROVE IInv'
  BY <1>7, UnwindStep
<1>8. CASE UNCHANGED vars
  BY <1>8 DEF vars, IInv, NothingLeftOpen, TypeOK, Locked, Range, CallOK, LockedOnce,
              Tracked
<1> QED
  BY <1>1, <1>2, <1>3, <1>4, <1>5, <1>6, <1>7, <1>8 DEF Next

LEMMA InductiveInvariant == Spec => []IInv
  BY InitIInv, NextIInv, PTL DEF Spec

\* THEOREM. Whatever was locked, failed, panicked or was cloned before, a buffer
\* is accessible only while a locker on it exists, and a SecureBuffer records the
\* protection of its pages.
THEOREM BuffersClose == Spec => []NothingLeftOpen
<1>1. IInv => NothingLeftOpen
  BY DEF IInv
<1> QED
  BY <1>1, InductiveInvariant, PTL

\* Only a lock on a buffer that is locked already panics a running function.
LEMMA PanicStep ==
    ASSUME IInv, [Next]_vars, call # Idle, outcome # "panic", outcome' = "panic"
    PROVE  /\ call.todo # << >>
           /\ LET b == Head(call.todo).buffer
              IN  held[b] # "none" \/ b \in Range(call.taken)
<1>1. CASE Lock
  <2> DEFINE b == Head(call.todo).buffer
  <2>1. call.todo # << >> /\ p[b] # "NoAccess"
    BY <1>1 DEF Lock
  <2>2. b \in Buffers
    <3>1. call.todo \in Seq(Lockers)
      BY CallFacts
    <3>2. Head(call.todo) \in Lockers
      BY <2>1, <3>1
    <3> QED
      BY <3>2 DEF Lockers
  <2>3. b \in Tracked
    BY <2>1, <2>2 DEF IInv, NothingLeftOpen, TypeOK
  <2>4. Locked(b)
    BY <2>1, <2>3 DEF IInv, NothingLeftOpen
  <2> QED
    BY <2>1, <2>4 DEF Locked
<1>2. CASE Sodium
  BY <1>2, ResultsFacts DEF Sodium
<1>3. CASE Unlock
  BY <1>3, ReleaseProtects
<1>4. CASE UNCHANGED outcome
  BY <1>4
<1>5. CASE Return
  BY <1>5 DEF Return
<1>6. \/ Lock \/ Sodium \/ Unlock \/ Return \/ UNCHANGED outcome
  <2>1. ~ (call = Idle /\ (CryptoSystem \/ SecBufFunctions))
    OBVIOUS
  <2> QED
    BY <2>1 DEF Next, TakeLock, DropLock, ClonePartial, Unwind, vars
<1> QED
  BY <1>1, <1>2, <1>3, <1>4, <1>5, <1>6

\* THEOREM. A running function panics only at a buffer it was given twice or its
\* caller has locked, and never while it drops a locker: no earlier call leaves a
\* lock behind.
THEOREM PanicsAreTheCallers == Spec => PanicsOnlyWhenShared
<1>1. IInv /\ [Next]_vars =>
        [call # Idle /\ outcome # "panic" /\ outcome' = "panic" =>
           /\ call.todo # << >>
           /\ LET b == Head(call.todo).buffer
              IN  held[b] # "none" \/ b \in Range(call.taken)]_vars
  BY PanicStep
<1> QED
  BY <1>1, InductiveInvariant, PTL DEF Spec, PanicsOnlyWhenShared

=============================================================================
