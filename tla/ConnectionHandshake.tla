------------------------ MODULE ConnectionHandshake ------------------------
(***************************************************************************)
(* How a merchant connects a shop: the nonce that a connect leaves in the  *)
(* memory of the API, the callback that spends it, exchanges a code and    *)
(* tries the credentials, the credentials that are entered by hand, and    *)
(* the row of the connection.  Every one of these requests awaits the shop *)
(* and the database, and the others go on meanwhile.                       *)
(*                                                                         *)
(* app/api/v1/{auth,shopify_auth,woocommerce_auth,magento_auth,            *)
(* shopware_auth}.py, app/security/nonce_store.py, app/db/oauth_store.py.  *)
(***************************************************************************)
EXTENDS Naturals, FiniteSets

CONSTANTS
  Requests,     \* requests that may overlap
  MaxConnects,  \* connects that are begun
  MaxIssued     \* sets of credentials the shop hands out

ASSUME HandshakeAssumption == MaxConnects \in Nat /\ MaxIssued \in Nat

VARIABLES
  shopKind,   \* the platform of the shop
  keyed,      \* there is a valid OAUTH_ENCRYPTION_KEY
  nonces,     \* the nonces in memory
  begun,      \* how many connects there were
  issued,     \* how many sets of credentials there are
  row,        \* the row of this shop: its status, and which set each column is of
  request,    \* what each request is doing, and with which set
  passed      \* history: callbacks that were let through

handshakeVars == <<shopKind, keyed, nonces, begun, issued, row, request, passed>>

Columns == {"access_token", "access_token_secret", "refresh_token", "consumer_key",
            "consumer_secret", "store_hash"}

Empty == [c \in Columns |-> 0]

Idle == [at |-> "idle", set |-> 0, by |-> "callback"]

\* What store_connection() is called with.
Stored(by) ==
  CASE shopKind = "shopify"     -> {"access_token"}
    [] shopKind = "woocommerce" -> {"consumer_key", "consumer_secret"}
    [] shopKind = "bigcommerce" -> {"access_token", "store_hash"}
    [] shopKind = "shopware"    -> {"access_token", "refresh_token"}
    [] shopKind = "magento"     -> IF by = "manual" THEN {"access_token"}
                                   ELSE {"access_token", "access_token_secret"}

HasCallback == shopKind # "shopware"

HasManual == shopKind \in {"woocommerce", "magento", "shopware"}

HandshakeInit ==
  /\ shopKind \in {"shopify", "woocommerce", "bigcommerce", "magento", "shopware"}
  /\ keyed \in BOOLEAN
  /\ nonces = {}
  /\ begun = 0
  /\ issued = 0
  /\ row = [status |-> "none", of |-> Empty]
  /\ request = [q \in Requests |-> Idle]
  /\ passed = 0

-----------------------------------------------------------------------------
\* Magento sends no nonce back: it is known by its domain, which is the same each time.
Nonce(n) == IF shopKind = "magento" THEN 1 ELSE n

Connect ==
  /\ HasCallback
  /\ begun < MaxConnects
  /\ begun' = begun + 1
  /\ nonces' = nonces \union {Nonce(begun')}
  /\ UNCHANGED <<shopKind, keyed, issued, row, request, passed>>

\* TTLNonceStore: after ten minutes, for Magento thirty.
Expires(n) ==
  /\ n \in nonces
  /\ nonces' = nonces \ {n}
  /\ UNCHANGED <<shopKind, keyed, begun, issued, row, request, passed>>

Does(q, what) == request' = [request EXCEPT ![q] = what]

Spends_Bug(n) == UNCHANGED nonces

Spends(n) == nonces' = nonces \ {n}

\* A callback, which may be sent any number of times; one without a nonce is refused.
Admits(q, n) ==
  /\ HasCallback
  /\ request[q] = Idle
  /\ n \in nonces
  /\ Spends(n)
  /\ passed' = passed + 1
  /\ UNCHANGED <<shopKind, keyed, begun, row>>

\* It brings a code or a verifier that is still to be exchanged.
CallbackWithCode(q, n) ==
  /\ shopKind # "woocommerce"
  /\ Admits(q, n)
  /\ Does(q, [at |-> "exchanging", set |-> 0, by |-> "callback"])
  /\ UNCHANGED issued

\* WooCommerce sends the credentials themselves.
CallbackWithKeys(q, n) ==
  /\ shopKind = "woocommerce"
  /\ Admits(q, n)
  /\ issued < MaxIssued
  /\ issued' = issued + 1
  /\ Does(q, [at |-> "verifying", set |-> issued', by |-> "callback"])

\* Magento's two tokens are tried before they are stored, the token of the others is not.
Exchange(q) ==
  /\ request[q].at = "exchanging"
  /\ issued < MaxIssued
  /\ issued' = issued + 1
  /\ Does(q, [request[q] EXCEPT !.at = IF shopKind = "magento" THEN "verifying" ELSE "storing",
                                !.set = issued'])
  /\ UNCHANGED <<shopKind, keyed, nonces, begun, row, passed>>

\* Credentials that the merchant made in the shop and pastes.
Manual(q) ==
  /\ HasManual
  /\ request[q] = Idle
  /\ issued < MaxIssued
  /\ issued' = issued + 1
  /\ Does(q, [at |-> "verifying", set |-> issued', by |-> "manual"])
  /\ UNCHANGED <<shopKind, keyed, nonces, begun, row, passed>>

Verify(q) ==
  /\ request[q].at = "verifying"
  /\ Does(q, [request[q] EXCEPT !.at = "storing"])
  /\ UNCHANGED <<shopKind, keyed, nonces, begun, issued, row, passed>>

\* The shop refuses or cannot be reached, the answer lacks a token, there is no database or
\* it raises.  The nonce is spent all the same.
Fails(q) ==
  /\ request[q] # Idle
  /\ Does(q, Idle)
  /\ UNCHANGED <<shopKind, keyed, nonces, begun, issued, row, passed>>

\* UPSERT_OAUTH_CONNECTION replaces every column.  What cannot be encrypted is stored as
\* NULL; the store hash is not encrypted.
Upsert_Bug(set, columns) ==
  [status |-> "active",
   of |-> [c \in Columns |-> IF c \in columns /\ (keyed \/ c = "store_hash") THEN set ELSE row.of[c]]]

Upsert(set, columns) ==
  [status |-> "active",
   of |-> [c \in Columns |-> IF c \in columns /\ (keyed \/ c = "store_hash") THEN set ELSE 0]]

Store(q) ==
  /\ request[q].at = "storing"
  /\ row' = Upsert(request[q].set, Stored(request[q].by))
  /\ Does(q, Idle)
  /\ UNCHANGED <<shopKind, keyed, nonces, begun, issued, passed>>

\* A row is found by what it was stored under: BigCommerce's by the store hash, so that a
\* disconnect by the domain, which the route allows, revokes nothing.
Disconnect(by) ==
  /\ by = "hash" => shopKind = "bigcommerce"
  /\ row' = IF row.status = "none" \/ (shopKind = "bigcommerce" /\ by = "domain") THEN row
            ELSE [row EXCEPT !.status = "revoked"]
  /\ UNCHANGED <<shopKind, keyed, nonces, begun, issued, request, passed>>

\* The API is started again, with the key it is then given: the nonces and whatever it was
\* doing are gone.
Restart ==
  /\ nonces' = {}
  /\ keyed' \in BOOLEAN
  /\ request' = [q \in Requests |-> Idle]
  /\ UNCHANGED <<shopKind, begun, issued, row, passed>>

HandshakeStep ==
  \/ Connect
  \/ \E n \in nonces : Expires(n)
  \/ \E q \in Requests :
       \/ \E n \in nonces : CallbackWithCode(q, n) \/ CallbackWithKeys(q, n)
       \/ Exchange(q) \/ Manual(q) \/ Verify(q) \/ Fails(q) \/ Store(q)
  \/ \E by \in {"hash", "domain"} : Disconnect(by)
  \/ Restart

HandshakeSpec == HandshakeInit /\ [][HandshakeStep]_handshakeVars

-----------------------------------------------------------------------------
(***************************************************************************)
(* Properties.                                                             *)
(***************************************************************************)
\* A connect is answered at most once, however often the shop sends the callback, while
\* another callback is still exchanging its code, and across restarts.
ConnectSpentOnce == passed + Cardinality(nonces) <= begun

Filled == {c \in Columns : row.of[c] # 0}

\* Whatever overlaps, the row is of one handshake: all its credentials are of the same set
\* and belong to one way of connecting, with nothing of an earlier one beside them.
RowIsOneHandshake ==
  /\ \A c, d \in Filled : row.of[c] = row.of[d]
  /\ Filled \ {"store_hash"} \in {{}} \union {Stored(by) \ {"store_hash"} : by \in {"callback", "manual"}}
==============================================================================
