---------------------------- MODULE MCShopIntake ----------------------------
(***************************************************************************)
(* What happens before a product is read, for TLC: the connections are     *)
(* made (ConnectionHandshake), the shop is looked at (ShopDiscovery), and  *)
(* the source of its products is found (OAuthRouting).  The three share    *)
(* only results, so a behaviour is of one of them and the others rest.     *)
(***************************************************************************)
EXTENDS OAuthRouting, ShopDiscovery, ConnectionHandshake, TLC

VARIABLE part

intakeVars == <<part, vars, discoveryVars, handshakeVars>>

\* Shops of one platform, of two that are shown alike or unlike, and of none.
MCShops ==
  {{}, {<<"header", "shopify">>, <<"api", "shopify">>, <<"cdn", "shopify">>},
   {<<"header", "woocommerce">>, <<"api", "woocommerce">>, <<"cdn", "shopify">>},
   {<<"api", "magento">>, <<"meta", "bigcommerce">>},
   {<<"meta", "bigcommerce">>, <<"cdn", "bigcommerce">>, <<"header", "magento">>},
   {<<"header", "shopware">>, <<"api", "shopware">>, <<"api", "woocommerce">>}}

P(n) == <<"product", n>>
J(n) == <<"junk", n>>
F(n) == <<"flat", n>>

\* Nothing, only junk, and lists with less and with more than three product pages in ten.
MCSitemaps ==
  {<<>>, <<J(1)>>, <<F(1), P(2)>>, <<P(1), J(1), F(1), F(2), F(3)>>, <<Base, J(1)>>, <<F(1), Base, F(2), J(1)>>,
   <<P(3), P(1), P(2), F(1)>>}

MCBarred == {P(3)}

RoutingRests ==
  Init /\ active = {} /\ ~hashed /\ ~readable /\ ~discovered /\ detected = "generic"

DiscoveryRests == DiscoveryInit /\ shown = {}

HandshakeRests == HandshakeInit /\ shopKind = "shopify" /\ keyed

IntakeInit ==
  \/ part = "routing" /\ Init /\ DiscoveryRests /\ HandshakeRests
  \/ part = "discovery" /\ RoutingRests /\ DiscoveryInit /\ HandshakeRests
  \/ part = "handshake" /\ RoutingRests /\ DiscoveryRests /\ HandshakeInit

IntakeNext ==
  /\ UNCHANGED part
  /\ \/ part = "routing" /\ Next /\ UNCHANGED <<discoveryVars, handshakeVars>>
     \/ part = "discovery" /\ DiscoveryStep /\ UNCHANGED <<vars, handshakeVars>>
     \/ part = "handshake" /\ HandshakeStep /\ UNCHANGED <<vars, discoveryVars>>

\* The fairness of OAuthRouting.
IntakeSpec ==
  IntakeInit /\ [][IntakeNext]_intakeVars /\ WF_intakeVars(part = "routing" /\ Job /\ IntakeNext)
=============================================================================
