----------------------------- MODULE MCChatroom -----------------------------
(* A small instance of Chatroom: the chatroom and one bob at n1, alice and   *)
(* another bob at n2.                                                       *)
EXTENDS Chatroom, TLC

CONSTANTS n1, n2, room, alice, bob, namesake

MCNodes == {n1, n2}
MCClients == {room, alice, bob, namesake}
MCAt == (room :> n1) @@ (namesake :> n1) @@ (alice :> n2) @@ (bob :> n2)
MCName == (room :> 1) @@ (alice :> 2) @@ (bob :> 3) @@ (namesake :> 3)
MCMaxSaid == (alice :> 2) @@ (bob :> 0) @@ (namesake :> 1)
MCMaxOther == (alice :> 0) @@ (bob :> 0) @@ (namesake :> 1)
=============================================================================
