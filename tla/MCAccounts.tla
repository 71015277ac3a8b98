------------------------------ MODULE MCAccounts ------------------------------
(* A user of two tenants, or two users of one. *)
EXTENDS Accounts, TLC
CONSTANTS People, Places

TwoTenants == {{<<u, t>> : t \in Places} : u \in People}
TwoUsers == {{<<u, t>> : u \in People} : t \in Places}
SmallWorlds == TwoTenants \union TwoUsers

Interchangeable ==
  Permutations(SignIns) \union Permutations(Requests) \union Permutations(People)
    \union Permutations(Places)
=============================================================================
