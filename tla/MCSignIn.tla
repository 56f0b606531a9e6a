------------------------------ MODULE MCSignIn ------------------------------
(* Instance of SignIn for TLC: one account from the start, two to come;    *)
(* logins from two addresses, or requests about the account of a contact,  *)
(* or requests that bring the same token or captcha.                       *)
EXTENDS SignIn, TLC

MCMixes ==
  {[kind |-> {"password", "login"}, pass |-> {"own"}, addr |-> Address, user |-> Old]}
  \cup
  UNION {{[kind |-> {"send", "reset", "bind", "register"}, pass |-> {"own"},
           addr |-> {a}, user |-> {}],
          [kind |-> {"password", "send"}, pass |-> {"token"}, addr |-> {a}, user |-> Old],
          [kind |-> {"password", "send"}, pass |-> {"captcha"}, addr |-> {a}, user |-> Old]} :
           a \in Address}

Symmetry == Permutations(Request) \cup Permutations(Address)
              \cup Permutations(Account \ Old)

=============================================================================
