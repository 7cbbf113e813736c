-------------------------------- MODULE Console --------------------------------
(***************************************************************************)
(* What the console's parts promise together.  They share no variable and  *)
(* each has a specification of its own: users' addresses and the codes     *)
(* mailed to them, sessions, the dialogue with a mail server, the lists of *)
(* models and the settings, the images of a batch and the providers of     *)
(* images.                                                                 *)
(***************************************************************************)
EXTENDS EmailAddresses, Sessions, MailDialog, ModelLists, BatchFiles, ImageProviders

(* Users' addresses, codes and sessions, the mail that carries them,       *)
(* the lists of models, the images of a batch and its provider.            *)
ConsoleSafe == AddressesSafe /\ SessionsSafe /\ MailSafe /\ ListsSafe /\ FilesSafe /\ ProvidersSafe

(* What a step may not take away: a code that was mailed, without a reason *)
(* of its user's, or a second factor.                                      *)
ConsoleKeeps == CodesStayUsable /\ FactorStays
================================================================================
