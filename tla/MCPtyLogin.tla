----------------------------- MODULE MCPtyLogin -----------------------------
(***************************************************************************)
(* Values of PtyLogin's constants for TLC.                                 *)
(***************************************************************************)
EXTENDS PtyLogin

(* A notice that mentions both secrets, "Password: ", a prompt for the       *)
(* passcode that begins as one for the password would, and a question.       *)
Notice == [pieces |-> << {"password"}, {"otp"}, {} >>, asks |-> "nothing"]
PasswordPrompt == [pieces |-> << {}, {"password"} >>, asks |-> "password"]
OtpPrompt == [pieces |-> << {"password"}, {"otp"} >>, asks |-> "otp"]
Question == [pieces |-> << {} >>, asks |-> "other"]

(* Password and passcode in either order, a key, a passcode asked for twice, *)
(* and a question ctun has no answer to.                                     *)
SomeDialogues == { << Notice, PasswordPrompt, OtpPrompt >>,
                   << OtpPrompt, Notice, PasswordPrompt >>,
                   << Notice >>,
                   << OtpPrompt, OtpPrompt >>,
                   << Question, PasswordPrompt >> }
=============================================================================
