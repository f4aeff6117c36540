-------------------------- MODULE MCBodyValidation --------------------------
(* Constants of the model checking runs of FunctionBody and BodyValidation. *)
EXTENDS BodyValidation

Sig(params, result) == [params |-> params, result |-> result]

NoVariables == <<>>
OneLocal == <<"f32">>
OneGlobal == <<"i32">>
OneParam == {Sig(<<"i32">>, "i32")}
Giver == {Sig(<<>>, "i32")}
=============================================================================
