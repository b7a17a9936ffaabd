\* The scanner does not return on a signed word.
CONSTANT Inputs <- FewInputs
SPECIFICATION Spec
PROPERTY Termination
