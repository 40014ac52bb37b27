SPECIFICATION Spec
CONSTANT Failures <- NothingFails
PROPERTY NobodyIsLeftOnHold
