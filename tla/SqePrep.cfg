CONSTANT Helpers <- Calls
SPECIFICATION SlotSpec
INVARIANTS SlotTypeOK NothingInherited AllSaid
